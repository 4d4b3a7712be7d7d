----------------------------- MODULE MCComponents -----------------------------
(***************************************************************************)
(* One instance for the parts collections are made of, the callbacks of    *)
(* their notifiers included. Each keeps its state to itself: a behaviour   *)
(* picks one part and takes steps of that part only; the others rest in an *)
(* initial state.                                                          *)
(***************************************************************************)
EXTENDS IndexSet, ChangeSets, ObjectChanges, DeepChanges, Results,
        NotifierCallbacks, TLC

VARIABLE part     \* the part this behaviour is about

-----------------------------------------------------------------------------
(* Results: contents of a table, of a list of links, of a list of values.  *)

Content(o, l, p) == [objs |-> o, links |-> l, prims |-> p]
MCTableContents == {Content(<<1, 1>>, <<>>, <<>>), Content(<<2, 1>>, <<>>, <<>>)}
MCLinkContents == {Content(<<1, 2>>, <<1, 2>>, <<>>), Content(<<1, 2>>, <<2, 1, 1>>, <<>>),
                   Content(2 :> 1, <<2>>, <<>>)}
MCPrimContents == {Content(<<>>, <<>>, <<2, 1, 1>>), Content(<<>>, <<>>, <<2>>)}

-----------------------------------------------------------------------------
(* The parts at rest.                                                      *)

ChangeSetsRest ==
    /\ kind = "list"
    /\ before = <<>> /\ begun = <<>> /\ rows = <<>>
    /\ fresh = MaxLength + 1
    /\ touched = {}
    /\ merged = EmptyChange /\ current = EmptyChange
    /\ ops = 0

ObjectChangesRest == ObjectChangesInit /\ live = {1}

DeepChangesRest ==
    /\ columns = {"next"}
    /\ links = [o \in Objects |-> IF o \in TableA THEN [next |-> <<>>, other |-> <<>>]
                                                ELSE [back |-> <<>>]]
    /\ modified = {CHOOSE o \in TableA : TRUE}
    /\ notModified = {}
    /\ answers = [o \in TableA |-> "not asked"]

ResultsRest ==
    /\ src = "table"
    /\ file = <<Content(<<1, 1>>, <<>>, <<>>)>>
    /\ at = 1
    /\ draft = <<>> /\ pinned = <<>>
    /\ res = NewResults("Table", <<>>, FALSE)
    /\ notifier = NoNotifier
    /\ listChanged = TRUE
    /\ kept = <<>>
    /\ lostSort = FALSE /\ askedElsewhere = FALSE

Starting(p, Initially, Rest) == IF part = p THEN Initially ELSE Rest

ComponentsInit ==
    /\ part \in {"index set", "change sets", "object changes", "deep changes", "results",
                "callbacks"}
    /\ IndexSetInit
    /\ Starting("change sets", ChangeSetsInit, ChangeSetsRest)
    /\ Starting("object changes", ObjectChangesInit, ObjectChangesRest)
    /\ Starting("deep changes", DeepChangesInit, DeepChangesRest)
    /\ Starting("results", ResultsInit, ResultsRest)
    /\ NotifierCallbacksInit

ComponentsNext ==
    \/ /\ part = "index set"
       /\ IndexSetNext
       /\ UNCHANGED <<part, csVars, ocVars, dcVars, rsVars, ncVars>>
    \/ /\ part = "change sets"
       /\ ChangeSetsNext
       /\ UNCHANGED <<part, isVars, ocVars, dcVars, rsVars, ncVars>>
    \/ /\ part = "object changes"
       /\ ObjectChangesNext
       /\ UNCHANGED <<part, isVars, csVars, dcVars, rsVars, ncVars>>
    \/ /\ part = "deep changes"
       /\ DeepChangesNext
       /\ UNCHANGED <<part, isVars, csVars, ocVars, rsVars, ncVars>>
    \/ /\ part = "results"
       /\ ResultsNext
       /\ UNCHANGED <<part, isVars, csVars, ocVars, dcVars, ncVars>>
    \/ /\ part = "callbacks"
       /\ NotifierCallbacksNext
       /\ UNCHANGED <<part, isVars, csVars, ocVars, dcVars, rsVars>>

ComponentsSpec ==
    ComponentsInit /\ [][ComponentsNext]_<<part, isVars, csVars, ocVars, dcVars, rsVars, ncVars>>
===============================================================================
