-------------------------- MODULE PostgreSQLSystem --------------------------
(***************************************************************************)
(* The postgresql example: DatabaseService on PostgreSQLSystem on          *)
(* PostgreSQLComponent, used by the five tasks of the program.  The server *)
(* is outside: it refuses, breaks the connection or answers as it likes.   *)
(***************************************************************************)
EXTENDS LegacyContext

VARIABLES
    components,    \* system -> entity -> _entityComponents
    bound,         \* system -> entity of _boundEntityComponent, 0 for nullptr
    atStep,        \* how far the current task has come
    table,         \* what the server keeps: "absent", "empty", "rows"
    verdict,       \* what checkTablesScheme() has come to so far
    unanswered     \* history: statements of the check that brought no rows

databaseVars == <<contextVars, components, bound, atStep, table, verdict, unanswered>>

Local == "PostgresBDLocal"
Tables == {"absent", "empty", "rows"}
ServerAnswers == {"done", "doubt", "failed", "broken"}

DatabaseFlows ==
    [init |-> <<"initBD", "checkBD">>, work |-> <<"addData", "readData", "removeData">>,
     error |-> <<>>, close |-> <<>>]
DatabaseExits == [init |-> "Success", work |-> "Error", error |-> "Error", close |-> "Success"]

(* Mutant: every task asks for a service of its own.                       *)
OwnServices ==
    [t \in {"initBD", "checkBD", "addData", "readData", "removeData"} |->
        <<[id |-> "Database", how |-> "new"]>>]

DatabaseWants ==
    [t \in {"initBD", "checkBD", "addData", "readData", "removeData"} |->
        <<[id |-> "Database", how |-> IF t = "initBD" THEN "new" ELSE "exist"]>>]

DatabaseInit ==
    /\ ContextInit
    /\ components = << >> /\ bound = << >> /\ atStep = "start"
    /\ table \in Tables /\ verdict = "none" /\ unanswered = {}

-----------------------------------------------------------------------------
NewComponent == [connection |-> "none", typed |-> FALSE, configured |-> FALSE]

Sys == SystemHeld(CurrentTask, "Database")
Of(sys) == IF sys \in DOMAIN components THEN components[sys] ELSE << >>
Target == bound[Sys]
Component == components[Sys][Target]

(* DatabaseService::entityBound(): makes the entity's component when it    *)
(* has none, then binds the system.                                        *)
BindEntity(entity) ==
    LET has == entity \in DOMAIN Of(Sys)
        ofSys == IF has \/ entity = 0 THEN Of(Sys) ELSE (entity :> NewComponent) @@ Of(Sys)
    IN /\ components' = (Sys :> ofSys) @@ components
       /\ bound' = (Sys :> IF entity \in DOMAIN ofSys THEN entity ELSE 0) @@ bound

(* Each task begins so; InitBDTask makes the entity it binds and one more. *)
(* No step goes on from a null pointer: the invariant has them all found.  *)
BindTask ==
    /\ CurrentTask # "none" /\ atStep = "start"
    /\ Sys # 0
    /\ BindEntity(IF CurrentTask = "initBD" THEN entityCount + 1 ELSE EntityByAlias(Local))
    /\ entityCount' = IF CurrentTask = "initBD" THEN entityCount + 2 ELSE entityCount
    /\ atStep' = "bound"
    /\ UNCHANGED <<registry, serviceOf, wired, currState, taskAt, aliases, table, verdict,
                   unanswered>>

(* PostgreSQLComponent::connect(); connectToDb() goes on with the types     *)
(* only when there is a connection.                                        *)
Connect(connected) ==
    /\ CurrentTask = "initBD" /\ atStep = "bound" /\ Target # 0
    /\ components' = [components EXCEPT ![Sys][Target] =
           [@ EXCEPT !.configured = TRUE, !.connection = IF connected THEN "open" ELSE "none"]]
    /\ atStep' = IF connected THEN "connected" ELSE "used"
    /\ UNCHANGED <<contextVars, bound, table, verdict, unanswered>>

(* exec(): validates, then begins, runs and commits a transaction of its   *)
(* own.  "doubt": committed, and the connection breaks before the answer.  *)
Done(answer) == answer \in {"done", "doubt"}
AfterExec(c, answer) ==
    IF answer \in {"doubt", "broken"} THEN [c EXCEPT !.connection = "lost"] ELSE c
Possible(c, answer) == c.connection # "open" => answer = "failed"

(* The rows of the result are built from the columns whose type the        *)
(* converter knows, and left out when no column is left.                   *)
Rows(c, answer) == answer = "done" /\ c.typed

(* makePgTypeConverter(): the types of the server for the converter; an    *)
(* exception on the way becomes an error result, and the converter stays   *)
(* the empty one.                                                          *)
LoadTypes(answer) ==
    /\ CurrentTask = "initBD" /\ atStep = "connected"
    /\ components' = [components EXCEPT ![Sys][Target] =
           [AfterExec(@, answer) EXCEPT !.typed = answer = "done"]]
    /\ atStep' = "used"
    /\ UNCHANGED <<contextVars, bound, table, verdict, unanswered>>

(* checkTablesScheme() sends two statements for each table: is it there,   *)
(* how many of its columns are.  Both always bring a row, and what is in   *)
(* it is not looked at: value is the optional, not the flag inside.        *)
CheckTables(statement, answer) ==
    /\ CurrentTask = "checkBD" /\ Target # 0
    /\ atStep = IF statement = "exists" THEN "bound" ELSE "exists"
    /\ Possible(Component, answer)
    /\ components' = [components EXCEPT ![Sys][Target] = AfterExec(@, answer)]
    /\ IF Rows(Component, answer)
       THEN /\ atStep' = IF statement = "exists" THEN "exists" ELSE "used"
            /\ verdict' = IF statement = "exists" THEN "none" ELSE "ok"
            /\ UNCHANGED unanswered
       ELSE /\ atStep' = "used" /\ verdict' = "error"
            /\ unanswered' = unanswered \cup {statement}
    /\ UNCHANGED <<contextVars, bound, table>>

(* clearTable(): queryRequest() prints the error, so that the task never   *)
(* learns of it.                                                           *)
ClearTable(answer) ==
    /\ CurrentTask = "removeData" /\ atStep = "bound" /\ Target # 0
    /\ Possible(Component, answer)
    /\ components' = [components EXCEPT ![Sys][Target] = AfterExec(@, answer)]
    /\ table = "absent" => ~Done(answer)
    /\ table' = IF Done(answer) THEN "empty" ELSE table
    /\ atStep' = "used"
    /\ UNCHANGED <<contextVars, bound, verdict, unanswered>>

(* unbindEntity() leaves the system bound; every task returns Success, the *)
(* check too, whose failure createDatabaseScheme() turns into one.         *)
EndDbTask ==
    /\ CurrentTask # "none"
    /\ atStep = IF CurrentTask \in {"addData", "readData"} THEN "bound" ELSE "used"
    /\ EndTask("Success") /\ atStep' = "start"
    /\ aliases' = IF CurrentTask = "initBD"
                  THEN (Local :> entityCount - 1) @@ ("KeyRleaseEvent" :> entityCount) @@ aliases
                  ELSE aliases
    /\ UNCHANGED <<registry, serviceOf, wired, currState, entityCount, components, bound, table,
                   verdict, unanswered>>

DatabaseNext ==
    \/ /\ SetTaskFlow \/ StartMachine \/ LeaveState
       /\ UNCHANGED <<components, bound, atStep, table, verdict, unanswered>>
    \/ BindTask \/ EndDbTask
    \/ \E connected \in BOOLEAN : Connect(connected)
    \/ \E answer \in ServerAnswers : \/ LoadTypes(answer)
                                     \/ \E s \in {"exists", "columns"} : CheckTables(s, answer)
                                     \/ ClearTable(answer)

-----------------------------------------------------------------------------
(* Whatever service a task got from the context, it works on the entity    *)
(* and the connection that InitBDTask set up, and finds no null pointer.   *)
SessionIsShared ==
    /\ CurrentTask # "none" => Sys # 0 /\ (atStep # "start" => Target # 0)
    /\ CurrentTask # "none" /\ CurrentTask # "initBD" /\ atStep # "start" =>
          Target = EntityByAlias(Local) /\ Component.configured

(* The schema check fails exactly when one of its statements got no rows;  *)
(* the next one is sent only when the one before brought its row.          *)
VerdictsFit ==
    /\ verdict = "error" <=> unanswered # {}
    /\ CurrentTask = "removeData" => verdict # "none"

(* Does not hold, the reading "has wrong schema or is absent" of the       *)
(* errors: a check that passes has seen the table.                         *)
PassedMeansPresent == verdict = "ok" => table # "absent"

DatabaseIsSound == SessionIsShared /\ VerdictsFit
=============================================================================
