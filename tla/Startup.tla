------------------------------ MODULE Startup ------------------------------
(***************************************************************************)
(* Instances that start against a shared libSQL server and then serve:     *)
(* state::open_remote_with_retry, Pool::open_remote, ensure_schema_remote, *)
(* add_missing_columns, seed_spots_if_empty, and create_account as the     *)
(* transaction a serving instance runs.  Their statements go through       *)
(* HranaSession one by one, so two instances that start together, a lost   *)
(* answer or a crash can come between any two of them.                     *)
(***************************************************************************)
EXTENDS HranaSession, Sequences, SequencesExt

CONSTANTS Columns,        \* a sequence: the columns a table of an older build lacks
          Seeds,          \* a sequence: SEED_SPOTS
          MaxAttempts,    \* attempts that fit before the deadline of 180 seconds
          MaxOps          \* bound on the transactions of an instance

VARIABLES at,             \* the statement each instance has to run next
          todo,           \* what is left of the loop it is in, as indices
          attempts,       \* attempts at the schema so far
          told, issued    \* create_account: the last answer, how many were called

startVars == <<at, todo, attempts, told, issued>>
vars == <<hranaVars, startVars>>

\* The rows of the user and of the credentials of an instance's n-th account.
Parts == <<"user", "auth">>
Row(s, n, p) == <<s, n, p>>
Rows == Sessions \X (1..MaxOps) \X ToSet(Parts)
Schema == {Table, Index} \cup ToSet(Columns)
Items == Schema \cup ToSet(Seeds) \cup Rows

\* A new namespace; one of an older build, with rows that an index would not
\* allow; and one that is ready.
Databases == {{}, {Table, Duplicates}, Schema \cup ToSet(Seeds)}

\* What the variables of HranaSession hold when they hold something.
Statements == {Begin, Commit, Rollback, Read}
              \cup [kind : {"write"}, item : Items, adds : SUBSET Items, fresh : BOOLEAN]
Requests == [from : Sessions, stmt : Statements, baton : Batons \cup {None},
             late : BOOLEAN, close : BOOLEAN]
Reasons == {"", "refused", "busy", "no transaction", "failed", "unique"}
Answers == [ok : BOOLEAN, baton : Batons \cup {None}, why : Reasons, refused : BOOLEAN,
            saw : SUBSET (Items \cup {Duplicates})]
Txs == [baton : Batons, owner : Sessions, writes : SUBSET Items]

\* Columns, inventory and rows are different things, and no spot is listed twice.
ASSUME StartupAssumption ==
    /\ Columns \in Seq(ToSet(Columns)) /\ Seeds \in Seq(ToSet(Seeds)) /\ IsInjective(Seeds)
    /\ {Table, Index, Duplicates} \cap (ToSet(Columns) \cup ToSet(Seeds) \cup Rows) = {}
    /\ ToSet(Columns) \cap (ToSet(Seeds) \cup Rows) = {} /\ ToSet(Seeds) \cap Rows = {}
    /\ MaxAttempts \in Nat \ {0} /\ MaxOps \in Nat
    /\ None \notin Requests /\ None \notin Answers /\ None \notin Txs

Init == /\ HranaInit
        /\ db \in Databases
        /\ at = [s \in Sessions |-> "create"]
        /\ todo = [s \in Sessions |-> {}]
        /\ attempts = [s \in Sessions |-> 1]
        /\ told = [s \in Sessions |-> "err"]
        /\ issued = [s \in Sessions |-> 0]

-----------------------------------------------------------------------------
(* Deviations from the code, each of which breaks a property.              *)

\* The columns of a table are not looked at, or all added without a look.
MissingNone(saw) == {}
MissingAll(saw) == DOMAIN Columns

\* A transaction that fails is left as it is.
UnwindNever(s) == at' = [at EXCEPT ![s] = "idle"] /\ todo' = [todo EXCEPT ![s] = {}]

-----------------------------------------------------------------------------
(* The program                                                             *)

Turn(s) == Min(todo[s])
Rest(s) == todo[s] \ {Turn(s)}

Sql(s) == CASE at[s] = "create" -> Create(Table, {Table} \cup ToSet(Columns))
            [] at[s] \in {"columns", "count"} -> Read
            [] at[s] = "alter" -> Insert(Columns[Turn(s)])
            [] at[s] = "seed" -> Insert(Seeds[Turn(s)])
            [] at[s] = "index" -> Create(Index, {Index})
            [] at[s] = "begin" -> Begin
            [] at[s] = "insert" -> Insert(Row(s, issued[s], Parts[Turn(s)]))
            [] at[s] = "commit" -> Commit
            [] at[s] = "rollback" -> Rollback

Goto(s, l, rest) == /\ at' = [at EXCEPT ![s] = l]
                    /\ todo' = [todo EXCEPT ![s] = rest]

\* A loop over what is left, and where to go when nothing is.
Loop(s, l, rest, after) == IF rest = {} THEN Goto(s, after, {}) ELSE Goto(s, l, rest)

\* add_missing_columns: the columns PRAGMA table_info did not list.
Missing(saw) == {i \in DOMAIN Columns : Columns[i] \notin saw}

\* seed_spots_if_empty: every row, or none when the count is not zero.
Unseeded(saw) == IF saw \cap ToSet(Seeds) = {} THEN DOMAIN Seeds ELSE {}

\* open_remote_with_retry: the next attempt, or the process exits.
Retry(s) == IF attempts[s] < MaxAttempts
            THEN Goto(s, "create", {}) /\ attempts' = [attempts EXCEPT ![s] = @ + 1]
            ELSE Goto(s, "exited", {}) /\ UNCHANGED attempts

\* TxGuard::drop
Unwind(s) == Goto(s, "rollback", {})

Serving(s) == at[s] = "idle"
Starting(s) == at[s] \in {"create", "columns", "alter", "index", "count", "seed"}

Report(s, r) == told' = [told EXCEPT ![s] = r]

\* What the program does with the outcome of its statement.
Advance(s, ok, a) ==
    \/ /\ Starting(s) /\ UNCHANGED <<told, issued>>
       /\ IF ok \/ (at[s] = "index" /\ a # None /\ a.why = "unique")
          THEN /\ CASE at[s] = "create" -> Goto(s, "columns", {})
                    [] at[s] = "columns" -> Loop(s, "alter", Missing(a.saw), "index")
                    [] at[s] = "alter" -> Loop(s, "alter", Rest(s), "index")
                    [] at[s] = "index" -> Goto(s, "count", {})
                    [] at[s] = "count" -> Loop(s, "seed", Unseeded(a.saw), "idle")
                    [] at[s] = "seed" -> Loop(s, "seed", Rest(s), "idle")
               /\ attempts' = [attempts EXCEPT ![s] = IF at'[s] = "idle" THEN 1 ELSE @]
          ELSE Retry(s)
    \/ /\ at[s] = "begin" /\ UNCHANGED <<attempts, issued>>
       /\ IF ok THEN Goto(s, "insert", DOMAIN Parts) /\ UNCHANGED told
          ELSE Goto(s, "idle", {}) /\ Report(s, "err")
    \/ /\ at[s] = "insert" /\ UNCHANGED <<attempts, issued, told>>
       /\ IF ok THEN Loop(s, "insert", Rest(s), "commit")
          ELSE Unwind(s)
    \/ /\ at[s] = "commit" /\ UNCHANGED <<attempts, issued>>
       /\ IF ok THEN Goto(s, "idle", {}) /\ Report(s, "ok")
          ELSE Unwind(s) /\ UNCHANGED told
    \* what the rollback answers is only logged
    \/ /\ at[s] = "rollback" /\ UNCHANGED <<attempts, issued>>
       /\ Goto(s, "idle", {}) /\ Report(s, "err")

-----------------------------------------------------------------------------
(* Steps                                                                   *)

\* A statement's request is sent ...
Ask(s) == /\ at[s] \notin {"idle", "exited"}
          /\ Send(s, Sql(s))
          /\ UNCHANGED startVars

\* ... and answered, or given up.
Answered(s) == /\ Receive(s)
               /\ Advance(s, ~answer[s].refused /\ Succeeded(sent[s], answer[s]), answer[s])
GivenUp(s) == TimeOut(s) /\ Advance(s, FALSE, None)

\* A request of the API calls create_account.
CreateAccount(s) == /\ Serving(s) /\ issued[s] < MaxOps
                    /\ issued' = [issued EXCEPT ![s] = @ + 1]
                    /\ Report(s, "none")
                    /\ Goto(s, "begin", {})
                    /\ UNCHANGED <<hranaVars, attempts>>

\* The process dies and is started again.  What it has sent may still arrive.
Crash(s) ==
    /\ Fault
    /\ at[s] \notin {"idle", "exited"}
    /\ baton' = [baton EXCEPT ![s] = None]
    /\ sent' = [sent EXCEPT ![s] = None]
    /\ answer' = [answer EXCEPT ![s] = None]
    /\ wire' = {IF q.from = s THEN Late(q) ELSE q : q \in wire}
    /\ Goto(s, "create", {})
    /\ attempts' = [attempts EXCEPT ![s] = 1]
    /\ told' = [told EXCEPT ![s] = "err"]
    /\ UNCHANGED <<server, issued>>

Server == (Serve \/ Expire) /\ UNCHANGED startVars
Instance(s) == Ask(s) \/ Answered(s) \/ GivenUp(s) \/ CreateAccount(s) \/ Crash(s)

Next == Server \/ \E s \in Sessions : Instance(s)

\* An instance goes on with its program, the server answers what has arrived,
\* and drops a stream that nobody can name.
Fairness == /\ \A s \in Sessions : WF_vars(Ask(s)) /\ WF_vars(Answered(s))
            /\ WF_vars(Serve /\ UNCHANGED startVars)
            /\ WF_vars(Orphan /\ Expire /\ UNCHANGED startVars)

Spec == Init /\ [][Next]_vars /\ Fairness

-----------------------------------------------------------------------------
(* Properties                                                              *)

\* At rest a session holds no baton: the pool hands out clean connections.
TypeOK == /\ baton \in [Sessions -> Batons \cup {None}]
          /\ \A s \in Sessions : at[s] \in {"idle", "exited"} \/ Starting(s) => baton[s] = None
          /\ sent \in [Sessions -> Requests \cup {None}]
          /\ answer \in [Sessions -> Answers \cup {None}]
          /\ wire \subseteq Requests
          /\ tx \in Txs \cup {None}
          /\ db \subseteq Items \cup {Duplicates}
          /\ faults \in 0..MaxFaults
          /\ attempts \in [Sessions -> 1..MaxAttempts]
          /\ told \in [Sessions -> {"none", "ok", "err"}]
          /\ issued \in [Sessions -> 0..MaxOps]

\* The remote database is what RemoteStore promises, and no more.
Remote == INSTANCE RemoteStore
            WITH Callers <- Sessions, Parts <- ToSet(Parts), durable <- db \cap Rows
RemoteSpec == Remote!Spec

\* Starting together never makes an instance give up, and what is left behind
\* is the whole schema and inventory: only a fault can stop an instance or cut
\* the inventory short.
Whole == ToSet(Columns) \cup ToSet(Seeds) \cup {Table} \subseteq db
CleanStart == faults = 0 => /\ \A s \in Sessions : at[s] # "exited"
                            /\ (\A s \in Sessions : ~Starting(s)) => Whole

\* A database with its schema is all a serving instance ever runs on.
ServesOnSchema == \A s \in Sessions : ~Starting(s) /\ at[s] # "exited" =>
                    ToSet(Columns) \cup {Table} \subseteq db

\* The write lock of a lost transaction is not held for ever.
LockFreed == tx # None ~> tx = None
=============================================================================
