------------------------------ MODULE RuntimeDesk ------------------------------
(***************************************************************************)
(* The desk of runtimes, runtime_management.go: a user lists them and      *)
(* picks one, asks for a hosted one, and ends one.  control-panel-service  *)
(* keeps the runtimes and gives each user one slot for a hosted runtime;   *)
(* the desk cleans the name it is asked for, and filters the pages it is   *)
(* given.  Clients ask at the same time, and ask again after an error.     *)
(***************************************************************************)
EXTENDS Integers, SequencesExt

CONSTANTS
  Clients,      \* the user's pages and scripts
  Names,        \* names a client may ask for
  Queries,      \* what a list may be asked for,
  Limits,       \*   and by how many at a time, 0 if that is not said
  OwnRoles,     \* roles of runtimes of the user's own
  MaxRuntimes   \* the bound on runtimes

Typed == [name : Names \cup {""}, spaced : BOOLEAN]
Generated == [name |-> "generated", spaced |-> FALSE]

Sources == {"hosted", "self_hosted"}
\* What is not "healthy" stands for the statuses a session cannot start in,
\* and for a runtime that was never heard of or is connected to nobody.
Statuses == {"healthy", "unfit", "ended"}
Roles == {"", "executor", "debugger"}

ASSUME RuntimeDeskAssumption ==
  /\ "" \notin Names /\ "generated" \notin Names
  /\ Queries \subseteq [source : Sources \cup {""}, status : Statuses \cup {""},
                        eligible : BOOLEAN, role : Roles,
                        environment : {"", "all", "0", "1", "2"}]
  /\ Limits \subseteq Int
  /\ OwnRoles \subseteq Roles
  /\ MaxRuntimes \in Nat

VARIABLES
  registry,  \* the user's runtimes, as control-panel lists them
  req,       \* the request for a hosted runtime a client waits for
  told,      \* the last answer to such a request, until the next one
  claims     \* how many answers said that they provisioned a runtime

vars == <<registry, req, told, claims>>

Nobody == [name |-> "", spaced |-> FALSE]
Pending(step, asked, i, provisioned) ==
  [step |-> step, asked |-> asked, runtime |-> i, provisioned |-> provisioned]
NoRequest == Pending("idle", Nobody, 0, FALSE)
Silence == [answer |-> "none", asked |-> Nobody, runtime |-> 0, provisioned |-> FALSE]

-----------------------------------------------------------------------------
(* The list of runtimes.                                                   *)

normalizedRuntimeRole(r) == IF r.role = "" THEN "executor" ELSE r.role

runtimeHealthyForSelection(r) == r.status = "healthy"

parseRuntimeEligibilityEnvironment(q) ==
  IF q.environment \in {"", "all"} THEN "" ELSE q.environment

\* A client that only says that it wants to start something wants an executor.
WantedRole(q) ==
  IF q.role = "" /\ q.eligible /\ parseRuntimeEligibilityEnvironment(q) = ""
  THEN "executor" ELSE q.role

runtimeMatchesSelectionEligibility(q, r) ==
  LET env == parseRuntimeEligibilityEnvironment(q)
  IN  /\ q.eligible => runtimeHealthyForSelection(r)
      /\ WantedRole(q) # "" => normalizedRuntimeRole(r) = WantedRole(q)
      /\ env # "" => \/ normalizedRuntimeRole(r) = "executor" /\ env \in {"0", "1"}
                     \/ normalizedRuntimeRole(r) = "debugger" /\ env = "0"

\* The elements of s that are in T, in the order of s.
Selected(s, T) ==
  LET kept[k \in Nat] == IF k = 0 THEN <<>>
                         ELSE IF s[k] \in T THEN Append(kept[k - 1], s[k]) ELSE kept[k - 1]
  IN  kept[Len(s)]

filterRuntimeListForSelection(q, rows) ==
  Selected(rows, {i \in DOMAIN registry : runtimeMatchesSelectionEligibility(q, registry[i])})

\* The rows control-panel has for a query.
Rows(q) ==
  Selected([i \in DOMAIN registry |-> i],
           {i \in DOMAIN registry : /\ q.source \in {"", registry[i].source}
                                    /\ q.status \in {"", registry[i].status}})

parseLimit(raw) == IF raw > 0 THEN raw ELSE 50

BugMoreAsListed(all, page, items, offset) ==
  [items |-> items,
   hasMore |-> offset + Len(page) < Len(all),
   total |-> IF Len(items) # Len(page) THEN Len(items) ELSE Len(all)]

BugTotalAsListed(all, page, items, offset) ==
  [items |-> items,
   hasMore |-> Len(items) = Len(page) /\ offset + Len(page) < Len(all),
   total |-> Len(all)]

\* A page that lost a row to the filter counts itself, and is the last one.
RuntimeList(all, page, items, offset) ==
  [items |-> items,
   hasMore |-> Len(items) = Len(page) /\ offset + Len(page) < Len(all),
   total |-> IF Len(items) # Len(page) THEN Len(items) ELSE Len(all)]

listRuntimes(q, raw, offset) ==
  LET all == Rows(q)
      page == SubSeq(all, offset + 1, Min({offset + parseLimit(raw), Len(all)}))
  IN  RuntimeList(all, page, filterRuntimeListForSelection(q, page), offset)

\* A client that reads on after what it has got, for so many pages.
Walk(q, raw) ==
  LET First == [seen |-> <<>>, more |-> TRUE, total |-> 0]
      Read(w) == LET answer == listRuntimes(q, raw, Len(w.seen))
                 IN  [seen |-> w.seen \o answer.items, more |-> answer.hasMore,
                      total |-> answer.total]
      walk[k \in Nat] == IF k = 0 THEN First
                         ELSE LET w == walk[k - 1] IN IF w.more THEN Read(w) ELSE w
  IN  walk[Len(registry) + 1]

-----------------------------------------------------------------------------
Init ==
  /\ registry = <<>>
  /\ req = [c \in Clients |-> NoRequest]
  /\ told = Silence
  /\ claims = [i \in 1..MaxRuntimes |-> 0]

\* The one hosted runtime the user has, if any.
Slot == {i \in DOMAIN registry : registry[i].source = "hosted" /\ registry[i].status # "ended"}

BugNameAsTyped(typed) == typed

TrimSpace(typed) == [name |-> typed.name, spaced |-> FALSE]

\* POST /api/runtimes.
ensureHostedRuntime(c, typed) ==
  /\ req[c] = NoRequest
  /\ req' = [req EXCEPT ![c] = Pending("ensure", typed, 0, FALSE)]
  /\ told' = Silence
  /\ UNCHANGED <<registry, claims>>

Answered(c, answer, i, provisioned) ==
  /\ told' = [answer |-> answer, asked |-> req[c].asked, runtime |-> i,
              provisioned |-> provisioned]
  /\ req' = [req EXCEPT ![c] = NoRequest]

BugFoundNoId(c, i, provisioned) ==
  /\ req' = [req EXCEPT ![c] = Pending("lookup", req[c].asked, 0, provisioned)]
  /\ UNCHANGED told

\* The answer to the call names the runtime, which is then looked up.
Found(c, i, provisioned) ==
  /\ req' = [req EXCEPT ![c] = Pending("lookup", req[c].asked, i, provisioned)]
  /\ UNCHANGED told

NewHosted(name) ==
  /\ Len(registry) < MaxRuntimes
  /\ registry' = Append(registry, [source |-> "hosted", role |-> "executor", status |-> "unfit",
                       name |-> IF name.name = "" THEN Generated ELSE name])

\* control-panel provisions a runtime if the slot is free; it gives the one
\* that is there if that has the name, and refuses another.  What it does
\* about an occupied slot when no name is asked for is its own affair.
Provision(c) ==
  LET name == TrimSpace(req[c].asked)
  IN  /\ req[c].step = "ensure"
      /\ \/ Slot = {} /\ NewHosted(name) /\ Found(c, Len(registry) + 1, TRUE)
         \/ \E i \in Slot : /\ name \in {registry[i].name, Nobody}
                            /\ Found(c, i, FALSE)
                            /\ UNCHANGED registry
         \/ \E i \in Slot : /\ name # registry[i].name
                            /\ Answered(c, "conflict", i, FALSE)
                            /\ UNCHANGED registry
      /\ UNCHANGED claims

\* The call fails: before it did anything, or after.
EnsureError(c) ==
  /\ req[c].step = "ensure"
  /\ Answered(c, "error", 0, FALSE)
  /\ \/ UNCHANGED registry
     \/ Slot = {} /\ NewHosted(TrimSpace(req[c].asked))
  /\ UNCHANGED claims

BugAlwaysProvisioned(r) == TRUE

Provisioned(r) == r.provisioned

LookupRuntime(c) ==
  /\ req[c].step = "lookup"
  /\ Answered(c, "runtime", req[c].runtime, Provisioned(req[c]))
  /\ claims' = IF Provisioned(req[c]) THEN [claims EXCEPT ![req[c].runtime] = @ + 1] ELSE claims
  /\ UNCHANGED registry

LookupError(c) ==
  /\ req[c].step = "lookup"
  /\ Answered(c, "error", 0, FALSE)
  /\ UNCHANGED <<registry, claims>>

\* DELETE /api/runtimes/{runtime_id}.
EndRuntime(i) ==
  /\ registry[i].status # "ended"
  /\ registry' = [registry EXCEPT ![i].status = "ended"]
  /\ UNCHANGED <<req, told, claims>>

\* A runtime of the user's own pairs.
Pair(role) ==
  /\ Len(registry) < MaxRuntimes
  /\ registry' = Append(registry, [source |-> "self_hosted", role |-> role, status |-> "unfit",
                                   name |-> Generated])
  /\ UNCHANGED <<req, told, claims>>

\* A runtime is heard of, or is not any more.
Hear(i, status) ==
  /\ registry[i].status \notin {"ended", status}
  /\ registry' = [registry EXCEPT ![i].status = status]
  /\ UNCHANGED <<req, told, claims>>

Next ==
  \/ \E c \in Clients :
       \/ \E typed \in Typed : ensureHostedRuntime(c, typed)
       \/ Provision(c) \/ EnsureError(c)
       \/ LookupRuntime(c) \/ LookupError(c)
  \/ \E i \in DOMAIN registry : EndRuntime(i) \/ \E st \in {"healthy", "unfit"} : Hear(i, st)
  \/ \E role \in OwnRoles : Pair(role)

Spec == Init /\ [][Next]_vars

-----------------------------------------------------------------------------
\* Type invariant.
Runtime ==
  [source : Sources, role : Roles, status : Statuses, name : Typed \cup {Generated}]

Request ==
  [step : {"idle", "ensure", "lookup"}, asked : Typed, runtime : 0..MaxRuntimes,
   provisioned : BOOLEAN]

TypeOK ==
  /\ registry \in Seq(Runtime) /\ Len(registry) <= MaxRuntimes
  /\ req \in [Clients -> Request]
  /\ \A c \in Clients : req[c].step = "lookup" => req[c].runtime \in DOMAIN registry
  /\ told \in [answer : {"none", "error", "conflict", "runtime"}, asked : Typed,
               runtime : 0..MaxRuntimes, provisioned : BOOLEAN]
  /\ claims \in [1..MaxRuntimes -> Nat]

\* While the runtimes stay as they are, a client that reads on after what it
\* has got gets those the query is for in the order of the list, none twice
\* and none left out between two, and comes to an end; it has got them all if
\* the filter keeps every row.  It is why runtime_management.go:358-361 drops
\* has_more: the answer has no offset to go on from.
WalksAreInOrder ==
  \A q \in Queries, raw \in Limits :
    LET w == Walk(q, raw)
        offered == filterRuntimeListForSelection(q, Rows(q))
    IN  /\ ~w.more
        /\ IsPrefix(w.seen, offered)
        /\ offered = Rows(q) => w.seen = offered

\* The total a client is told, if one page is all there is, is what it can
\* pick from: runtime_management.go:360-362, and the total
\* TestRuntimeManagement_ListEligibleExecutorRuntimesFiltersRoleEnvironmentAndHealth
\* wants.
TotalsCountTheOffered ==
  \A q \in Queries, raw \in Limits :
    parseLimit(raw) >= Len(Rows(q)) =>
      LET w == Walk(q, raw)
      IN  /\ w.total = Len(w.seen)
          /\ w.seen = filterRuntimeListForSelection(q, Rows(q))

\* A client that asks for a runtime by a name is given one of that name, and
\* is told of a conflict only if the slot has one of another: so a client that
\* got an error can ask again, and two that ask for the same never meet,
\* however they space it (runtime_management.go:449, :459).
AnswersFitTheName ==
  told.asked.name # "" =>
    /\ told.answer = "runtime" => registry[told.runtime].name.name = told.asked.name
    /\ told.answer = "conflict" => registry[told.runtime].name.name # told.asked.name

\* Of all who are given a runtime one at most is told that it was provisioned
\* for it, and then it is a hosted one: runtime_management.go:464-467, for the
\* use controlpanel/client.go:142-144 wants of it.
ProvisionedOnce ==
  /\ \A i \in 1..MaxRuntimes : claims[i] <= 1
  /\ \A i \in DOMAIN registry : claims[i] > 0 => registry[i].source = "hosted"
=============================================================================
