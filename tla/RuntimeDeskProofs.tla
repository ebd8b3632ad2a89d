--------------------------- MODULE RuntimeDeskProofs ---------------------------
(***************************************************************************)
(* Proofs about RuntimeDesk, for any clients, names, queries and limits    *)
(* and any number of runtimes: of the requests for a hosted runtime, and   *)
(* of what a client gets that reads the list page by page.                 *)
(***************************************************************************)
EXTENDS RuntimeDesk, InductionLemmas, SequenceTheorems

-----------------------------------------------------------------------------
(* The invariant.                                                          *)

\* control-panel knows hosted runtimes by names without spaces around them.
NamesAreClean ==
  \A i \in DOMAIN registry :
    registry[i].source = "hosted" => registry[i].name.spaced = FALSE /\ registry[i].name.name # ""

\* A runtime that is looked up is one of that name.
LookupFits ==
  \A c \in Clients : req[c].step = "lookup" =>
    LET i == req[c].runtime
    IN  /\ i \in DOMAIN registry
        /\ registry[i].source = "hosted"
        /\ req[c].asked.name # "" => registry[i].name.name = req[c].asked.name

ToldFits ==
  told.answer \in {"runtime", "conflict"} => told.runtime \in DOMAIN registry

\* The claim to have had a runtime provisioned is with one request, or made.
Claiming(c) == req[c].step = "lookup" /\ req[c].provisioned

ClaimedOnce ==
  /\ \A i \in 1..MaxRuntimes : claims[i] \in {0, 1}
  /\ \A i \in 1..MaxRuntimes : claims[i] = 1 =>
       i \in DOMAIN registry /\ registry[i].source = "hosted"
  /\ \A c \in Clients : Claiming(c) => claims[req[c].runtime] = 0
  /\ \A c, d \in Clients : Claiming(c) /\ Claiming(d) /\ req[c].runtime = req[d].runtime => c = d

DeskInv ==
  TypeOK /\ NamesAreClean /\ LookupFits /\ ToldFits /\ AnswersFitTheName /\ ClaimedOnce

LEMMA MaxIsNat == MaxRuntimes \in Nat
  BY RuntimeDeskAssumption

-----------------------------------------------------------------------------
(* The registry.                                                           *)

\* What the desk remembers of a runtime does not change, nor is one forgotten.
Kept(i) == registry'[i].source = registry[i].source /\ registry'[i].name = registry[i].name

RegistryGrows == DOMAIN registry \subseteq DOMAIN registry' /\ \A i \in DOMAIN registry : Kept(i)

\* A new runtime is the last of the list.
LEMMA Appending ==
  ASSUME TypeOK, NEW r \in Runtime, Len(registry) < MaxRuntimes,
         registry' = Append(registry, r)
  PROVE  /\ registry' \in Seq(Runtime) /\ Len(registry') <= MaxRuntimes
         /\ DOMAIN registry' = DOMAIN registry \cup {Len(registry) + 1}
         /\ registry'[Len(registry) + 1] = r
         /\ Len(registry) + 1 \in 1..MaxRuntimes /\ Len(registry) + 1 \notin DOMAIN registry
         /\ RegistryGrows
<1>1. /\ registry \in Seq(Runtime) /\ Len(registry) \in Nat
      /\ DOMAIN registry = 1..Len(registry)
  BY DEF TypeOK
<1>0. MaxRuntimes \in Nat
  BY MaxIsNat
<1>2. /\ registry' \in Seq(Runtime) /\ Len(registry') = Len(registry) + 1
      /\ DOMAIN registry' = 1..(Len(registry) + 1)
      /\ registry'[Len(registry) + 1] = r
      /\ \A i \in DOMAIN registry : registry'[i] = registry[i]
  BY <1>1
<1>3. DOMAIN registry' = DOMAIN registry \cup {Len(registry) + 1}
  BY <1>1, <1>2
<1>4. RegistryGrows
  BY <1>2, <1>3 DEF RegistryGrows, Kept
<1>5. Len(registry') <= MaxRuntimes /\ Len(registry) + 1 \in 1..MaxRuntimes
  BY <1>0, <1>1, <1>2
<1>6. Len(registry) + 1 \notin DOMAIN registry
  BY <1>1
<1> QED
  BY <1>2, <1>3, <1>4, <1>5, <1>6

\* A runtime changes its status only.
LEMMA Updating ==
  ASSUME TypeOK, NEW i \in DOMAIN registry, NEW st \in Statuses,
         registry' = [registry EXCEPT ![i].status = st]
  PROVE  /\ registry' \in Seq(Runtime) /\ Len(registry') <= MaxRuntimes
         /\ DOMAIN registry' = DOMAIN registry
         /\ RegistryGrows
<1>1. registry \in Seq(Runtime) /\ DOMAIN registry = 1..Len(registry) /\ Len(registry) \in Nat
  BY DEF TypeOK
<1>2. registry[i] \in Runtime
  BY <1>1
<1>3. [registry[i] EXCEPT !.status = st] \in Runtime
  BY <1>2 DEF Runtime
<1>4. registry' = [registry EXCEPT ![i] = [registry[i] EXCEPT !.status = st]]
  OBVIOUS
<1>5. registry' \in Seq(Runtime) /\ Len(registry') = Len(registry)
  BY <1>1, <1>3, <1>4
<1>6. DOMAIN registry' = DOMAIN registry
  BY <1>1, <1>4
<1>7. \A j \in DOMAIN registry : Kept(j)
  <2>1. \A j \in DOMAIN registry : registry'[j] = IF j = i THEN [registry[i] EXCEPT !.status = st] ELSE registry[j]
    BY <1>4
  <2>2. [registry[i] EXCEPT !.status = st].source = registry[i].source
        /\ [registry[i] EXCEPT !.status = st].name = registry[i].name
    BY <1>2 DEF Runtime
  <2> QED
    BY <2>1, <2>2 DEF Kept
<1> QED
  BY <1>5, <1>6, <1>7 DEF RegistryGrows, TypeOK

RegistryStep ==
  /\ registry' \in Seq(Runtime) /\ Len(registry') <= MaxRuntimes
  /\ RegistryGrows /\ NamesAreClean'

\* A name that was cleaned.
LEMMA CleanNames ==
  ASSUME NEW typed \in Typed
  PROVE  /\ TrimSpace(typed) \in Typed
         /\ TrimSpace(typed) = [name |-> typed.name, spaced |-> FALSE]
         /\ TrimSpace(typed).name = typed.name /\ TrimSpace(typed).spaced = FALSE
  BY DEF Typed, TrimSpace

LEMMA NewHostedStep ==
  ASSUME TypeOK, NamesAreClean, NEW typed \in Typed, NewHosted(TrimSpace(typed))
  PROVE  LET n == Len(registry) + 1
         IN  /\ RegistryStep
             /\ n \in 1..MaxRuntimes /\ n \notin DOMAIN registry /\ n \in DOMAIN registry'
             /\ registry'[n].source = "hosted"
             /\ typed.name # "" => registry'[n].name.name = typed.name
<1> DEFINE n == Len(registry) + 1
           name == TrimSpace(typed)
           given == IF name.name = "" THEN Generated ELSE name
           r == [source |-> "hosted", role |-> "executor", status |-> "unfit", name |-> given]
<1>1. name \in Typed /\ name.name = typed.name /\ name.spaced = FALSE
  BY CleanNames
<1>2. /\ given \in Typed \cup {Generated} /\ given.spaced = FALSE /\ given.name # ""
      /\ typed.name # "" => given.name = typed.name
  BY <1>1 DEF Generated
<1>3. r \in Runtime /\ r.source = "hosted" /\ r.name = given
  BY <1>2 DEF Runtime, Sources, Roles, Statuses
<1>4. registry' = Append(registry, r) /\ Len(registry) < MaxRuntimes
  BY DEF NewHosted
<1> HIDE DEF r, given, name
<1>5. /\ registry' \in Seq(Runtime) /\ Len(registry') <= MaxRuntimes
      /\ DOMAIN registry' = DOMAIN registry \cup {n}
      /\ registry'[n] = r /\ n \in 1..MaxRuntimes /\ n \notin DOMAIN registry
      /\ RegistryGrows
  BY <1>3, <1>4, Appending
<1> HIDE DEF n
<1>6. NamesAreClean'
  BY <1>2, <1>3, <1>5 DEF NamesAreClean, RegistryGrows, Kept
<1> QED
  BY <1>2, <1>3, <1>5, <1>6 DEF RegistryStep, n

LEMMA PairStep ==
  ASSUME TypeOK, NamesAreClean, NEW role \in OwnRoles, Pair(role)
  PROVE  RegistryStep
<1> DEFINE n == Len(registry) + 1
           r == [source |-> "self_hosted", role |-> role, status |-> "unfit", name |-> Generated]
<1>1. role \in Roles
  BY RuntimeDeskAssumption
<1>2. r \in Runtime /\ r.source # "hosted"
  BY <1>1 DEF Runtime, Sources, Statuses
<1>3. registry' = Append(registry, r) /\ Len(registry) < MaxRuntimes
  BY DEF Pair
<1> HIDE DEF r
<1>4. /\ registry' \in Seq(Runtime) /\ Len(registry') <= MaxRuntimes
      /\ DOMAIN registry' = DOMAIN registry \cup {n} /\ registry'[n] = r
      /\ RegistryGrows
  BY <1>2, <1>3, Appending
<1> HIDE DEF n
<1>5. NamesAreClean'
  <2> SUFFICES ASSUME NEW i \in DOMAIN registry', registry'[i].source = "hosted"
               PROVE  registry'[i].name.spaced = FALSE /\ registry'[i].name.name # ""
    BY DEF NamesAreClean
  <2>1. i \in DOMAIN registry
    BY <1>2, <1>4
  <2> QED
    BY <1>4, <2>1 DEF NamesAreClean, RegistryGrows, Kept
<1> QED
  BY <1>4, <1>5 DEF RegistryStep

LEMMA StatusStep ==
  ASSUME TypeOK, NamesAreClean, NEW i \in DOMAIN registry, NEW st \in Statuses,
         registry' = [registry EXCEPT ![i].status = st]
  PROVE  RegistryStep
<1>1. /\ registry' \in Seq(Runtime) /\ Len(registry') <= MaxRuntimes
      /\ DOMAIN registry' = DOMAIN registry /\ RegistryGrows
  BY Updating
<1>2. NamesAreClean'
  <2> SUFFICES ASSUME NEW j \in DOMAIN registry', registry'[j].source = "hosted"
               PROVE  registry'[j].name.spaced = FALSE /\ registry'[j].name.name # ""
    BY DEF NamesAreClean
  <2>1. j \in DOMAIN registry /\ Kept(j)
    BY <1>1 DEF RegistryGrows
  <2> QED
    BY <2>1 DEF NamesAreClean, Kept
<1> QED
  BY <1>1, <1>2 DEF RegistryStep

LEMMA InBounds ==
  ASSUME RegistryStep
  PROVE  \A i \in DOMAIN registry' : i \in 1..MaxRuntimes /\ i \in 0..MaxRuntimes
<1>1. registry' \in Seq(Runtime) /\ Len(registry') <= MaxRuntimes
  BY DEF RegistryStep
<1>2. Len(registry') \in Nat /\ DOMAIN registry' = 1..Len(registry')
  BY <1>1
<1> QED
  BY <1>1, <1>2, MaxIsNat

LEMMA NoRegistryStep ==
  ASSUME TypeOK, NamesAreClean, UNCHANGED registry
  PROVE  RegistryStep
  BY DEF RegistryStep, NamesAreClean, RegistryGrows, Kept, TypeOK

-----------------------------------------------------------------------------
(* The requests.                                                           *)

\* A step of the runtimes alone.
LEMMA DeskUndisturbed ==
  ASSUME DeskInv, RegistryStep, UNCHANGED <<req, told, claims>>
  PROVE  DeskInv'
<1> USE DEF RegistryStep, RegistryGrows, Kept
<1>1. TypeOK'
  BY DEF DeskInv, TypeOK
<1>2. LookupFits'
  BY DEF DeskInv, LookupFits
<1>3. ToldFits' /\ AnswersFitTheName'
  BY DEF DeskInv, ToldFits, AnswersFitTheName
<1>4. ClaimedOnce'
  BY DEF DeskInv, ClaimedOnce, Claiming
<1> QED
  BY <1>1, <1>2, <1>3, <1>4 DEF DeskInv

LEMMA EnsureStep ==
  ASSUME DeskInv, NEW c \in Clients, NEW typed \in Typed, ensureHostedRuntime(c, typed)
  PROVE  DeskInv'
<1>1. /\ registry' = registry /\ claims' = claims /\ told' = Silence
      /\ req' = [req EXCEPT ![c] = Pending("ensure", typed, 0, FALSE)]
      /\ req \in [Clients -> Request]
  BY DEF ensureHostedRuntime, DeskInv, TypeOK
<1>2. Nobody \in Typed /\ 0 \in 0..MaxRuntimes
  <2>1. Nobody \in Typed
    BY DEF Nobody, Typed
  <2> QED
    BY <2>1, MaxIsNat
<1>3. req' \in [Clients -> Request] /\ req'[c].step = "ensure"
      /\ \A d \in Clients : d # c => req'[d] = req[d]
  BY <1>1, <1>2 DEF Request, Pending
<1>4. TypeOK'
  BY <1>1, <1>2, <1>3 DEF DeskInv, TypeOK, Silence
<1>5. LookupFits' /\ NamesAreClean'
  BY <1>1, <1>3 DEF DeskInv, LookupFits, NamesAreClean
<1>6. ToldFits' /\ AnswersFitTheName'
  BY <1>1 DEF Silence, Nobody, ToldFits, AnswersFitTheName
<1>7. ClaimedOnce'
  <2>1. \A d \in Clients : Claiming(d)' => d # c /\ Claiming(d) /\ req'[d] = req[d]
    BY <1>3 DEF Claiming
  <2> QED
    BY <1>1, <2>1 DEF DeskInv, ClaimedOnce
<1> QED
  BY <1>4, <1>5, <1>6, <1>7 DEF DeskInv

\* The call finds a hosted runtime with the name, or made it.
LEMMA FoundStep ==
  ASSUME DeskInv, RegistryStep, NEW c \in Clients, NEW i \in DOMAIN registry',
         NEW provisioned \in BOOLEAN, Found(c, i, provisioned), UNCHANGED claims,
         registry'[i].source = "hosted",
         req[c].asked.name # "" => registry'[i].name.name = req[c].asked.name,
         provisioned => i \notin DOMAIN registry
  PROVE  DeskInv'
<1> USE DEF RegistryStep, RegistryGrows, Kept
<1>1. i \in 1..MaxRuntimes /\ i \in 0..MaxRuntimes
  BY InBounds
<1>2. /\ req \in [Clients -> Request] /\ told' = told
      /\ req' = [req EXCEPT ![c] = Pending("lookup", req[c].asked, i, provisioned)]
  BY DEF Found, DeskInv, TypeOK
<1>3. /\ req[c] \in Request
      /\ Pending("lookup", req[c].asked, i, provisioned) \in Request
      /\ req' \in [Clients -> Request]
      /\ \A d \in Clients : d # c => req'[d] = req[d]
      /\ req'[c].runtime = i /\ req'[c].asked = req[c].asked
      /\ req'[c].provisioned = provisioned
  BY <1>1, <1>2, MaxIsNat DEF Request, Pending
<1>4. TypeOK'
  BY <1>2, <1>3 DEF DeskInv, TypeOK
<1>5. LookupFits'
  <2> SUFFICES ASSUME NEW d \in Clients, req'[d].step = "lookup"
               PROVE  LET j == req'[d].runtime
                      IN  /\ j \in DOMAIN registry'
                          /\ registry'[j].source = "hosted"
                          /\ req'[d].asked.name # "" =>
                               registry'[j].name.name = req'[d].asked.name
    BY DEF LookupFits
  <2>1. CASE d = c
    BY <1>3, <2>1
  <2>2. CASE d # c
    <3>1. req'[d] = req[d] /\ req[d].step = "lookup"
      BY <1>3, <2>2
    <3>2. LET j == req[d].runtime
          IN  /\ j \in DOMAIN registry /\ registry[j].source = "hosted"
              /\ req[d].asked.name # "" => registry[j].name.name = req[d].asked.name
      BY <3>1 DEF LookupFits, DeskInv
    <3> QED
      BY <3>1, <3>2
  <2> QED
    BY <2>1, <2>2
<1>6. ToldFits' /\ AnswersFitTheName'
  BY <1>2 DEF DeskInv, ToldFits, AnswersFitTheName
<1>7. ClaimedOnce'
  <2>1. \A d \in Clients : d # c => (Claiming(d)' <=> Claiming(d)) /\ req'[d].runtime = req[d].runtime
    BY <1>3 DEF Claiming
  <2>2. Claiming(c)' => i \notin DOMAIN registry /\ req'[c].runtime = i
    BY <1>3 DEF Claiming
  <2>3. \A d \in Clients : Claiming(d) => req[d].runtime \in DOMAIN registry
    BY DEF DeskInv, LookupFits, Claiming
  <2>4. i \notin DOMAIN registry => claims[i] = 0
    BY <1>1 DEF DeskInv, ClaimedOnce
  <2>5. \A d \in Clients : Claiming(d)' => claims'[req'[d].runtime] = 0
    BY <2>1, <2>2, <2>4 DEF DeskInv, ClaimedOnce
  <2>6. \A d, e \in Clients :
          Claiming(d)' /\ Claiming(e)' /\ req'[d].runtime = req'[e].runtime => d = e
    <3> SUFFICES ASSUME NEW d \in Clients, NEW e \in Clients, Claiming(d)', Claiming(e)',
                        req'[d].runtime = req'[e].runtime
                 PROVE  d = e
      OBVIOUS
    <3>1. CASE d # c /\ e # c
      BY <2>1, <3>1 DEF DeskInv, ClaimedOnce
    <3>2. CASE d = c \/ e = c
      BY <2>1, <2>2, <2>3, <3>2
    <3> QED
      BY <3>1, <3>2
  <2>7. \A j \in 1..MaxRuntimes :
          claims'[j] \in {0, 1}
          /\ (claims'[j] = 1 => j \in DOMAIN registry' /\ registry'[j].source = "hosted")
    BY DEF DeskInv, ClaimedOnce
  <2> QED
    BY <2>5, <2>6, <2>7 DEF ClaimedOnce
<1> QED
  BY <1>4, <1>5, <1>6, <1>7 DEF DeskInv

\* The end of a request, whatever the answer is.
LEMMA AnsweredStep ==
  ASSUME DeskInv, RegistryStep, NEW c \in Clients, NEW i \in 0..MaxRuntimes,
         NEW answer \in {"error", "conflict", "runtime"}, NEW provisioned \in BOOLEAN,
         Answered(c, answer, i, provisioned)
  PROVE  /\ req' \in [Clients -> Request]
         /\ told' \in [answer : {"none", "error", "conflict", "runtime"}, asked : Typed,
                       runtime : 0..MaxRuntimes, provisioned : BOOLEAN]
         /\ told'.answer = answer /\ told'.asked = req[c].asked /\ told'.runtime = i
         /\ req'[c].step = "idle"
         /\ \A d \in Clients : d # c => req'[d] = req[d]
         /\ \A d \in Clients : Claiming(d)' => d # c /\ Claiming(d)
         /\ LookupFits'
<1>1. /\ req \in [Clients -> Request]
      /\ req' = [req EXCEPT ![c] = NoRequest]
      /\ told' = [answer |-> answer, asked |-> req[c].asked, runtime |-> i,
                  provisioned |-> provisioned]
  BY DEF Answered, DeskInv, TypeOK
<1>2. req[c] \in Request
  BY <1>1
<1>3. NoRequest \in Request /\ NoRequest.step = "idle"
  <2>1. Nobody \in Typed
    BY DEF Nobody, Typed
  <2> QED
    BY <2>1, MaxIsNat DEF NoRequest, Pending, Request
<1>4. /\ req' \in [Clients -> Request] /\ req'[c].step = "idle"
      /\ \A d \in Clients : d # c => req'[d] = req[d]
  BY <1>1, <1>3
<1>5. \A d \in Clients : Claiming(d)' => d # c /\ Claiming(d)
  BY <1>4 DEF Claiming
<1>6. LookupFits'
  <2>1. \A d \in Clients : req'[d].step = "lookup" => d # c /\ req'[d] = req[d]
    BY <1>4
  <2> QED
    <3> SUFFICES ASSUME NEW d \in Clients, req'[d].step = "lookup"
                 PROVE  LET j == req'[d].runtime
                        IN  /\ j \in DOMAIN registry'
                            /\ registry'[j].source = "hosted"
                            /\ req'[d].asked.name # "" =>
                                 registry'[j].name.name = req'[d].asked.name
      BY DEF LookupFits
    <3>1. req'[d] = req[d] /\ req[d].step = "lookup"
      BY <2>1
    <3>2. LET j == req[d].runtime
          IN  /\ j \in DOMAIN registry /\ registry[j].source = "hosted"
              /\ req[d].asked.name # "" => registry[j].name.name = req[d].asked.name
      BY <3>1 DEF LookupFits, DeskInv
    <3> QED
      BY <3>1, <3>2 DEF RegistryStep, RegistryGrows, Kept
<1>7. told' \in [answer : {"none", "error", "conflict", "runtime"}, asked : Typed,
                 runtime : 0..MaxRuntimes, provisioned : BOOLEAN]
  BY <1>1, <1>2 DEF Request
<1> QED
  BY <1>1, <1>4, <1>5, <1>6, <1>7

\* An answer that claims nothing: an error, a conflict, a runtime as it was.
LEMMA PlainAnswerStep ==
  ASSUME DeskInv, RegistryStep, UNCHANGED claims, NEW c \in Clients, NEW i \in 0..MaxRuntimes,
         NEW answer \in {"error", "conflict", "runtime"}, NEW provisioned \in BOOLEAN,
         Answered(c, answer, i, provisioned),
         answer # "error" => i \in DOMAIN registry',
         answer = "runtime" /\ req[c].asked.name # "" =>
           registry'[i].name.name = req[c].asked.name,
         answer = "conflict" /\ req[c].asked.name # "" =>
           registry'[i].name.name # req[c].asked.name
  PROVE  DeskInv'
<1>1. /\ req' \in [Clients -> Request]
      /\ told' \in [answer : {"none", "error", "conflict", "runtime"}, asked : Typed,
                    runtime : 0..MaxRuntimes, provisioned : BOOLEAN]
      /\ told'.answer = answer /\ told'.asked = req[c].asked /\ told'.runtime = i
      /\ req'[c].step = "idle" /\ \A d \in Clients : d # c => req'[d] = req[d]
      /\ \A d \in Clients : Claiming(d)' => d # c /\ Claiming(d)
      /\ LookupFits'
  BY AnsweredStep, ZenonT(40)
<1> USE DEF RegistryStep, RegistryGrows, Kept
<1>2. TypeOK'
  <2>1. \A d \in Clients : req'[d].step = "lookup" => req'[d].runtime \in DOMAIN registry'
    BY <1>1 DEF LookupFits
  <2> QED
    BY <1>1, <2>1 DEF DeskInv, TypeOK
<1>3. ToldFits' /\ AnswersFitTheName'
  BY <1>1 DEF ToldFits, AnswersFitTheName
<1>4. ClaimedOnce'
  <2>1. \A d \in Clients : Claiming(d)' => req'[d] = req[d]
    BY <1>1
  <2> QED
    BY <1>1, <2>1 DEF DeskInv, ClaimedOnce
<1> QED
  BY <1>1, <1>2, <1>3, <1>4 DEF DeskInv

LEMMA ProvisionStep ==
  ASSUME DeskInv, NEW c \in Clients, Provision(c)
  PROVE  DeskInv'
<1> DEFINE asked == req[c].asked
           name == TrimSpace(asked)
           n == Len(registry) + 1
<1>1. asked \in Typed /\ claims' = claims /\ TypeOK /\ NamesAreClean
  BY DEF DeskInv, TypeOK, Request, Provision
<1>2. name = [name |-> asked.name, spaced |-> FALSE] /\ name.name = asked.name /\ name.spaced = FALSE
  BY <1>1, CleanNames
<1>3. \A i \in Slot : /\ i \in DOMAIN registry /\ registry[i].source = "hosted"
                      /\ registry[i].name.spaced = FALSE
                      /\ registry[i].name = [name |-> registry[i].name.name, spaced |-> FALSE]
  <2> SUFFICES ASSUME NEW i \in Slot
               PROVE  /\ i \in DOMAIN registry /\ registry[i].source = "hosted"
                      /\ registry[i].name.spaced = FALSE
                      /\ registry[i].name = [name |-> registry[i].name.name, spaced |-> FALSE]
    OBVIOUS
  <2>1. i \in DOMAIN registry /\ registry[i].source = "hosted" /\ registry[i].name.spaced = FALSE
    BY <1>1 DEF Slot, NamesAreClean
  <2>2. registry[i] \in Runtime
    BY <1>1, <2>1 DEF TypeOK
  <2>3. registry[i].name \in Typed \cup {Generated}
    BY <2>2 DEF Runtime
  <2>4. registry[i].name = [name |-> registry[i].name.name, spaced |-> registry[i].name.spaced]
    BY <2>3 DEF Typed, Generated
  <2> QED
    BY <2>1, <2>4
<1>4. CASE Slot = {} /\ NewHosted(name) /\ Found(c, n, TRUE)
  <2>1. /\ RegistryStep /\ n \notin DOMAIN registry /\ n \in DOMAIN registry'
        /\ registry'[n].source = "hosted"
        /\ asked.name # "" => registry'[n].name.name = asked.name
    BY <1>1, <1>4, NewHostedStep
  <2> HIDE DEF n
  <2> QED
    BY <1>1, <1>4, <2>1, FoundStep
<1>5. ASSUME NEW i \in Slot, name \in {registry[i].name, Nobody}, Found(c, i, FALSE),
             UNCHANGED registry
      PROVE  DeskInv'
  <2>1. RegistryStep
    BY <1>1, <1>5, NoRegistryStep
  <2>2. asked.name # "" => name = registry[i].name
    <3>1. Nobody.name = ""
      BY DEF Nobody
    <3> QED
      BY <1>2, <1>5, <3>1
  <2>3. asked.name # "" => registry'[i].name.name = asked.name
    BY <1>2, <1>5, <2>2
  <2> QED
    BY <1>1, <1>3, <1>5, <2>1, <2>3, FoundStep
<1>6. ASSUME NEW i \in Slot, name # registry[i].name, Answered(c, "conflict", i, FALSE),
             UNCHANGED registry
      PROVE  DeskInv'
  <2>1. RegistryStep
    BY <1>1, <1>6, NoRegistryStep
  <2>2. registry'[i].name.name # asked.name
    BY <1>2, <1>3, <1>6
  <2>3. i \in DOMAIN registry' /\ i \in 0..MaxRuntimes
    BY <1>3, <1>6, <2>1, InBounds
  <2> QED
    BY <1>1, <1>6, <2>1, <2>2, <2>3, PlainAnswerStep
<1> QED
  BY <1>4, <1>5, <1>6 DEF Provision

LEMMA EnsureErrorStep ==
  ASSUME DeskInv, NEW c \in Clients, EnsureError(c)
  PROVE  DeskInv'
<1>1. /\ req[c].asked \in Typed /\ UNCHANGED claims /\ TypeOK /\ NamesAreClean
      /\ Answered(c, "error", 0, FALSE)
  BY DEF DeskInv, TypeOK, Request, EnsureError
<1>2. RegistryStep
  BY <1>1, NoRegistryStep, NewHostedStep DEF EnsureError
<1>3. 0 \in 0..MaxRuntimes
  BY MaxIsNat
<1> QED
  BY <1>1, <1>2, <1>3, PlainAnswerStep

LEMMA LookupErrorStep ==
  ASSUME DeskInv, NEW c \in Clients, LookupError(c)
  PROVE  DeskInv'
<1>1. /\ UNCHANGED <<registry, claims>> /\ TypeOK /\ NamesAreClean
      /\ Answered(c, "error", 0, FALSE)
  BY DEF DeskInv, LookupError
<1>2. 0 \in 0..MaxRuntimes
  BY MaxIsNat
<1> QED
  BY <1>1, <1>2, NoRegistryStep, PlainAnswerStep

\* The claim passes from the request to the answer.
LEMMA LookupStep ==
  ASSUME DeskInv, NEW c \in Clients, LookupRuntime(c)
  PROVE  DeskInv'
<1> DEFINE i == req[c].runtime
           provisioned == req[c].provisioned
<1>1. /\ registry' = registry /\ TypeOK /\ NamesAreClean /\ provisioned \in BOOLEAN
      /\ Answered(c, "runtime", i, provisioned)
      /\ claims' = IF provisioned THEN [claims EXCEPT ![i] = @ + 1] ELSE claims
      /\ req[c].step = "lookup"
  BY DEF DeskInv, TypeOK, Request, LookupRuntime, Provisioned
<1>2. /\ i \in DOMAIN registry /\ registry[i].source = "hosted"
      /\ req[c].asked.name # "" => registry[i].name.name = req[c].asked.name
  BY <1>1 DEF DeskInv, LookupFits
<1>3. RegistryStep /\ i \in 1..MaxRuntimes /\ i \in 0..MaxRuntimes
  BY <1>1, <1>2, NoRegistryStep, InBounds
<1> HIDE DEF i, provisioned
<1>4. CASE ~provisioned
  BY <1>1, <1>2, <1>3, <1>4, PlainAnswerStep
<1>5. CASE provisioned
  <2>1. /\ req' \in [Clients -> Request]
        /\ told' \in [answer : {"none", "error", "conflict", "runtime"}, asked : Typed,
                      runtime : 0..MaxRuntimes, provisioned : BOOLEAN]
        /\ told'.answer = "runtime" /\ told'.asked = req[c].asked /\ told'.runtime = i
        /\ \A d \in Clients : d # c => req'[d] = req[d]
        /\ \A d \in Clients : Claiming(d)' => d # c /\ Claiming(d)
        /\ LookupFits' /\ req'[c].step = "idle"
    BY <1>1, <1>3, AnsweredStep
  <2>2. Claiming(c)
    BY <1>1, <1>5 DEF Claiming, provisioned
  <2>3. claims \in [1..MaxRuntimes -> Nat] /\ claims[i] = 0
    BY <1>1, <2>2 DEF TypeOK, DeskInv, ClaimedOnce, i
  <2>4. claims' \in [1..MaxRuntimes -> Nat] /\ claims'[i] = 1
        /\ \A j \in 1..MaxRuntimes : j # i => claims'[j] = claims[j]
    BY <1>1, <1>3, <1>5, <2>3
  <2>5. TypeOK'
    BY <1>1, <2>1, <2>4 DEF TypeOK, LookupFits
  <2>6. ToldFits' /\ AnswersFitTheName' /\ NamesAreClean'
    BY <1>1, <1>2, <2>1 DEF ToldFits, AnswersFitTheName, NamesAreClean
  <2>7. \A d \in Clients : Claiming(d)' => req[d].runtime # i /\ req'[d] = req[d]
    BY <2>1, <2>2 DEF DeskInv, ClaimedOnce, i
  <2>8. \A d \in Clients : Claiming(d)' => claims'[req'[d].runtime] = 0
    <3> SUFFICES ASSUME NEW d \in Clients, Claiming(d)'
                 PROVE  claims'[req'[d].runtime] = 0
      OBVIOUS
    <3>1. Claiming(d) /\ req'[d] = req[d] /\ req[d].runtime # i
      BY <2>1, <2>7
    <3>2. claims[req[d].runtime] = 0 /\ req[d].runtime \in DOMAIN registry
      BY <3>1 DEF DeskInv, ClaimedOnce, LookupFits, Claiming
    <3>3. req[d].runtime \in 1..MaxRuntimes
      BY <1>1, <1>3, <3>2, InBounds
    <3> QED
      BY <2>4, <3>1, <3>2, <3>3
  <2>9. ClaimedOnce'
    BY <1>1, <1>2, <2>1, <2>4, <2>7, <2>8 DEF DeskInv, ClaimedOnce
  <2> QED
    BY <2>1, <2>5, <2>6, <2>9 DEF DeskInv
<1> QED
  BY <1>1, <1>4, <1>5

-----------------------------------------------------------------------------
(* Sequences.                                                              *)

\* The beginning of a concatenation.
LEMMA PrefixOfConcat ==
  ASSUME NEW X, NEW s \in Seq(X), NEW t \in Seq(X)
  PROVE  IsPrefix(s, s \o t)
<1>1. Len(s) \in Nat /\ Len(t) \in Nat /\ Len(s \o t) = Len(s) + Len(t)
  BY ConcatProperties
<1>2. SubSeq(s, 1, Len(s)) = SubSeq(s \o t, 1, Len(s))
  <2>1. CASE Len(s) = 0
    BY <2>1, SubSeqEmpty
  <2>2. CASE Len(s) # 0
    <3>1. 1 \in 1..Len(s) /\ Len(s) \in 1..Len(s)
      BY <1>1, <2>2
    <3>2. SubSeq(s \o t, 1, Len(s)) = SubSeq(s, 1, Len(s))
      BY <3>1, SubSeqOfConcat1
    <3> QED
      BY <3>2
  <2> QED
    BY <2>1, <2>2
<1> QED
  BY <1>1, <1>2 DEF IsPrefix

\* A beginning, and what comes next.
LEMMA Slices ==
  ASSUME NEW X, NEW s \in Seq(X), NEW m \in Nat, NEW n \in Nat, m <= n, n <= Len(s)
  PROVE  /\ SubSeq(s, m + 1, n) \in Seq(X) /\ Len(SubSeq(s, m + 1, n)) = n - m
         /\ SubSeq(s, 1, m) \o SubSeq(s, m + 1, n) = SubSeq(s, 1, n)
<1>1. m + 1 \in Int /\ n \in Int /\ \A i \in (m + 1)..n : s[i] \in X
  OBVIOUS
<1>2. /\ SubSeq(s, m + 1, n) \in Seq(X)
      /\ Len(SubSeq(s, m + 1, n)) = IF m + 1 <= n THEN n - (m + 1) + 1 ELSE 0
  BY <1>1, SubSeqProperties
<1>3. SubSeq(s, 1, m) \o SubSeq(s, m + 1, n) = SubSeq(s, 1, n)
  <2>1. 1 \in 1..(Len(s) + 1) /\ m \in (1 - 1)..Len(s) /\ n \in m..Len(s)
    OBVIOUS
  <2> QED
    BY <2>1, ConcatAdjacentSubSeq
<1> QED
  BY <1>2, <1>3

LEMMA MinOfTwo ==
  ASSUME NEW a \in Nat, NEW b \in Nat
  PROVE  Min({a, b}) = IF a <= b THEN a ELSE b
BY DEF Min

\* A beginning that is no shorter is all of it.
LEMMA WholePrefix ==
  ASSUME NEW X, NEW s \in Seq(X), NEW t \in Seq(X), IsPrefix(s, t), Len(t) <= Len(s)
  PROVE  s = t
<1>1. Len(s) \in Nat /\ Len(t) \in Nat
  OBVIOUS
<1>2. Len(s) = Len(t) /\ SubSeq(s, 1, Len(s)) = SubSeq(t, 1, Len(s))
  BY <1>1 DEF IsPrefix
<1>3. SubSeq(s, 1, Len(s)) = s /\ SubSeq(t, 1, Len(t)) = t
  BY SubSeqFull
<1> QED
  BY <1>2, <1>3

\* Appending to the second of two.
LEMMA AppendOfConcat ==
  ASSUME NEW X, NEW s \in Seq(X), NEW t \in Seq(X), NEW x \in X
  PROVE  Append(s \o t, x) = s \o Append(t, x) /\ Append(t, x) \in Seq(X)
<1>1. s \o t \in Seq(X) /\ <<x>> \in Seq(X)
  BY ConcatProperties
<1>2. Append(s \o t, x) = (s \o t) \o <<x>> /\ Append(t, x) = t \o <<x>>
  BY <1>1, AppendIsConcat
<1>3. (s \o t) \o <<x>> = s \o (t \o <<x>>)
  BY <1>1, ConcatAssociative
<1> QED
  BY <1>2, <1>3, AppendProperties

-----------------------------------------------------------------------------
(* Selecting from a sequence.                                              *)

\* The selection, place by place.
Selects(g, s, T) ==
  /\ g[0] = <<>>
  /\ \A k \in Nat \ {0} : g[k] = IF s[k] \in T THEN Append(g[k - 1], s[k]) ELSE g[k - 1]

LEMMA SelectedByPlaces ==
  ASSUME NEW s, NEW T
  PROVE  \E g : Selects(g, s, T) /\ Selected(s, T) = g[Len(s)]
<1> DEFINE V == Seq({s[k] : k \in Nat})
           Put(k, v) == IF s[k] \in T THEN Append(v, s[k]) ELSE v
           Rule(g) == g = [k \in Nat |-> IF k = 0 THEN <<>> ELSE Put(k, g[k - 1])]
           step == [p \in Nat \X V |-> Put(p[1], p[2])]
<1>1. Selected(s, T) = (CHOOSE g : Rule(g))[Len(s)]
  BY Zenon DEF Selected
<1>2. \A k \in Nat, v \in V : step[<<k, v>>] = Put(k, v)
  OBVIOUS
<1>3. \A k \in Nat, v \in V : Put(k, v) \in V
  <2> SUFFICES ASSUME NEW k \in Nat, NEW v \in V
               PROVE  Append(v, s[k]) \in V
    OBVIOUS
  <2>1. s[k] \in {s[j] : j \in Nat}
    OBVIOUS
  <2> QED
    BY <2>1, AppendProperties
<1>4. <<>> \in V
  OBVIOUS
<1> HIDE DEF V, step, Put
<1>5. PICK g \in [Nat -> V] : Iterates(g, <<>>, step)
  <2>1. \A k \in Nat, v \in V : step[<<k, v>>] \in V
    BY <1>2, <1>3
  <2> QED
    BY <1>4, <2>1, IterationExists, Zenon
<1>6. Rule(g)
  <2>1. \A k \in Nat : k # 0 => step[<<k, g[k - 1]>>] = Put(k, g[k - 1])
    BY <1>2, <1>5
  <2> QED
    BY <1>5, <2>1 DEF Iterates
<1> DEFINE h == CHOOSE g_1 : Rule(g_1)
<1>7. Rule(h)
  <2> HIDE DEF Rule
  <2> QED
    BY <1>6
<1> HIDE DEF h
<1>8. \A k \in Nat : h[k] = IF k = 0 THEN <<>> ELSE Put(k, h[k - 1])
  BY <1>7
<1>9. Selects(h, s, T)
  BY <1>8 DEF Selects, Put
<1> QED
  BY <1>1, <1>9 DEF h

\* Two sequences that begin alike are selected from alike.
LEMMA SelectsAlike ==
  ASSUME NEW s, NEW t, NEW T, NEW g, NEW h, Selects(g, s, T), Selects(h, t, T),
         NEW n \in Nat, \A k \in 1..n : s[k] = t[k]
  PROVE  \A k \in 0..n : g[k] = h[k]
<1> DEFINE A == {k \in Nat : k <= n => g[k] = h[k]}
<1>1. 0 \in A
  BY DEF Selects
<1>2. ASSUME NEW k \in Nat, k \in A
      PROVE  k + 1 \in A
  <2> SUFFICES ASSUME k + 1 <= n
               PROVE  g[k + 1] = h[k + 1]
    OBVIOUS
  <2>1. g[k] = h[k] /\ s[k + 1] = t[k + 1]
    BY <1>2
  <2>2. k + 1 \in Nat \ {0} /\ (k + 1) - 1 = k
    OBVIOUS
  <2> QED
    BY <2>1, <2>2 DEF Selects
<1> HIDE DEF A
<1>3. \A k \in Nat : k \in A
  BY <1>1, <1>2, Induction
<1> QED
  BY <1>3 DEF A

\* What is selected has the type of the sequence and is no longer; it is as
\* long only if it is all of it.
LEMMA SelectedType ==
  ASSUME NEW X, NEW s \in Seq(X), NEW T
  PROVE  /\ Selected(s, T) \in Seq(X)
         /\ Len(Selected(s, T)) <= Len(s)
         /\ Len(Selected(s, T)) = Len(s) => Selected(s, T) = s
<1>1. PICK g : Selects(g, s, T) /\ Selected(s, T) = g[Len(s)]
  BY SelectedByPlaces
<1> DEFINE Good(k) == /\ g[k] \in Seq(X) /\ Len(g[k]) <= k
                      /\ Len(g[k]) = k => \A j \in 1..k : g[k][j] = s[j]
           A == {k \in Nat : k <= Len(s) => Good(k)}
<1>2. 0 \in A
  <2>1. g[0] = <<>>
    BY <1>1 DEF Selects
  <2>2. Good(0)
    BY <2>1
  <2> HIDE DEF Good
  <2> QED
    BY <2>2
<1>3. ASSUME NEW k \in Nat, k \in A
      PROVE  k + 1 \in A
  <2> SUFFICES ASSUME k + 1 <= Len(s)
               PROVE  Good(k + 1)
    OBVIOUS
  <2>1. Good(k)
    BY <1>3
  <2>2. k + 1 \in Nat \ {0} /\ (k + 1) - 1 = k /\ s[k + 1] \in X
    OBVIOUS
  <2>3. g[k + 1] = IF s[k + 1] \in T THEN Append(g[k], s[k + 1]) ELSE g[k]
    BY <1>1, <2>2 DEF Selects
  <2>4. CASE s[k + 1] \in T
    <3>1. /\ g[k + 1] \in Seq(X) /\ Len(g[k + 1]) = Len(g[k]) + 1
          /\ \A j \in 1..Len(g[k]) : g[k + 1][j] = g[k][j]
          /\ g[k + 1][Len(g[k]) + 1] = s[k + 1]
      BY <2>1, <2>2, <2>3, <2>4, AppendProperties
    <3>2. Len(g[k]) \in Nat /\ Len(g[k]) <= k
      BY <2>1
    <3>3. ASSUME Len(g[k + 1]) = k + 1
          PROVE  \A j \in 1..(k + 1) : g[k + 1][j] = s[j]
      <4>1. Len(g[k]) = k
        BY <3>1, <3>2, <3>3
      <4>2. \A j \in 1..k : g[k + 1][j] = s[j]
        BY <2>1, <3>1, <4>1
      <4> QED
        BY <3>1, <4>1, <4>2
    <3> QED
      BY <3>1, <3>2, <3>3
  <2>5. CASE s[k + 1] \notin T
    <3>1. g[k + 1] = g[k] /\ Len(g[k]) \in Nat
      BY <2>1, <2>3, <2>5
    <3> QED
      BY <2>1, <3>1
  <2> QED
    BY <2>4, <2>5
<1> HIDE DEF A
<1>4. \A k \in Nat : k \in A
  BY <1>2, <1>3, Induction
<1>5. Len(s) \in Nat
  OBVIOUS
<1>6. Good(Len(s))
  BY <1>4, <1>5 DEF A
<1>7. Len(g[Len(s)]) = Len(s) => g[Len(s)] = s
  BY <1>6, SeqEqual
<1> QED
  BY <1>1, <1>6, <1>7

\* Selecting from two sequences, one after the other.
LEMMA SelectedConcat ==
  ASSUME NEW X, NEW s \in Seq(X), NEW t \in Seq(X), NEW T
  PROVE  Selected(s \o t, T) = Selected(s, T) \o Selected(t, T)
<1> DEFINE m == Len(s)
           n == Len(t)
           u == s \o t
<1>1. /\ u \in Seq(X) /\ Len(u) = m + n /\ m \in Nat /\ n \in Nat
      /\ \A i \in 1..m : u[i] = s[i]
      /\ \A i \in 1..n : u[m + i] = t[i] /\ t[i] \in X
  BY ConcatProperties
<1>2. PICK f : Selects(f, s, T) /\ Selected(s, T) = f[m]
  BY SelectedByPlaces
<1>3. PICK g : Selects(g, t, T) /\ Selected(t, T) = g[n]
  BY SelectedByPlaces
<1>4. PICK h : Selects(h, u, T) /\ Selected(u, T) = h[Len(u)]
  BY SelectedByPlaces
<1> HIDE DEF m, n, u
<1>5. h[m] = f[m]
  <2>1. \A k \in 0..m : h[k] = f[k]
    <3>1. m \in Nat /\ \A k \in 1..m : u[k] = s[k]
      BY <1>1
    <3>2. Selects(h, u, T) /\ Selects(f, s, T)
      BY <1>2, <1>4
    <3> QED
      BY <3>1, <3>2, SelectsAlike, SMTT(60)
  <2> QED
    BY <1>1, <2>1
<1>6. f[m] \in Seq(X)
  BY <1>2, SelectedType
<1> DEFINE Good(k) == g[k] \in Seq(X) /\ h[m + k] = f[m] \o g[k]
           A == {k \in Nat : k <= n => Good(k)}
<1>7. 0 \in A
  <2>1. g[0] = <<>> /\ m + 0 = m
    BY <1>1, <1>3 DEF Selects
  <2>2. f[m] \o <<>> = f[m] /\ <<>> \in Seq(X)
    BY <1>6, ConcatEmptySeq
  <2>3. Good(0)
    BY <1>5, <2>1, <2>2
  <2> HIDE DEF Good
  <2> QED
    BY <2>3
<1>8. ASSUME NEW k \in Nat, k \in A
      PROVE  k + 1 \in A
  <2>1. ASSUME k + 1 <= n, Good(k)
        PROVE  Good(k + 1)
    <3>1. g[k] \in Seq(X) /\ h[m + k] = f[m] \o g[k]
      BY <2>1
    <3>2. k + 1 \in Nat \ {0} /\ (k + 1) - 1 = k
      OBVIOUS
    <3>3. m + (k + 1) \in Nat \ {0} /\ (m + (k + 1)) - 1 = m + k
      BY <1>1
    <3>4. u[m + (k + 1)] = t[k + 1] /\ t[k + 1] \in X
      BY <1>1, <2>1
    <3>5. g[k + 1] = IF t[k + 1] \in T THEN Append(g[k], t[k + 1]) ELSE g[k]
      BY <1>3, <3>2 DEF Selects
    <3>6. h[m + (k + 1)] = IF t[k + 1] \in T THEN Append(h[m + k], t[k + 1]) ELSE h[m + k]
      BY <1>4, <3>3, <3>4 DEF Selects
    <3>7. /\ Append(f[m] \o g[k], t[k + 1]) = f[m] \o Append(g[k], t[k + 1])
          /\ Append(g[k], t[k + 1]) \in Seq(X)
      <4>1. f[m] \in Seq(X) /\ g[k] \in Seq(X) /\ t[k + 1] \in X
        BY <1>6, <3>1, <3>4
      <4> QED
        BY <4>1, AppendOfConcat
    <3> QED
      BY <3>1, <3>5, <3>6, <3>7
  <2> HIDE DEF Good
  <2>2. k + 1 <= n => k <= n
    BY <1>1
  <2> QED
    BY <1>8, <2>1, <2>2
<1> HIDE DEF A
<1>9. \A k \in Nat : k \in A
  BY <1>7, <1>8, Induction
<1>10. h[m + n] = f[m] \o g[n]
  <2>1. Good(n)
    <3> HIDE DEF Good
    <3> QED
      BY <1>1, <1>9 DEF A
  <2> QED
    BY <2>1
<1>11. Len(u) = m + n
  BY <1>1
<1> QED
  BY <1>2, <1>3, <1>4, <1>10, <1>11 DEF u

\* What is selected of a beginning, and how much there can be after it.
LEMMA SelectedBeginning ==
  ASSUME NEW X, NEW all \in Seq(X), NEW T, NEW e \in Nat, NEW n \in Nat, e <= n,
         SubSeq(all, 1, n) = all, n <= Len(all)
  PROVE  LET some == Selected(SubSeq(all, 1, e), T)
         IN  /\ some \in Seq(X)
             /\ IsPrefix(some, Selected(all, T))
             /\ Len(Selected(all, T)) <= Len(some) + (n - e)
<1> DEFINE front == SubSeq(all, 1, e)
           back == SubSeq(all, e + 1, n)
<1>1. back \in Seq(X) /\ Len(back) = n - e
  BY Slices
<1>2. front \in Seq(X)
  <2>1. \A i \in 1..e : all[i] \in X
    OBVIOUS
  <2> QED
    BY <2>1, SubSeqProperties
<1>3. front \o back = all
  BY Slices
<1> HIDE DEF front, back
<1>4. Selected(front \o back, T) = Selected(front, T) \o Selected(back, T)
  BY <1>1, <1>2, SelectedConcat
<1>5. Selected(front, T) \in Seq(X) /\ Selected(back, T) \in Seq(X)
      /\ Len(Selected(back, T)) <= n - e
  BY <1>1, <1>2, SelectedType
<1>6. IsPrefix(Selected(front, T), Selected(front, T) \o Selected(back, T))
  BY <1>5, PrefixOfConcat
<1>7. /\ Len(Selected(front, T) \o Selected(back, T))
         = Len(Selected(front, T)) + Len(Selected(back, T))
      /\ Len(Selected(front, T)) \in Nat /\ Len(Selected(back, T)) \in Nat
  BY <1>5, ConcatProperties
<1>8. Len(Selected(front \o back, T)) <= Len(Selected(front, T)) + (n - e)
  BY <1>4, <1>5, <1>7
<1> QED
  BY <1>3, <1>4, <1>5, <1>6, <1>8 DEF front

-----------------------------------------------------------------------------
(* Reading on.                                                             *)

\* A page read after a beginning that was selected as it is.
PageAfter(X, all, T, m, e, n) ==
  LET page == SubSeq(all, m + 1, e)
      items == Selected(page, T)
      seen == Selected(SubSeq(all, 1, m), T)
      next == seen \o items
  IN  /\ page \in Seq(X) /\ Len(page) = e - m
      /\ next \in Seq(X) /\ Len(next) = Len(seen) + Len(items)
      /\ Len(items) \in Nat /\ Len(items) <= Len(page)
      /\ seen = SubSeq(all, 1, m) /\ Len(items) = Len(page) =>
           SubSeq(all, 1, e) = next /\ Selected(next, T) = next
      /\ IsPrefix(next, Selected(all, T))
      /\ Len(Selected(all, T)) <= Len(next) + (n - e)

LEMMA ReadOn ==
  ASSUME NEW X, NEW all \in Seq(X), NEW T,
         NEW m \in Nat, NEW e \in Nat, NEW n \in Nat, m <= e, e <= n,
         SubSeq(all, 1, n) = all, n <= Len(all)
  PROVE  PageAfter(X, all, T, m, e, n)
<1> DEFINE before == SubSeq(all, 1, m)
           page == SubSeq(all, m + 1, e)
           front == SubSeq(all, 1, e)
           seen == Selected(before, T)
           items == Selected(page, T)
<1>1. page \in Seq(X) /\ Len(page) = e - m /\ before \o page = front
  BY Slices
<1>2. before \in Seq(X)
  <2>1. \A i \in 1..m : all[i] \in X
    OBVIOUS
  <2> QED
    BY <2>1, SubSeqProperties
<1> HIDE DEF before, page, front, seen, items
<1>3. Selected(before \o page, T) = Selected(before, T) \o Selected(page, T)
  <2>1. before \in Seq(X) /\ page \in Seq(X)
    BY <1>1, <1>2
  <2> QED
    BY <2>1, SelectedConcat
<1>4. Selected(front, T) = seen \o items
  BY <1>1, <1>3 DEF seen, items
<1>5. items \in Seq(X) /\ Len(items) <= Len(page) /\ seen \in Seq(X)
      /\ (Len(items) = Len(page) => items = page)
  BY <1>1, <1>2, SelectedType DEF seen, items
<1>6. seen = before /\ Len(items) = Len(page) => front = seen \o items
  BY <1>1, <1>5
<1>7. seen \o items \in Seq(X) /\ Len(seen \o items) = Len(seen) + Len(items)
      /\ Len(items) \in Nat
  BY <1>5, ConcatProperties
<1>8. /\ IsPrefix(Selected(front, T), Selected(all, T))
      /\ Len(Selected(all, T)) <= Len(Selected(front, T)) + (n - e)
  BY SelectedBeginning DEF front
<1>9. seen = before /\ Len(items) = Len(page) =>
        front = seen \o items /\ Selected(seen \o items, T) = seen \o items
  BY <1>4, <1>6
<1> QED
  BY <1>1, <1>4, <1>5, <1>7, <1>8, <1>9 DEF PageAfter, page, items, front, seen, before

-----------------------------------------------------------------------------
(* The pages of the list.                                                  *)

\* The runtimes a query is for.
Wanted(q) == {i \in DOMAIN registry : runtimeMatchesSelectionEligibility(q, registry[i])}

LEMMA RowsType ==
  ASSUME TypeOK, NEW q
  PROVE  /\ Rows(q) \in Seq(DOMAIN registry)
         /\ Len(Rows(q)) \in Nat
         /\ Len(Rows(q)) <= Len(registry)
<1> DEFINE listed == [i \in DOMAIN registry |-> i]
<1>1. registry \in Seq(Runtime) /\ DOMAIN registry = 1..Len(registry) /\ Len(registry) \in Nat
  BY DEF TypeOK
<1>2. listed \in Seq(DOMAIN registry) /\ Len(listed) = Len(registry)
  BY <1>1
<1> HIDE DEF listed
<1>3. ASSUME NEW T
      PROVE  /\ Selected(listed, T) \in Seq(DOMAIN registry)
             /\ Len(Selected(listed, T)) <= Len(listed)
  BY <1>2, SelectedType
<1>4. Rows(q) = Selected(listed, {i \in DOMAIN registry :
                                   /\ q.source \in {"", registry[i].source}
                                   /\ q.status \in {"", registry[i].status}})
  BY Zenon DEF Rows, listed
<1>5. Rows(q) \in Seq(DOMAIN registry) /\ Len(Rows(q)) <= Len(registry)
  BY <1>2, <1>3, <1>4
<1>6. Len(Rows(q)) \in Nat
  BY <1>5
<1> QED
  BY <1>5, <1>6

\* What a page is, and the answer.
LEMMA PageOfRows ==
  ASSUME TypeOK, NEW q \in Queries, NEW raw \in Limits, NEW m \in Nat
  PROVE  \E e \in Nat :
           /\ e <= Len(Rows(q))
           /\ e <= m + parseLimit(raw)
           /\ m <= Len(Rows(q)) => m <= e /\ (e = Len(Rows(q)) \/ m < e)
           /\ parseLimit(raw) >= Len(Rows(q)) => e = Len(Rows(q))
           /\ listRuntimes(q, raw, m) =
                LET page == SubSeq(Rows(q), m + 1, e)
                IN  RuntimeList(Rows(q), page, Selected(page, Wanted(q)), m)
<1>1. parseLimit(raw) \in Nat \ {0}
  <2>1. raw \in Int
    BY RuntimeDeskAssumption
  <2>2. parseLimit(raw) = IF raw > 0 THEN raw ELSE 50
    BY Zenon DEF parseLimit
  <2> QED
    BY <2>1, <2>2
<1>2. Len(Rows(q)) \in Nat
  BY RowsType
<1> DEFINE e == Min({m + parseLimit(raw), Len(Rows(q))})
<1>3. e = IF m + parseLimit(raw) <= Len(Rows(q)) THEN m + parseLimit(raw) ELSE Len(Rows(q))
  BY <1>1, <1>2, MinOfTwo
<1>4. listRuntimes(q, raw, m) =
        LET page == SubSeq(Rows(q), m + 1, e)
        IN  RuntimeList(Rows(q), page, Selected(page, Wanted(q)), m)
  BY DEF listRuntimes, filterRuntimeListForSelection, Wanted
<1> HIDE DEF e
<1>5. /\ e \in Nat /\ e <= Len(Rows(q)) /\ e <= m + parseLimit(raw)
      /\ m <= Len(Rows(q)) => m <= e /\ (e = Len(Rows(q)) \/ m < e)
      /\ parseLimit(raw) >= Len(Rows(q)) => e = Len(Rows(q))
  BY <1>1, <1>2, <1>3
<1> QED
  BY <1>4, <1>5

-----------------------------------------------------------------------------
(* A walk, page by page.                                                   *)

Fresh == [seen |-> <<>>, more |-> TRUE, total |-> 0]

ReadAfter(q, raw, w) ==
  LET answer == listRuntimes(q, raw, Len(w.seen))
  IN  [seen |-> w.seen \o answer.items, more |-> answer.hasMore, total |-> answer.total]

Walks(g, q, raw) ==
  /\ g[0] = Fresh
  /\ \A k \in Nat \ {0} : g[k] = IF g[k - 1].more THEN ReadAfter(q, raw, g[k - 1]) ELSE g[k - 1]

Walked == [seen : Seq(DOMAIN registry), more : BOOLEAN, total : Nat]

LEMMA ReadAfterType ==
  ASSUME TypeOK, NEW q \in Queries, NEW raw \in Limits, NEW w \in Walked
  PROVE  ReadAfter(q, raw, w) \in Walked
<1> DEFINE X == DOMAIN registry
           m == Len(w.seen)
<1>1. w.seen \in Seq(X) /\ m \in Nat
  BY DEF Walked
<1>2. Rows(q) \in Seq(X) /\ Len(Rows(q)) \in Nat
  BY RowsType
<1> HIDE DEF m
<1>3. PICK e \in Nat : /\ e <= Len(Rows(q))
                       /\ listRuntimes(q, raw, m) =
                            LET page == SubSeq(Rows(q), m + 1, e)
                            IN  RuntimeList(Rows(q), page, Selected(page, Wanted(q)), m)
  BY <1>1, PageOfRows
<1> DEFINE page == SubSeq(Rows(q), m + 1, e)
           items == Selected(page, Wanted(q))
<1>4. page \in Seq(X)
  <2>1. \A i \in (m + 1)..e : Rows(q)[i] \in X
    BY <1>1, <1>2, <1>3
  <2>2. m + 1 \in Int /\ e \in Int
    BY <1>1, <1>3
  <2> QED
    BY <2>1, <2>2, SubSeqProperties
<1> HIDE DEF page
<1>5. items \in Seq(X) /\ Len(items) \in Nat
  <2>1. items \in Seq(X)
    BY <1>4, SelectedType
  <2> QED
    BY <2>1
<1> HIDE DEF items, X
<1>6. w.seen \o items \in Seq(X)
  BY <1>1, <1>5, ConcatProperties
<1>7. listRuntimes(q, raw, m) = RuntimeList(Rows(q), page, items, m)
  BY <1>3 DEF page, items
<1>8. ReadAfter(q, raw, w) =
        [seen |-> w.seen \o items,
         more |-> Len(items) = Len(page) /\ m + Len(page) < Len(Rows(q)),
         total |-> IF Len(items) # Len(page) THEN Len(items) ELSE Len(Rows(q))]
  BY <1>7 DEF ReadAfter, RuntimeList, m
<1>9. (IF Len(items) # Len(page) THEN Len(items) ELSE Len(Rows(q))) \in Nat
  BY <1>2, <1>5
<1> QED
  BY <1>6, <1>8, <1>9 DEF Walked, X

LEMMA WalkedPageByPage ==
  ASSUME TypeOK, NEW q \in Queries, NEW raw \in Limits
  PROVE  \E g : Walks(g, q, raw) /\ Walk(q, raw) = g[Len(registry) + 1]
<1> DEFINE Go(w) == IF w.more THEN ReadAfter(q, raw, w) ELSE w
           Rule(g) == g = [k \in Nat |-> IF k = 0 THEN Fresh ELSE Go(g[k - 1])]
           step == [p \in Nat \X Walked |-> Go(p[2])]
<1>1. Walk(q, raw) = (CHOOSE g : Rule(g))[Len(registry) + 1]
  BY Zenon DEF Walk, ReadAfter, Fresh
<1>2. \A k \in Nat, w \in Walked : step[<<k, w>>] = Go(w)
  OBVIOUS
<1>3. \A w \in Walked : Go(w) \in Walked
  BY ReadAfterType
<1>4. Fresh \in Walked
  BY DEF Fresh, Walked
<1> HIDE DEF step, Go
<1>5. PICK g \in [Nat -> Walked] : Iterates(g, Fresh, step)
  <2>1. \A k \in Nat, w \in Walked : step[<<k, w>>] \in Walked
    BY <1>2, <1>3
  <2> QED
    BY <1>4, <2>1, IterationExists, Zenon
<1>6. Rule(g)
  <2>1. \A k \in Nat : k # 0 => step[<<k, g[k - 1]>>] = Go(g[k - 1])
    BY <1>2, <1>5
  <2> QED
    BY <1>5, <2>1 DEF Iterates
<1> DEFINE h == CHOOSE g_1 : Rule(g_1)
<1>7. Rule(h)
  <2> HIDE DEF Rule
  <2> QED
    BY <1>6
<1> HIDE DEF h
<1>8. \A k \in Nat : h[k] = IF k = 0 THEN Fresh ELSE Go(h[k - 1])
  BY <1>7
<1>9. Walks(h, q, raw)
  BY <1>8 DEF Walks, Go
<1> QED
  BY <1>1, <1>9 DEF h

\* What was seen is the beginning of the rows, and all of it is wanted.
Untouched(q, seen) ==
  /\ SubSeq(Rows(q), 1, Len(seen)) = seen
  /\ Selected(seen, Wanted(q)) = seen

Complete(q, seen) ==
  LET offered == Selected(Rows(q), Wanted(q))
  IN  /\ IsPrefix(seen, offered)
      /\ offered = Rows(q) => seen = offered

Counted(q, w) ==
  /\ w.total = Len(w.seen)
  /\ w.seen = Selected(Rows(q), Wanted(q))

LEMMA NextPage ==
  ASSUME TypeOK, NEW q \in Queries, NEW raw \in Limits, NEW w \in Walked,
         Len(w.seen) <= Len(Rows(q)), Untouched(q, w.seen)
  PROVE  LET next == ReadAfter(q, raw, w)
         IN  /\ next \in Walked
             /\ next.more => /\ Len(w.seen) < Len(next.seen) /\ Len(next.seen) < Len(Rows(q))
                             /\ Untouched(q, next.seen)
             /\ ~next.more => Complete(q, next.seen)
             /\ parseLimit(raw) >= Len(Rows(q)) /\ Len(w.seen) = 0 =>
                  ~next.more /\ Counted(q, next)
<1> DEFINE X == DOMAIN registry
           all == Rows(q)
           T == Wanted(q)
           offered == Selected(all, T)
           seen == w.seen
           m == Len(seen)
           n == Len(all)
           next == ReadAfter(q, raw, w)
<1>1. seen \in Seq(X) /\ m \in Nat
  BY DEF Walked
<1>2. all \in Seq(X) /\ n \in Nat
  BY RowsType
<1>3. SubSeq(all, 1, n) = all
  BY <1>2, SubSeqFull
<1>4. offered \in Seq(X)
  BY <1>2, SelectedType
<1>5. n <= Len(all) /\ Len(all) <= n /\ m <= n
  BY <1>1, <1>2
<1>6. SubSeq(all, 1, m) = seen /\ Selected(SubSeq(all, 1, m), T) = seen
  BY DEF Untouched
<1>7. PICK e \in Nat : /\ e <= n /\ m <= e /\ (e = n \/ m < e)
                       /\ parseLimit(raw) >= n => e = n
                       /\ listRuntimes(q, raw, m) =
                            LET page == SubSeq(all, m + 1, e)
                            IN  RuntimeList(all, page, Selected(page, T), m)
  BY <1>1, <1>5, PageOfRows
<1> DEFINE page == SubSeq(all, m + 1, e)
           items == Selected(page, T)
<1>8. next = [seen |-> seen \o items,
              more |-> Len(items) = Len(page) /\ m + Len(page) < n,
              total |-> IF Len(items) # Len(page) THEN Len(items) ELSE n]
  BY <1>7 DEF ReadAfter, RuntimeList
<1>9. next \in Walked
  BY ReadAfterType
<1> HIDE DEF X, all, m, n, T
<1>10. PageAfter(X, all, T, m, e, n)
  <2>1. /\ all \in Seq(X) /\ m \in Nat /\ e \in Nat /\ n \in Nat /\ m <= e /\ e <= n
        /\ SubSeq(all, 1, n) = all /\ n <= Len(all)
    BY <1>1, <1>2, <1>3, <1>5, <1>7
  <2> QED
    BY <2>1, ReadOn
<1> DEFINE got == seen \o items
<1> HIDE DEF page, items, offered
<1>11. /\ Len(page) = e - m
       /\ got \in Seq(X) /\ Len(got) = m + Len(items)
       /\ Len(items) \in Nat /\ Len(items) <= Len(page)
       /\ Len(items) = Len(page) => SubSeq(all, 1, e) = got /\ Selected(got, T) = got
       /\ IsPrefix(got, offered)
       /\ Len(offered) <= Len(got) + (n - e)
  BY <1>6, <1>10 DEF PageAfter, page, items, got, offered, m
<1> HIDE DEF got, seen, next
<1>12. /\ next.seen = got
       /\ next.more <=> (Len(items) = Len(page) /\ m + Len(page) < n)
       /\ next.total = IF Len(items) # Len(page) THEN Len(items) ELSE n
  BY <1>8 DEF got
<1>13. Len(offered) \in Nat /\ Len(got) \in Nat
  BY <1>4, <1>11
<1>14. /\ m \in Nat /\ n \in Nat /\ e \in Nat /\ m <= e /\ e <= n
        /\ Len(page) = e - m /\ Len(items) \in Nat /\ Len(items) <= Len(page)
        /\ Len(got) = m + Len(items)
  BY <1>1, <1>2, <1>7, <1>11
<1>15. e = n => got = offered
  <2>1. e = n => Len(offered) <= Len(got)
    BY <1>2, <1>11, <1>13
  <2> QED
    BY <1>4, <1>11, <2>1, WholePrefix
<1>16. next.more => m < Len(next.seen) /\ Len(next.seen) < n /\ Untouched(q, next.seen)
  <2> SUFFICES ASSUME next.more
               PROVE  m < Len(got) /\ Len(got) < n /\ Untouched(q, got)
    BY <1>12
  <2>1. Len(items) = Len(page) /\ m + Len(page) < n
    BY <1>12
  <2>2. Len(got) = e /\ e < n /\ m < e
    BY <1>1, <1>2, <1>7, <1>11, <2>1
  <2>3. SubSeq(all, 1, e) = got /\ Selected(got, T) = got
    BY <1>11, <2>1
  <2> QED
    BY <2>2, <2>3 DEF Untouched, all, T
<1>17. ~next.more => Complete(q, next.seen)
  <2> SUFFICES ASSUME ~next.more, offered = all
               PROVE  got = offered
    BY <1>11, <1>12 DEF Complete, offered, all, T
  <2>1. CASE e = n
    BY <1>15, <2>1
  <2>2. CASE e # n
    <3>1. Len(items) # Len(page)
      BY <1>12, <2>2, <1>14
    <3>2. Len(got) + (n - e) < n
      BY <2>2, <3>1, <1>14
    <3>3. Len(offered) = n
      BY DEF n
    <3> QED
      BY <1>2, <1>11, <1>13, <3>2, <3>3
  <2> QED
    BY <2>1, <2>2
<1>18. ASSUME parseLimit(raw) >= n, m = 0
       PROVE  ~next.more /\ Counted(q, next)
  <2>1. e = n
    BY <1>7, <1>18
  <2>2. ~next.more
    BY <1>12, <2>1, <1>14
  <2>3. next.total = Len(got)
    <3>1. CASE Len(items) # Len(page)
      BY <1>11, <1>12, <1>18, <3>1
    <3>2. CASE Len(items) = Len(page)
      BY <1>1, <1>2, <1>11, <1>12, <1>18, <2>1, <3>2
    <3> QED
      BY <3>1, <3>2
  <2> QED
    BY <1>12, <1>15, <2>1, <2>2, <2>3 DEF Counted, offered, all, T
<1> QED
  BY <1>9, <1>16, <1>17, <1>18 DEF m, n, all, next, seen

LEMMA FreshStart ==
  ASSUME TypeOK, NEW q
  PROVE  /\ Fresh \in Walked /\ Fresh.more /\ Len(Fresh.seen) = 0
         /\ Len(Fresh.seen) <= Len(Rows(q)) /\ Untouched(q, Fresh.seen)
<1>1. Fresh \in Walked /\ Fresh.more /\ Fresh.seen = <<>> /\ Len(<<>>) = 0
  BY DEF Fresh, Walked
<1>2. Len(Rows(q)) \in Nat
  BY RowsType
<1>3. SubSeq(Rows(q), 1, 0) = <<>>
  BY SubSeqEmpty
<1>4. Selected(<<>>, Wanted(q)) = <<>>
  <2>1. <<>> \in Seq({})
    OBVIOUS
  <2>2. Selected(<<>>, Wanted(q)) \in Seq({}) /\ Len(Selected(<<>>, Wanted(q))) <= Len(<<>>)
    BY <2>1, SelectedType
  <2> QED
    BY <2>2
<1> QED
  BY <1>1, <1>2, <1>3, <1>4 DEF Untouched

LEMMA WalkInOrder ==
  ASSUME TypeOK, NEW q \in Queries, NEW raw \in Limits
  PROVE  ~Walk(q, raw).more /\ Complete(q, Walk(q, raw).seen)
<1> DEFINE n == Len(Rows(q))
<1>1. PICK g : Walks(g, q, raw) /\ Walk(q, raw) = g[Len(registry) + 1]
  BY WalkedPageByPage
<1>2. n \in Nat /\ Len(registry) \in Nat /\ n <= Len(registry)
  BY RowsType DEF TypeOK
<1> HIDE DEF n
<1> DEFINE Reading(k) == /\ k <= Len(g[k].seen) /\ Len(g[k].seen) <= n
                         /\ k > 0 => Len(g[k].seen) < n
                         /\ Untouched(q, g[k].seen)
           Good(k) == /\ g[k] \in Walked
                      /\ g[k].more => Reading(k)
                      /\ ~g[k].more => Complete(q, g[k].seen)
           A == {k \in Nat : Good(k)}
<1>3. 0 \in A
  <2>1. g[0] = Fresh
    BY <1>1 DEF Walks
  <2>2. Good(0)
    BY <1>2, <2>1, FreshStart DEF n
  <2> HIDE DEF Good
  <2> QED
    BY <2>2
<1>4. ASSUME NEW k \in Nat, k \in A
      PROVE  k + 1 \in A
  <2>1. Good(k)
    BY <1>4
  <2>2. k + 1 \in Nat \ {0} /\ (k + 1) - 1 = k
    OBVIOUS
  <2>3. g[k + 1] = IF g[k].more THEN ReadAfter(q, raw, g[k]) ELSE g[k]
    BY <1>1, <2>2 DEF Walks
  <2>4. CASE g[k].more
    <3> DEFINE next == ReadAfter(q, raw, g[k])
    <3>1. g[k] \in Walked /\ Reading(k)
      BY <2>1, <2>4
    <3>2. /\ next \in Walked
          /\ next.more => /\ Len(g[k].seen) < Len(next.seen) /\ Len(next.seen) < n
                          /\ Untouched(q, next.seen)
          /\ ~next.more => Complete(q, next.seen)
      <4>1. g[k] \in Walked /\ Len(g[k].seen) <= Len(Rows(q)) /\ Untouched(q, g[k].seen)
        BY <3>1 DEF n
      <4> QED
        BY <4>1, NextPage DEF n
    <3>3. g[k + 1] = next
      BY <2>3, <2>4
    <3> HIDE DEF next
    <3>4. Len(next.seen) \in Nat /\ Len(g[k].seen) \in Nat
      BY <3>1, <3>2 DEF Walked
    <3>5. next.more => Reading(k + 1)
      BY <1>2, <3>1, <3>2, <3>3, <3>4
    <3>6. Good(k + 1)
      BY <3>2, <3>3, <3>5
    <3> HIDE DEF Good
    <3> QED
      BY <3>6
  <2>5. CASE ~g[k].more
    <3>1. g[k + 1] = g[k]
      BY <2>3, <2>5
    <3>2. Good(k + 1)
      BY <2>1, <2>5, <3>1
    <3> HIDE DEF Good
    <3> QED
      BY <3>2
  <2> QED
    BY <2>4, <2>5
<1> HIDE DEF A
<1>5. \A k \in Nat : k \in A
  BY <1>3, <1>4, Induction
<1> DEFINE last == Len(registry) + 1
<1>6. last \in Nat /\ last > n
  BY <1>2
<1>7. Good(last)
  BY <1>5, <1>6 DEF A
<1>8. ~g[last].more
  <2> SUFFICES ASSUME g[last].more
               PROVE  FALSE
    OBVIOUS
  <2>1. last <= Len(g[last].seen) /\ Len(g[last].seen) <= n /\ Len(g[last].seen) \in Nat
    BY <1>7 DEF Walked
  <2> QED
    BY <1>2, <1>6, <2>1
<1> QED
  BY <1>1, <1>7, <1>8

LEMMA OnePageIsCounted ==
  ASSUME TypeOK, NEW q \in Queries, NEW raw \in Limits, parseLimit(raw) >= Len(Rows(q))
  PROVE  Counted(q, Walk(q, raw))
<1>1. PICK g : Walks(g, q, raw) /\ Walk(q, raw) = g[Len(registry) + 1]
  BY WalkedPageByPage
<1> DEFINE Good(k) == ~g[k + 1].more /\ Counted(q, g[k + 1])
           A == {k \in Nat : Good(k)}
<1>2. \A k \in Nat : g[k + 1] = IF g[k].more THEN ReadAfter(q, raw, g[k]) ELSE g[k]
  <2> SUFFICES ASSUME NEW k \in Nat
               PROVE  g[k + 1] = IF g[k].more THEN ReadAfter(q, raw, g[k]) ELSE g[k]
    OBVIOUS
  <2>1. k + 1 \in Nat \ {0} /\ (k + 1) - 1 = k
    OBVIOUS
  <2> QED
    BY <1>1, <2>1 DEF Walks
<1>3. 0 \in A
  <2>1. g[0] = Fresh
    BY <1>1 DEF Walks
  <2>2. g[0 + 1] = ReadAfter(q, raw, Fresh)
    BY <1>2, <2>1, FreshStart
  <2>3. ~ReadAfter(q, raw, Fresh).more /\ Counted(q, ReadAfter(q, raw, Fresh))
    BY FreshStart, NextPage
  <2>4. Good(0)
    BY <2>2, <2>3
  <2> HIDE DEF Good
  <2> QED
    BY <2>4
<1>4. ASSUME NEW k \in Nat, k \in A
      PROVE  k + 1 \in A
  <2>1. Good(k)
    BY <1>4
  <2>2. g[(k + 1) + 1] = IF g[k + 1].more THEN ReadAfter(q, raw, g[k + 1]) ELSE g[k + 1]
    BY <1>2
  <2>3. g[(k + 1) + 1] = g[k + 1]
    BY <2>1, <2>2
  <2>4. Good(k + 1)
    BY <2>1, <2>3
  <2> HIDE DEF Good
  <2> QED
    BY <2>4
<1> HIDE DEF A
<1>5. \A k \in Nat : k \in A
  BY <1>3, <1>4, Induction
<1>6. Len(registry) \in Nat
  BY DEF TypeOK
<1>7. Good(Len(registry))
  BY <1>5, <1>6 DEF A
<1> QED
  BY <1>1, <1>7

-----------------------------------------------------------------------------
(* The theorems.                                                           *)

LEMMA DeskInvInit == Init => DeskInv
<1> SUFFICES ASSUME Init
             PROVE  DeskInv
  OBVIOUS
<1>1. /\ registry = <<>> /\ req = [c \in Clients |-> NoRequest] /\ told = Silence
      /\ claims = [i \in 1..MaxRuntimes |-> 0]
  BY DEF Init
<1>2. Nobody \in Typed
  BY DEF Nobody, Typed
<1>3. NoRequest \in Request /\ NoRequest.step = "idle"
  BY <1>2, MaxIsNat DEF NoRequest, Pending, Request
<1>4. /\ Silence \in [answer : {"none", "error", "conflict", "runtime"}, asked : Typed,
                      runtime : 0..MaxRuntimes, provisioned : BOOLEAN]
      /\ Silence.answer = "none" /\ Silence.asked.name = ""
  <2>1. Silence.answer = "none" /\ Silence.asked = Nobody /\ Nobody.name = ""
    BY DEF Silence, Nobody
  <2>2. 0 \in 0..MaxRuntimes
    BY MaxIsNat
  <2>3. Silence \in [answer : {"none", "error", "conflict", "runtime"}, asked : Typed,
                     runtime : 0..MaxRuntimes, provisioned : BOOLEAN]
    BY <1>2, <2>2 DEF Silence
  <2> QED
    BY <2>1, <2>3
<1>5. registry \in Seq(Runtime) /\ Len(registry) = 0
  BY <1>1
<1>6. TypeOK
  <2>1. /\ req \in [Clients -> Request]
        /\ \A c \in Clients : req[c].step # "lookup"
        /\ claims \in [1..MaxRuntimes -> Nat]
    BY <1>1, <1>3
  <2>2. Len(registry) <= MaxRuntimes
    BY <1>5, MaxIsNat
  <2> QED
    BY <1>1, <1>4, <1>5, <2>1, <2>2 DEF TypeOK
<1>7. NamesAreClean /\ LookupFits
  BY <1>1, <1>3 DEF NamesAreClean, LookupFits
<1>8. ToldFits /\ AnswersFitTheName
  BY <1>1, <1>4 DEF ToldFits, AnswersFitTheName
<1>9. ClaimedOnce
  BY <1>1, <1>3 DEF ClaimedOnce, Claiming
<1> QED
  BY <1>6, <1>7, <1>8, <1>9 DEF DeskInv

LEMMA DeskInvStep == DeskInv /\ [Next]_vars => DeskInv'
<1> SUFFICES ASSUME DeskInv, [Next]_vars
             PROVE  DeskInv'
  OBVIOUS
<1>1. TypeOK /\ NamesAreClean
  BY DEF DeskInv
<1>2. ASSUME NEW c \in Clients, NEW typed \in Typed, ensureHostedRuntime(c, typed)
      PROVE  DeskInv'
  BY <1>2, EnsureStep
<1>3. ASSUME NEW c \in Clients, Provision(c) \/ EnsureError(c) \/ LookupRuntime(c) \/ LookupError(c)
      PROVE  DeskInv'
  BY <1>3, ProvisionStep, EnsureErrorStep, LookupStep, LookupErrorStep
<1>4. ASSUME NEW i \in DOMAIN registry, EndRuntime(i)
      PROVE  DeskInv'
  BY <1>1, <1>4, StatusStep, DeskUndisturbed DEF EndRuntime, Statuses
<1>5. ASSUME NEW i \in DOMAIN registry, NEW st \in {"healthy", "unfit"}, Hear(i, st)
      PROVE  DeskInv'
  BY <1>1, <1>5, StatusStep, DeskUndisturbed DEF Hear, Statuses
<1>6. ASSUME NEW role \in OwnRoles, Pair(role)
      PROVE  DeskInv'
  <2>1. UNCHANGED <<req, told, claims>>
    BY <1>6 DEF Pair
  <2> QED
    BY <1>1, <1>6, <2>1, PairStep, DeskUndisturbed
<1>7. CASE UNCHANGED vars
  BY <1>1, <1>7, NoRegistryStep, DeskUndisturbed DEF vars
<1> QED
  BY <1>2, <1>3, <1>4, <1>5, <1>6, <1>7 DEF Next

THEOREM RuntimeInvariant == Spec => []DeskInv
  BY DeskInvInit, DeskInvStep, PTL DEF Spec

\* The type invariant.
THEOREM TypeCorrect == Spec => []TypeOK
<1>1. DeskInv => TypeOK
  BY DEF DeskInv
<1> QED
  BY <1>1, RuntimeInvariant, PTL

\* Names decide: whoever asks for a runtime by a name gets one of that name,
\* and is refused only for one of another (runtime_management.go:449, :459).
THEOREM NamesDecide == Spec => []AnswersFitTheName
<1>1. DeskInv => AnswersFitTheName
  BY DEF DeskInv
<1> QED
  BY <1>1, RuntimeInvariant, PTL

\* A runtime is claimed to have been provisioned in one answer at most
\* (runtime_management.go:464-467).
THEOREM ClaimsAreUnique == Spec => []ProvisionedOnce
<1>1. DeskInv => ProvisionedOnce
  <2> SUFFICES ASSUME DeskInv
               PROVE  ProvisionedOnce
    OBVIOUS
  <2>1. \A i \in 1..MaxRuntimes : claims[i] <= 1 /\ (claims[i] > 0 => claims[i] = 1)
    BY DEF DeskInv, ClaimedOnce
  <2>2. \A i \in DOMAIN registry : i \in 1..MaxRuntimes
    <3>1. registry \in Seq(Runtime) /\ Len(registry) <= MaxRuntimes
      BY DEF DeskInv, TypeOK
    <3>2. Len(registry) \in Nat /\ DOMAIN registry = 1..Len(registry)
      BY <3>1
    <3> QED
      BY <3>1, <3>2, MaxIsNat
  <2> QED
    BY <2>1, <2>2 DEF DeskInv, ClaimedOnce, ProvisionedOnce
<1> QED
  BY <1>1, RuntimeInvariant, PTL

\* What is known of a walk is known of the list at any time.
LEMMA Orderly == TypeOK => WalksAreInOrder
<1> SUFFICES ASSUME TypeOK, NEW q \in Queries, NEW raw \in Limits
             PROVE  LET w == Walk(q, raw)
                        offered == filterRuntimeListForSelection(q, Rows(q))
                    IN  /\ ~w.more
                        /\ IsPrefix(w.seen, offered)
                        /\ offered = Rows(q) => w.seen = offered
  BY DEF WalksAreInOrder
<1> QED
  BY WalkInOrder DEF Complete, filterRuntimeListForSelection, Wanted

LEMMA CountedPages == TypeOK => TotalsCountTheOffered
<1> SUFFICES ASSUME TypeOK, NEW q \in Queries, NEW raw \in Limits,
                    parseLimit(raw) >= Len(Rows(q))
             PROVE  LET w == Walk(q, raw)
                    IN  /\ w.total = Len(w.seen)
                        /\ w.seen = filterRuntimeListForSelection(q, Rows(q))
  BY DEF TotalsCountTheOffered
<1> QED
  BY OnePageIsCounted DEF Counted, filterRuntimeListForSelection, Wanted

\* A client that reads on page by page gets what the query is for in the order
\* of the list, and comes to an end, whatever the query, the limit and the
\* registry (runtime_management.go:356-366).
THEOREM WalksStayInOrder == Spec => []WalksAreInOrder
  BY Orderly, TypeCorrect, PTL

\* If one page holds the list, its total is what the client can pick from
\* (runtime_management.go:360-362).
THEOREM TotalsAreTrue == Spec => []TotalsCountTheOffered
  BY CountedPages, TypeCorrect, PTL
=============================================================================
