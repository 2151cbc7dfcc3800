-------------------------- MODULE DesktopServer_proofs --------------------------
(***************************************************************************)
(* Theorems about DesktopServer for any requests and forms, any field      *)
(* names, readers that refuse any files, any number of faults, and any     *)
(* interleaving of handlers, blocking tasks and clients that go away.      *)
(***************************************************************************)
EXTENDS DesktopServer, TLAPS, FiniteSetTheorems

----------------------------------------------------------------------------
(* Maps and the order of the fields *)

LEMMA WithFacts ==
    ASSUME NEW map, NEW key, NEW value
    PROVE  /\ DOMAIN With(map, key, value) = DOMAIN map \cup {key}
           /\ With(map, key, value)[key] = value
           /\ \A k \in DOMAIN map : k # key => With(map, key, value)[k] = map[k]
  BY DEF With

LEMMA PosFacts ==
    /\ \A f \in Fields : Pos(f) \in 1..Len(FieldOrder) /\ FieldOrder[Pos(f)] = f
    /\ \A f, g \in Fields : Pos(f) = Pos(g) => f = g
    /\ Len(FieldOrder) \in Nat
<1>1. Len(FieldOrder) \in Nat /\ Fields = {FieldOrder[i] : i \in 1..Len(FieldOrder)}
  BY FieldsInOrder DEF Fields, Range
<1>2. \A f \in Fields : \E i \in 1..Len(FieldOrder) : FieldOrder[i] = f
  BY <1>1
<1>3. \A f \in Fields : Pos(f) \in 1..Len(FieldOrder) /\ FieldOrder[Pos(f)] = f
  BY <1>2 DEF Pos
<1> QED BY <1>1, <1>3

\* A set of fields that is not empty has a first one: the one before which there
\* is the least, by inclusion.
LEMMA FirstFieldFacts ==
    ASSUME NEW S \in SUBSET Fields, S # {}
    PROVE  FirstField(S) \in S /\ \A g \in S : Pos(FirstField(S)) <= Pos(g)
<1> DEFINE Places == {Pos(f) : f \in S}
           Below(i) == {j \in Places : j < i}
           R == StrictSubsetOrdering(Places)
           T == {Below(i) : i \in Places}
<1>1. Places \subseteq 1..Len(FieldOrder) /\ Len(FieldOrder) \in Nat /\ Places # {}
  BY PosFacts
<1> HIDE DEF Places
<1>2. IsFiniteSet(Places)
  <2>1. IsFiniteSet(1..Len(FieldOrder))
    BY <1>1, FS_Interval
  <2> QED BY <1>1, <2>1, FS_Subset
<1>3. IsWellFoundedOn(R, SUBSET Places)
  BY <1>2, FS_StrictSubsetOrderingWellFounded, FS_FiniteSubsetsOfFinite
<1>4. \A A, B \in SUBSET Places : A \subseteq B /\ A # B => <<A, B>> \in R
  BY DEF StrictSubsetOrdering
<1> HIDE DEF R
<1>5. T \subseteq SUBSET Places /\ T # {}
  BY <1>1
<1>6. PICK A \in T : \A B \in T : <<B, A>> \notin R
  BY <1>3, <1>5, WFMin
<1>7. PICK i \in Places : A = Below(i)
  BY <1>6
<1>8. \A j \in Places : i <= j
  <2> SUFFICES ASSUME NEW j \in Places, ~ (i <= j) PROVE FALSE
    OBVIOUS
  <2>1. Places \subseteq Int /\ i \in Int /\ j \in Int /\ j < i
    BY <1>1
  <2>2. Below(j) \subseteq Below(i) /\ j \in Below(i) /\ j \notin Below(j)
    <3>1. \A k \in Int : k < j => k < i
      BY <2>1
    <3>2. j < i /\ ~ (j < j)
      BY <2>1
    <3> QED BY <2>1, <3>1, <3>2
  <2>3. <<Below(j), Below(i)>> \in R
    BY <2>2, <1>4
  <2> QED BY <2>3, <1>6, <1>7
<1>9. PICK f \in S : Pos(f) = i
  BY <1>7 DEF Places
<1>10. \A g \in S : Pos(f) <= Pos(g)
  BY <1>8, <1>9 DEF Places
<1> QED BY <1>10 DEF FirstField

LEMMA LastFieldIs ==
    ASSUME NEW S \in SUBSET Fields, NEW f \in S, \A g \in S : Pos(g) <= Pos(f)
    PROVE  LastField(S) = f
<1>1. \A g \in S : (\A h \in S : Pos(h) <= Pos(g)) => g = f
  <2> SUFFICES ASSUME NEW g \in S, \A h \in S : Pos(h) <= Pos(g) PROVE g = f
    OBVIOUS
  <2>1. Pos(f) \in Int /\ Pos(g) \in Int /\ Pos(f) <= Pos(g) /\ Pos(g) <= Pos(f)
    BY PosFacts
  <2>2. Pos(f) = Pos(g)
    BY <2>1
  <2> QED BY <2>2, PosFacts
<1> QED BY <1>1 DEF LastField

----------------------------------------------------------------------------
(* What a step does *)

\* A step is one request's.
Moves(p) == Submit(p) \/ Handle(p) \/ Task(p) \/ Disconnect(p)

LEMMA NextMoves ==
    ASSUME [Next]_vars
    PROVE  UNCHANGED vars \/ \E p \in Posts : Moves(p)
  BY DEF Next, Moves

\* The parts of a form, and what reading one of them does.
LEMMA ReadPartEffect ==
    ASSUME TypeOK, NEW p \in Posts, ReadPart(p)
    PROVE  /\ pc[p] = "reading" /\ at[p] < Len(form[p])
           /\ UNCHANGED <<form, dir, unsaved, task, written, found, connected, disk, faults>>
           /\ (pc' = pc /\ answer' = answer) \/ Answer(p, "bad request")
           /\ regime' = regime \/ \E r \in Regimes \cup {None} : regime' = [regime EXCEPT ![p] = r]
           /\ operation' = operation \/ \E o \in Operations : operation' = [operation EXCEPT ![p] = o]
           /\ \/ at' = at /\ files' = files
              \/ /\ at' = [at EXCEPT ![p] = @ + 1]
                 /\ \/ CurrentPart(p).field \notin Fields /\ files' = files
                    \/ /\ CurrentPart(p).field \in Fields
                       /\ files' = [files EXCEPT ![p] = Keep(@, CurrentPart(p))]
<1> DEFINE part == CurrentPart(p)
<1>1. /\ pc[p] = "reading" /\ at[p] < Len(form[p])
      /\ UNCHANGED <<form, dir, unsaved, task, written, found, connected, disk, faults>>
  BY DEF ReadPart
<1>2. CASE TooLarge(p)
  <2>1. Answer(p, "bad request") /\ UNCHANGED <<at, regime, operation, files>>
    BY <1>2 DEF ReadPart
  <2> QED BY <1>1, <2>1
<1>3. CASE ~ TooLarge(p)
  <2>1. at' = [at EXCEPT ![p] = @ + 1]
    BY <1>3 DEF ReadPart
  <2>2. "regime" \notin Fields /\ "operation" \notin Fields
    BY FieldsInOrder
  <2>3. CASE part.field = "regime"
    <3>1. /\ regime' = [regime EXCEPT ![p] = Parsed(part.text, Regimes)]
          /\ UNCHANGED <<pc, answer, operation, files>>
      BY <1>3, <2>2, <2>3 DEF ReadPart
    <3>2. Parsed(part.text, Regimes) \in Regimes \cup {None}
      BY DEF Parsed
    <3> QED BY <1>1, <2>1, <2>2, <2>3, <3>1, <3>2
  <2>4. CASE part.field = "operation" /\ part.text \in Operations
    <3>1. /\ operation' = [operation EXCEPT ![p] = part.text]
          /\ UNCHANGED <<pc, answer, regime, files>>
      BY <1>3, <2>2, <2>4 DEF ReadPart
    <3> QED BY <1>1, <2>1, <2>2, <2>4, <3>1
  <2>5. CASE part.field = "operation" /\ part.text \notin Operations
    <3>1. Answer(p, "bad request") /\ UNCHANGED <<regime, operation, files>>
      BY <1>3, <2>2, <2>5 DEF ReadPart
    <3> QED BY <1>1, <2>1, <2>2, <2>5, <3>1
  <2>6. CASE part.field \in Fields
    <3>1. files' = [files EXCEPT ![p] = Keep(@, part)] /\ UNCHANGED <<pc, answer, regime, operation>>
      BY <1>3, <2>2, <2>6 DEF ReadPart
    <3> QED BY <1>1, <2>1, <2>6, <3>1
  <2>7. CASE part.field \notin Fields \cup {"regime", "operation"}
    <3>1. UNCHANGED <<pc, answer, regime, operation, files>>
      BY <1>3, <2>7 DEF ReadPart
    <3> QED BY <1>1, <2>1, <2>7, <3>1
  <2> QED BY <2>3, <2>4, <2>5, <2>6, <2>7
<1> QED BY <1>2, <1>3

\* The other requests stay as they are, their directories, too.
LEMMA OthersStay ==
    ASSUME TypeOK, NEW p \in Posts, Moves(p), NEW q \in Posts, q # p
    PROVE  /\ form'[q] = form[q] /\ at'[q] = at[q] /\ pc'[q] = pc[q]
           /\ regime'[q] = regime[q] /\ operation'[q] = operation[q] /\ files'[q] = files[q]
           /\ dir'[q] = dir[q] /\ unsaved'[q] = unsaved[q] /\ task'[q] = task[q]
           /\ written'[q] = written[q] /\ found'[q] = found[q] /\ answer'[q] = answer[q]
<1> USE DEF TypeOK, Answer
<1>1. CASE Submit(p)
  BY <1>1 DEF Submit
<1>2. CASE ReadPart(p)
  <2>1. /\ UNCHANGED <<form, dir, unsaved, task, written, found>>
        /\ (pc' = pc /\ answer' = answer) \/ Answer(p, "bad request")
        /\ regime' = regime \/ \E r \in Regimes \cup {None} : regime' = [regime EXCEPT ![p] = r]
        /\ operation' = operation \/ \E o \in Operations : operation' = [operation EXCEPT ![p] = o]
        /\ at' = at \/ at' = [at EXCEPT ![p] = @ + 1]
        /\ files' = files \/ files' = [files EXCEPT ![p] = Keep(@, CurrentPart(p))]
    BY <1>2, ReadPartEffect
  <2>2. pc'[q] = pc[q] /\ answer'[q] = answer[q] /\ at'[q] = at[q] /\ files'[q] = files[q]
    BY <2>1
  <2>3. regime'[q] = regime[q] /\ operation'[q] = operation[q]
    BY <2>1
  <2> QED BY <2>1, <2>2, <2>3
<1>3. CASE Refuse(p)
  BY <1>3 DEF Refuse
<1>4. CASE MakeDirectory(p)
  BY <1>4 DEF MakeDirectory
<1>5. CASE SavePart(p)
  BY <1>5 DEF SavePart
<1>6. CASE Dispatch(p)
  BY <1>6 DEF Dispatch
<1>7. CASE RunChecks(p)
  BY <1>7 DEF RunChecks, handler
<1>8. CASE WriteReport(p)
  BY <1>8 DEF WriteReport, FailReport, handler
<1>9. CASE Finish(p)
  BY <1>9 DEF Finish
<1>10. CASE Disconnect(p)
  BY <1>10 DEF Disconnect
<1> QED BY <1>1, <1>2, <1>3, <1>4, <1>5, <1>6, <1>7, <1>8, <1>9, <1>10 DEF Moves, Handle, Task

\* A directory may be added; only the own one is written.
LEMMA OwnWrites ==
    ASSUME TypeOK, NEW p \in Posts, Moves(p)
    PROVE  \/ disk' = disk
           \/ disk' = Append(disk, <<>>) /\ MakeDirectory(p)
           \/ \E n, c : Write(p, n, c)
  BY DEF Moves, Handle, Task, Submit, ReadPart, Refuse, MakeDirectory, NewDirectory, SavePart, Dispatch,
         RunChecks, WriteReport, Finish, Disconnect

LEMMA AppendDirectory ==
    ASSUME TypeOK, disk' = Append(disk, <<>>)
    PROVE  /\ Len(disk') = Len(disk) + 1 /\ DOMAIN disk' = 1..(Len(disk) + 1)
           /\ disk'[Len(disk) + 1] = <<>>
           /\ \A d \in 1..Len(disk) : disk'[d] = disk[d]
<1> DEFINE S == {disk[d] : d \in 1..Len(disk)} \cup {<<>>}
<1>1. Len(disk) \in Nat /\ disk = [d \in 1..Len(disk) |-> disk[d]]
  BY DEF TypeOK
<1>2. disk \in [1..Len(disk) -> S]
  BY <1>1
<1>3. disk \in Seq(S) /\ <<>> \in S
  BY <1>1, <1>2
<1> HIDE DEF S
<1> QED BY <1>1, <1>3

LEMMA WriteEffect ==
    ASSUME TypeOK, NEW p \in Posts, NEW n, NEW c, Write(p, n, c)
    PROVE  /\ Len(disk') = Len(disk) /\ disk' = [d \in 1..Len(disk) |-> disk'[d]]
           /\ \A d \in 1..Len(disk) : d # dir[p] => disk'[d] = disk[d]
           /\ dir[p] # 0 => disk'[dir[p]] = With(disk[dir[p]], n, c)
<1>1. /\ Len(disk) \in Nat /\ disk = [d \in 1..Len(disk) |-> disk[d]]
      /\ DOMAIN disk = 1..Len(disk) /\ dir[p] \in 0..Len(disk)
  BY DEF TypeOK
<1>2. disk' = [disk EXCEPT ![dir[p]] = With(disk[dir[p]], n, c)]
  BY DEF Write
<1> DEFINE S == {disk'[d] : d \in 1..Len(disk)}
<1>3. DOMAIN disk' = 1..Len(disk) /\ disk' = [d \in 1..Len(disk) |-> disk'[d]]
  BY <1>1, <1>2
<1>4. disk' \in Seq(S) /\ Len(disk') = Len(disk)
  <2>1. disk' \in [1..Len(disk) -> S]
    BY <1>3
  <2> HIDE DEF S
  <2> QED BY <1>1, <2>1
<1> QED BY <1>1, <1>2, <1>3, <1>4

\* A step keeps every directory but the own one, and adds at most one.
LEMMA DirectoriesStay ==
    ASSUME TypeOK, NEW p \in Posts, Moves(p)
    PROVE  /\ Len(disk') \in Nat /\ Len(disk') >= Len(disk)
           /\ disk' = [d \in 1..Len(disk') |-> disk'[d]]
           /\ \A d \in 1..Len(disk) : d # dir[p] => disk'[d] = disk[d]
<1>1. Len(disk) \in Nat /\ disk = [d \in 1..Len(disk) |-> disk[d]]
  BY DEF TypeOK
<1>2. CASE disk' = disk
  BY <1>1, <1>2
<1>3. CASE disk' = Append(disk, <<>>)
  <2>1. /\ Len(disk') = Len(disk) + 1
        /\ \A d \in 1..Len(disk) : disk'[d] = disk[d]
    BY <1>3, AppendDirectory
  <2>2. disk' = [d \in 1..(Len(disk) + 1) |-> disk'[d]]
    <3> DEFINE S == {disk[d] : d \in 1..Len(disk)} \cup {<<>>}
    <3>1. disk \in [1..Len(disk) -> S]
      BY <1>1
    <3>2. disk \in Seq(S) /\ <<>> \in S
      BY <1>1, <3>1
    <3> HIDE DEF S
    <3>3. disk' \in Seq(S)
      BY <1>3, <3>2
    <3>4. disk' \in [1..(Len(disk) + 1) -> S]
      BY <2>1, <3>3
    <3> QED BY <3>4
  <2> QED BY <1>1, <2>1, <2>2
<1>4. ASSUME NEW n, NEW c, Write(p, n, c)
      PROVE  /\ Len(disk') \in Nat /\ Len(disk') >= Len(disk)
             /\ disk' = [d \in 1..Len(disk') |-> disk'[d]]
             /\ \A d \in 1..Len(disk) : d # dir[p] => disk'[d] = disk[d]
  BY <1>1, <1>4, WriteEffect
<1> QED BY <1>2, <1>3, <1>4, OwnWrites

----------------------------------------------------------------------------
(* The variables keep their types *)

LEMMA HandlerTypes ==
    ASSUME TypeOK, NEW p \in Posts, Moves(p)
    PROVE  /\ form' = [q \in Posts |-> form'[q]] /\ files' = [q \in Posts |-> files'[q]]
           /\ found' = [q \in Posts |-> found'[q]]
           /\ at' \in [Posts -> Nat]
           /\ regime' \in [Posts -> Regimes \cup {None}] /\ operation' \in [Posts -> Operations]
           /\ connected' \in [Posts -> BOOLEAN] /\ faults' \in Nat
<1> USE DEF TypeOK
<1>1. faults' \in Nat
  <2>1. faults' = faults \/ Fault
    BY DEF Moves, Handle, Task, Submit, ReadPart, Refuse, MakeDirectory, SavePart, Dispatch,
           RunChecks, WriteReport, Finish, Disconnect
  <2>2. faults \in Nat
    OBVIOUS
  <2> HIDE DEF TypeOK
  <2> QED BY <2>1, <2>2 DEF Fault
<1>2. connected' \in [Posts -> BOOLEAN]
  <2>1. connected' = connected \/ connected' = [connected EXCEPT ![p] = FALSE]
    BY DEF Moves, Handle, Task, Submit, ReadPart, Refuse, MakeDirectory, SavePart, Dispatch,
           RunChecks, WriteReport, Finish, Disconnect
  <2> QED BY <2>1
<1>3. CASE ReadPart(p)
  <2>1. /\ form' = form /\ found' = found
        /\ regime' = regime \/ \E r \in Regimes \cup {None} : regime' = [regime EXCEPT ![p] = r]
        /\ operation' = operation \/ \E o \in Operations : operation' = [operation EXCEPT ![p] = o]
        /\ at' = at \/ at' = [at EXCEPT ![p] = @ + 1]
        /\ files' = files \/ files' = [files EXCEPT ![p] = Keep(@, CurrentPart(p))]
    BY <1>3, ReadPartEffect
  <2>2. regime' \in [Posts -> Regimes \cup {None}]
    BY <2>1
  <2>3. operation' \in [Posts -> Operations]
    BY <2>1
  <2>4. at' \in [Posts -> Nat]
    <3>1. at \in [Posts -> Nat]
      OBVIOUS
    <3> HIDE DEF TypeOK
    <3> QED BY <2>1, <3>1
  <2>5. files' = [q \in Posts |-> files'[q]]
    BY <2>1
  <2> QED BY <1>1, <1>2, <2>1, <2>2, <2>3, <2>4, <2>5
<1>4. CASE ~ ReadPart(p)
  <2>1. /\ UNCHANGED <<at, regime, operation, files>>
        /\ form' = form \/ \E f : form' = [form EXCEPT ![p] = f]
        /\ found' = found \/ \E c : found' = [found EXCEPT ![p] = c]
    BY <1>4 DEF Moves, Handle, Task, Submit, Refuse, MakeDirectory, SavePart, Dispatch,
           RunChecks, WriteReport, Finish, Disconnect, handler
  <2> QED BY <1>1, <1>2, <2>1
<1> QED BY <1>3, <1>4

LEMMA StageTypes ==
    ASSUME TypeOK, FilesAreSent, NEW p \in Posts, Moves(p)
    PROVE  /\ pc' \in [Posts -> {"idle", "reading", "saving", "waiting", "done"}]
           /\ task' \in [Posts -> {None, "started", "writing", "failed"}]
           /\ answer' \in [Posts -> {None, "bad request", "server error", "redirect"}]
           /\ written' \in [Posts -> 0..Len(Artifacts)]
           /\ unsaved' \in [Posts -> SUBSET Fields]
<1> USE DEF TypeOK
<1>1. /\ pc' = pc \/ \E s \in {"reading", "saving", "waiting", "done"} : pc' = [pc EXCEPT ![p] = s]
      /\ answer' = answer \/ \E a \in {"bad request", "server error", "redirect"} :
                                 answer' = [answer EXCEPT ![p] = a]
  <2>1. CASE ReadPart(p)
    BY <2>1, ReadPartEffect DEF Answer
  <2>2. CASE ~ ReadPart(p)
    BY <2>2 DEF Moves, Handle, Task, Submit, Refuse, MakeDirectory, SavePart, Dispatch,
           RunChecks, WriteReport, Finish, Disconnect, handler, Answer
  <2> QED BY <2>1, <2>2
<1>2. task' = task \/ \E s \in {"started", "writing", "failed"} : task' = [task EXCEPT ![p] = s]
  BY DEF Moves, Handle, Task, Submit, ReadPart, Refuse, MakeDirectory, SavePart, Dispatch,
         RunChecks, WriteReport, Finish, Disconnect, FailReport, handler
<1>3. written' \in [Posts -> 0..Len(Artifacts)]
  <2>1. \/ written' = written
        \/ written' = [written EXCEPT ![p] = @ + 1] /\ written[p] # Len(Artifacts)
    BY DEF Moves, Handle, Task, Submit, ReadPart, Refuse, MakeDirectory, SavePart, Dispatch,
         RunChecks, WriteReport, Finish, Disconnect, FailReport, handler, Complete
  <2>2. Len(Artifacts) = 3
    BY DEF Artifacts
  <2>3. written \in [Posts -> 0..Len(Artifacts)]
    OBVIOUS
  <2> HIDE DEF TypeOK
  <2> QED BY <2>1, <2>2, <2>3
<1>4. unsaved' \in [Posts -> SUBSET Fields]
  <2>1. \/ unsaved' = unsaved
        \/ \E f : unsaved' = [unsaved EXCEPT ![p] = @ \ {f}]
        \/ unsaved' = [unsaved EXCEPT ![p] = DOMAIN files[p]]
    BY DEF Moves, Handle, Task, Submit, ReadPart, Refuse, MakeDirectory, SavePart, Dispatch,
         RunChecks, WriteReport, Finish, Disconnect, handler
  <2>2. DOMAIN files[p] \subseteq Fields
    BY DEF FilesAreSent
  <2> QED BY <2>1, <2>2
<1>5. pc' \in [Posts -> {"idle", "reading", "saving", "waiting", "done"}]
  BY <1>1
<1>6. answer' \in [Posts -> {None, "bad request", "server error", "redirect"}]
  BY <1>1
<1>7. task' \in [Posts -> {None, "started", "writing", "failed"}]
  BY <1>2
<1> QED BY <1>3, <1>4, <1>5, <1>6, <1>7

LEMMA DirectoryTypes ==
    ASSUME TypeOK, NEW p \in Posts, Moves(p)
    PROVE  /\ dir' \in [Posts -> 0..Len(disk')]
           /\ dir' = dir \/ (MakeDirectory(p) /\ dir' = [dir EXCEPT ![p] = Len(disk) + 1])
<1>1. dir \in [Posts -> 0..Len(disk)] /\ Len(disk) \in Nat
  BY DEF TypeOK
<1>2. Len(disk') \in Nat /\ Len(disk') >= Len(disk)
  BY DirectoriesStay
<1>3. dir' = dir \/ (MakeDirectory(p) /\ disk' = Append(disk, <<>>) /\ dir' = [dir EXCEPT ![p] = Len(disk')])
  BY DEF Moves, Handle, Task, Submit, ReadPart, Refuse, MakeDirectory, NewDirectory, SavePart, Dispatch,
         RunChecks, WriteReport, Finish, Disconnect, handler
<1>4. disk' = Append(disk, <<>>) => Len(disk') = Len(disk) + 1
  BY AppendDirectory
<1> QED BY <1>1, <1>2, <1>3, <1>4

LEMMA TypeStep ==
    ASSUME TypeOK, FilesAreSent, [Next]_vars
    PROVE  TypeOK'
<1>1. CASE UNCHANGED vars
  BY <1>1 DEF vars, handler, TypeOK
<1>2. ASSUME NEW p \in Posts, Moves(p)
      PROVE  TypeOK'
  BY <1>2, HandlerTypes, StageTypes, DirectoryTypes, DirectoriesStay DEF TypeOK
<1> QED BY <1>1, <1>2, NextMoves

----------------------------------------------------------------------------
(* The parts of the invariant, one lemma each *)

\* How a request gets on.
LEMMA Stages ==
    ASSUME TypeOK, NEW p \in Posts, Moves(p)
    PROVE  /\ pc'[p] \in {"idle", "reading"} => pc[p] \in {"idle", "reading"} /\ ~ MakeDirectory(p)
           /\ pc'[p] = "saving" => MakeDirectory(p) \/ pc[p] = "saving"
           /\ pc'[p] = "waiting" => Dispatch(p) \/ pc[p] = "waiting"
           /\ task[p] # None => task'[p] # None
           /\ task'[p] # None => task[p] # None \/ Dispatch(p)
           /\ task'[p] = "started" => task[p] = "started" \/ Dispatch(p)
           /\ task'[p] = "writing" => task[p] = "writing" \/ RunChecks(p)
           /\ MakeDirectory(p) => pc[p] = "reading"
           /\ Dispatch(p) => pc[p] = "saving" /\ pc'[p] = "waiting" /\ unsaved[p] = {}
<1> USE DEF TypeOK, Answer, None
<1>0. /\ MakeDirectory(p) => pc[p] = "reading" /\ pc'[p] \in {"saving", "done"}
      /\ Dispatch(p) => pc[p] = "saving" /\ pc'[p] = "waiting" /\ unsaved[p] = {}
  BY DEF MakeDirectory, FormRead, Dispatch
<1>1. CASE Submit(p)
  BY <1>0, <1>1 DEF Submit
<1>2. CASE ReadPart(p)
  <2>1. /\ pc[p] = "reading" /\ task' = task
        /\ pc' = pc \/ pc' = [pc EXCEPT ![p] = "done"]
    BY <1>2, ReadPartEffect
  <2> QED BY <1>0, <2>1
<1>3. CASE Refuse(p)
  BY <1>0, <1>3 DEF Refuse, FormRead
<1>4. CASE MakeDirectory(p)
  BY <1>0, <1>4 DEF MakeDirectory, FormRead
<1>5. CASE SavePart(p)
  BY <1>0, <1>5 DEF SavePart
<1>6. CASE Dispatch(p)
  BY <1>0, <1>6 DEF Dispatch
<1>7. CASE RunChecks(p)
  <2>1. /\ task[p] = "started" /\ pc' = pc
        /\ task' = [task EXCEPT ![p] = "failed"] \/ task' = [task EXCEPT ![p] = "writing"]
    BY <1>7 DEF RunChecks, handler
  <2> QED BY <1>0, <1>7, <2>1
<1>8. CASE WriteReport(p)
  <2>1. /\ task[p] = "writing" /\ pc' = pc
        /\ task' = task \/ task' = [task EXCEPT ![p] = "failed"]
    BY <1>8 DEF WriteReport, FailReport, handler
  <2> QED BY <1>0, <2>1
<1>9. CASE Finish(p)
  BY <1>0, <1>9 DEF Finish
<1>10. CASE Disconnect(p)
  BY <1>0, <1>10 DEF Disconnect
<1> QED BY <1>1, <1>2, <1>3, <1>4, <1>5, <1>6, <1>7, <1>8, <1>9, <1>10 DEF Moves, Handle, Task

\* What else changes, and where.
LEMMA Changes ==
    ASSUME TypeOK, NEW p \in Posts, Moves(p)
    PROVE  /\ form' = form \/ Submit(p)
           /\ (at' = at /\ files' = files /\ regime' = regime /\ operation' = operation) \/ ReadPart(p)
           /\ dir' = dir \/ MakeDirectory(p)
           /\ unsaved' = unsaved \/ MakeDirectory(p) \/ SavePart(p)
           /\ task' = task \/ Dispatch(p) \/ Task(p)
           /\ found' = found \/ RunChecks(p)
           /\ written' = written \/ WriteReport(p)
           /\ disk' = disk \/ MakeDirectory(p) \/ SavePart(p) \/ WriteReport(p) \/ Finish(p)
           /\ answer' = answer \/ ReadPart(p) \/ Refuse(p) \/ MakeDirectory(p) \/ SavePart(p) \/ Finish(p)
  BY DEF Moves, Handle, Task, Submit, ReadPart, Refuse, MakeDirectory, SavePart, Dispatch,
         RunChecks, WriteReport, Finish, Disconnect, handler

\* No directory is given twice: its number is that of a new directory.
LEMMA OwnStep ==
    ASSUME TypeOK, OwnDirectory, [Next]_vars
    PROVE  OwnDirectory'
<1>1. CASE UNCHANGED vars
  BY <1>1 DEF vars, handler, OwnDirectory
<1>2. ASSUME NEW p \in Posts, Moves(p)
      PROVE  OwnDirectory'
  <2>1. dir' = dir \/ (MakeDirectory(p) /\ dir' = [dir EXCEPT ![p] = Len(disk) + 1])
    BY <1>2, DirectoryTypes
  <2>2. dir \in [Posts -> 0..Len(disk)] /\ Len(disk) \in Nat
    BY DEF TypeOK
  <2>3. \A q \in Posts : q # p => pc'[q] = pc[q] /\ task'[q] = task[q] /\ dir'[q] = dir[q]
    BY <1>2, OthersStay
  <2>4. ASSUME NEW q \in Posts, NEW o \in Posts \ {q}, dir'[q] # 0
        PROVE  dir'[q] # dir'[o]
    <3>1. CASE dir' = dir
      BY <3>1, <2>4 DEF OwnDirectory
    <3>2. CASE dir' = [dir EXCEPT ![p] = Len(disk) + 1]
      <4>1. \A r \in Posts : dir[r] # Len(disk) + 1 /\ dir'[r] = (IF r = p THEN Len(disk) + 1 ELSE dir[r])
        BY <2>2, <3>2
      <4> QED BY <4>1, <2>4 DEF OwnDirectory
    <3> QED BY <2>1, <3>1, <3>2
  <2>5. /\ pc'[p] \in {"idle", "reading"} => dir'[p] = 0
        /\ pc'[p] \in {"idle", "reading", "saving"} => task'[p] = None
        /\ pc'[p] \in {"saving", "waiting"} \/ task'[p] # None => dir'[p] # 0
    <3>1. dir'[p] = dir[p] \/ (MakeDirectory(p) /\ dir'[p] # 0)
      BY <2>1, <2>2
    <3>2. /\ pc'[p] \in {"idle", "reading"} => pc[p] \in {"idle", "reading"} /\ ~ MakeDirectory(p)
          /\ pc'[p] = "saving" => MakeDirectory(p) \/ pc[p] = "saving"
          /\ pc'[p] = "waiting" => Dispatch(p) \/ pc[p] = "waiting"
          /\ task'[p] # None => task[p] # None \/ Dispatch(p)
          /\ MakeDirectory(p) => pc[p] = "reading"
          /\ Dispatch(p) => pc[p] = "saving" /\ pc'[p] = "waiting"
      BY <1>2, Stages
    <3>3. /\ pc[p] \in {"idle", "reading"} => dir[p] = 0
          /\ pc[p] \in {"idle", "reading", "saving"} => task[p] = None
          /\ pc[p] \in {"saving", "waiting"} \/ task[p] # None => dir[p] # 0
      BY DEF OwnDirectory
    <3>4. MakeDirectory(p) => dir'[p] # 0 \/ pc'[p] = "done"
      <4> SUFFICES ASSUME MakeDirectory(p) PROVE dir'[p] # 0 \/ pc'[p] = "done"
        OBVIOUS
      <4>1. CASE Answer(p, "server error")
        BY <4>1 DEF Answer, TypeOK
      <4>2. CASE disk' = NewDirectory /\ dir' = [dir EXCEPT ![p] = Len(disk')]
        <5>1. Len(disk') = Len(disk) + 1
          BY <4>2, AppendDirectory DEF NewDirectory
        <5> QED BY <2>2, <4>2, <5>1
      <4> QED BY <4>1, <4>2 DEF MakeDirectory
    <3> QED BY <3>1, <3>2, <3>3, <3>4
  <2> QED BY <2>3, <2>4, <2>5 DEF OwnDirectory
<1> QED BY <1>1, <1>2, NextMoves

\* A form is sent once and not changed after.
LEMMA FormStays ==
    ASSUME TypeOK, NEW p \in Posts, Moves(p), ~ Submit(p)
    PROVE  form' = form /\ (pc'[p] = "idle" <=> pc[p] = "idle")
<1> USE DEF TypeOK, Answer
<1>1. CASE ReadPart(p)
  BY <1>1, ReadPartEffect
<1>2. CASE ~ ReadPart(p)
  BY <1>2 DEF Moves, Handle, Task, Submit, Refuse, MakeDirectory, FormRead, SavePart, Dispatch,
              RunChecks, WriteReport, Finish, Disconnect, handler
<1> QED BY <1>1, <1>2

\* What FilesAreSent says of one request.
FilesOf(p) ==
    /\ DOMAIN files[p] = {f \in Fields : SentBy(p, f) # {}}
    /\ \A f \in DOMAIN files[p] : \E i \in SentBy(p, f) :
           /\ \A j \in SentBy(p, f) : j <= i
           /\ files[p][f] = [name |-> form[p][i].name, content |-> form[p][i].content]

LEMMA NothingSentYet ==
    ASSUME TypeOK, OwnDirectory, FilesAreSent, NEW p \in Posts, Submit(p)
    PROVE  /\ form'[p] \in Forms[p] /\ at'[p] <= Len(form'[p]) /\ dir'[p] = 0 /\ FilesOf(p)'
<1>1. /\ pc[p] = "idle" /\ at' = at /\ files' = files /\ dir' = dir
      /\ \E f \in Forms[p] : form' = [form EXCEPT ![p] = f]
  BY DEF Submit
<1>2. at[p] = 0
  <2>1. at[p] \in Nat /\ at[p] <= Len(<<>>)
    BY <1>1 DEF TypeOK, FilesAreSent
  <2> QED BY <2>1
<1>3. form'[p] \in Forms[p] /\ Len(form'[p]) \in Nat
  BY <1>1, FormsAssumption DEF TypeOK
<1>4. \A f : SentBy(p, f) = {} /\ SentBy(p, f)' = {}
  BY <1>1, <1>2 DEF SentBy
<1>5. DOMAIN files[p] = {}
  BY <1>4 DEF FilesAreSent
<1>6. FilesOf(p)'
  BY <1>1, <1>4, <1>5 DEF FilesOf
<1> QED BY <1>1, <1>2, <1>3, <1>6 DEF OwnDirectory

LEMMA ReadKeepsTheLast ==
    ASSUME TypeOK, FilesAreSent, NEW p \in Posts, ReadPart(p)
    PROVE  at'[p] <= Len(form'[p]) /\ FilesOf(p)'
<1>1. /\ pc[p] = "reading" /\ at[p] < Len(form[p]) /\ form' = form
      /\ \/ at' = at /\ files' = files
         \/ /\ at' = [at EXCEPT ![p] = @ + 1]
            /\ \/ CurrentPart(p).field \notin Fields /\ files' = files
               \/ /\ CurrentPart(p).field \in Fields
                  /\ files' = [files EXCEPT ![p] = Keep(@, CurrentPart(p))]
  BY ReadPartEffect
<1>2. FilesOf(p) /\ form[p] \in Forms[p] /\ at[p] \in Nat /\ at[p] <= Len(form[p])
  BY <1>1 DEF FilesAreSent, FilesOf, TypeOK
<1>3. Len(form[p]) \in Nat
  BY <1>2, FormsAssumption
<1>4. CASE at' = at /\ files' = files
  <2>1. \A f : SentBy(p, f)' = SentBy(p, f)
    BY <1>1, <1>4 DEF SentBy
  <2> QED BY <1>1, <1>2, <1>4, <2>1 DEF FilesOf
<1>5. CASE /\ at' = [at EXCEPT ![p] = @ + 1]
           /\ \/ CurrentPart(p).field \notin Fields /\ files' = files
              \/ /\ CurrentPart(p).field \in Fields
                 /\ files' = [files EXCEPT ![p] = Keep(@, CurrentPart(p))]
  <2> DEFINE n == at[p] + 1
             part == form[p][n]
  <2>1. at'[p] = n /\ n \in 1..Len(form[p]) /\ CurrentPart(p) = part
    <3>1. at \in [Posts -> Nat]
      BY DEF TypeOK
    <3>2. at'[p] = n
      BY <1>5, <3>1
    <3>3. n \in 1..Len(form[p])
      BY <1>1, <1>2, <1>3
    <3> QED BY <3>2, <3>3 DEF CurrentPart
  <2>2. 1..n = 1..at[p] \cup {n} /\ n \notin 1..at[p] /\ \A j \in 1..n : j <= n
    BY <1>2
  <2> HIDE DEF n
  <2>3. \A f : SentBy(p, f)' = SentBy(p, f) \cup (IF part.field = f /\ Weight(part) = 1 THEN {n} ELSE {})
    BY <1>1, <2>1, <2>2 DEF SentBy
  <2>4. CASE part.field \notin Fields /\ files' = files
    <3>1. \A f \in Fields : SentBy(p, f)' = SentBy(p, f)
      BY <2>3, <2>4
    <3>2. FilesOf(p)'
      BY <1>1, <1>2, <2>4, <3>1 DEF FilesOf
    <3> QED BY <1>1, <2>1, <3>2
  <2>5. CASE part.field \in Fields /\ files' = [files EXCEPT ![p] = Keep(@, part)]
    <3> DEFINE rec == [name |-> part.name, content |-> part.content]
    <3>1. "content" \in DOMAIN part
      BY <1>2, <2>1, <2>5, FormsAssumption
    <3>2. files'[p] = Keep(files[p], part)
      BY <2>5 DEF TypeOK
    <3>3. CASE part.content = Empty
      <4>1. files'[p] = files[p]
        BY <3>2, <3>3 DEF Keep
      <4>2. \A f : SentBy(p, f)' = SentBy(p, f)
        BY <2>3, <3>3 DEF Weight
      <4>3. FilesOf(p)'
        BY <1>1, <1>2, <4>1, <4>2 DEF FilesOf
      <4> QED BY <1>1, <2>1, <4>3
    <3>4. CASE part.content # Empty
      <4>1. files'[p] = With(files[p], part.field, rec)
        BY <3>2, <3>4 DEF Keep
      <4>2. \A f : SentBy(p, f)' = SentBy(p, f) \cup (IF part.field = f THEN {n} ELSE {})
        BY <2>3, <3>1, <3>4 DEF Weight
      <4>3. /\ DOMAIN files'[p] = DOMAIN files[p] \cup {part.field}
            /\ files'[p][part.field] = rec
            /\ \A f \in DOMAIN files[p] : f # part.field => files'[p][f] = files[p][f]
        BY <4>1 DEF With
      <4>4. DOMAIN files'[p] = {f \in Fields : SentBy(p, f)' # {}}
        BY <1>2, <2>5, <4>2, <4>3 DEF FilesOf
      <4>5. ASSUME NEW f \in DOMAIN files'[p]
            PROVE  \E i \in SentBy(p, f)' :
                       /\ \A j \in SentBy(p, f)' : j <= i
                       /\ files'[p][f] = [name |-> form'[p][i].name, content |-> form'[p][i].content]
        <5>1. CASE f = part.field
          <6>1. n \in SentBy(p, f)' /\ SentBy(p, f)' \subseteq 1..n
            BY <2>1, <4>2, <5>1 DEF SentBy
          <6>2. files'[p][f] = [name |-> form'[p][n].name, content |-> form'[p][n].content]
            BY <1>1, <4>3, <5>1
          <6> QED BY <2>2, <6>1, <6>2
        <5>2. CASE f # part.field
          <6>1. f \in DOMAIN files[p] /\ files'[p][f] = files[p][f] /\ SentBy(p, f)' = SentBy(p, f)
            BY <4>2, <4>3, <4>5, <5>2
          <6> QED BY <1>1, <1>2, <6>1 DEF FilesOf
        <5> QED BY <5>1, <5>2
      <4>6. FilesOf(p)'
        BY <4>4, <4>5 DEF FilesOf
      <4> QED BY <1>1, <2>1, <4>6
    <3> QED BY <3>3, <3>4
  <2> QED BY <2>1, <2>4, <2>5, <1>5
<1> QED BY <1>1, <1>4, <1>5

LEMMA FilesStep ==
    ASSUME TypeOK, OwnDirectory, FilesAreSent, [Next]_vars
    PROVE  FilesAreSent'
<1>1. CASE UNCHANGED vars
  <2>1. \A q, f : SentBy(q, f)' = SentBy(q, f)
    BY <1>1 DEF vars, handler, SentBy
  <2> QED BY <1>1, <2>1 DEF vars, handler, FilesAreSent
<1>2. ASSUME NEW p \in Posts, Moves(p)
      PROVE  FilesAreSent'
  <2>1. ASSUME NEW q \in Posts, form'[q] = form[q], at'[q] = at[q], files'[q] = files[q]
        PROVE  FilesOf(q)' /\ at'[q] <= Len(form'[q])
    <3>1. \A f : SentBy(q, f)' = SentBy(q, f)
      BY <2>1 DEF SentBy
    <3>2. FilesOf(q) /\ at[q] <= Len(form[q])
      BY DEF FilesAreSent, FilesOf
    <3> QED BY <2>1, <3>1, <3>2 DEF FilesOf
  <2>2. ASSUME NEW q \in Posts
        PROVE  /\ pc'[q] # "idle" => form'[q] \in Forms[q]
               /\ pc'[q] = "idle" => form'[q] = <<>>
               /\ at'[q] <= Len(form'[q]) /\ (dir'[q] # 0 => at'[q] = Len(form'[q]))
               /\ FilesOf(q)'
    <3>1. CASE q # p
      <4>1. /\ form'[q] = form[q] /\ at'[q] = at[q] /\ files'[q] = files[q] /\ pc'[q] = pc[q]
            /\ dir'[q] = dir[q]
        BY <1>2, <3>1, OthersStay
      <4> QED BY <2>1, <4>1 DEF FilesAreSent
    <3>2. CASE q = p /\ Submit(p)
      <4>1. pc'[p] = "reading"
        BY <3>2 DEF Submit, TypeOK
      <4> QED BY <3>2, <4>1, NothingSentYet
    <3>3. CASE q = p /\ ReadPart(p)
      <4>1. pc[p] = "reading" /\ form' = form /\ dir' = dir
        BY <3>3, ReadPartEffect
      <4>2. pc'[p] # "idle" /\ form[p] \in Forms[p] /\ dir[p] = 0
        <5>1. ~ Submit(p)
          BY <4>1 DEF Submit
        <5> QED BY <1>2, <4>1, <5>1, FormStays DEF FilesAreSent, OwnDirectory
      <4> QED BY <3>3, <4>1, <4>2, ReadKeepsTheLast
    <3>4. CASE q = p /\ ~ Submit(p) /\ ~ ReadPart(p)
      <4>1. form' = form /\ at' = at /\ files' = files /\ (pc'[p] = "idle" <=> pc[p] = "idle")
        BY <1>2, <3>4, Changes, FormStays
      <4>2. dir'[p] # 0 => at[p] = Len(form[p])
        <5>1. dir' = dir \/ MakeDirectory(p)
          BY <1>2, Changes
        <5> QED BY <5>1 DEF MakeDirectory, FormRead, FilesAreSent
      <4>3. FilesOf(p)' /\ at'[p] <= Len(form'[p])
        BY <2>1, <4>1
      <4> QED BY <3>4, <4>1, <4>2, <4>3 DEF FilesAreSent
    <3> QED BY <3>1, <3>2, <3>3, <3>4
  <2> QED BY <2>2 DEF FilesAreSent, FilesOf
<1> QED BY <1>1, <1>2, NextMoves

\* The directory of another request stays as it is.
LEMMA OtherDirectory ==
    ASSUME TypeOK, OwnDirectory, NEW p \in Posts, Moves(p), NEW q \in Posts, q # p, dir[q] # 0
    PROVE  disk'[dir'[q]] = disk[dir[q]]
<1>1. dir'[q] = dir[q] /\ dir[q] \in 1..Len(disk)
  <2>1. dir[q] \in 0..Len(disk) /\ Len(disk) \in Nat
    BY DEF TypeOK
  <2>2. dir'[q] = dir[q]
    BY OthersStay
  <2> QED BY <2>1, <2>2
<1>2. dir[q] # dir[p]
  BY DEF OwnDirectory
<1> QED BY <1>1, <1>2, DirectoriesStay

\* What SavedAsKept says of one request, beside its stage.
SavedOf(p) ==
    LET saved == DOMAIN files[p] \ unsaved[p] IN
    /\ unsaved[p] \subseteq DOMAIN files[p]
    /\ \A f \in saved, g \in unsaved[p] : Pos(f) < Pos(g)
    /\ \A f \in saved :
           /\ files[p][f].name \in DOMAIN disk[dir[p]]
           /\ \E g \in saved :
                  /\ files[p][g].name = files[p][f].name
                  /\ \A h \in saved : files[p][h].name = files[p][f].name => Pos(h) <= Pos(g)
                  /\ OnDisk(p, f) = files[p][g].content

LEMMA SavedStays ==
    ASSUME NEW p \in Posts, SavedOf(p), files'[p] = files[p], unsaved'[p] = unsaved[p],
           disk'[dir'[p]] = disk[dir[p]]
    PROVE  SavedOf(p)'
<1>1. \A f : OnDisk(p, f)' = OnDisk(p, f)
  BY DEF OnDisk
<1> QED BY <1>1 DEF SavedOf

\* A file is saved after those before it in field order, and replaces one of its
\* name.
LEMMA SaveOne ==
    ASSUME TypeOK, OwnDirectory, FilesAreSent, NEW p \in Posts, SavedOf(p), SavePart(p), pc'[p] = "saving"
    PROVE  SavedOf(p)'
<1> DEFINE f0 == FirstField(unsaved[p])
           n0 == files[p][f0].name
           saved == DOMAIN files[p] \ unsaved[p]
           saved1 == DOMAIN files'[p] \ unsaved'[p]
<1>1. pc[p] = "saving" /\ unsaved[p] # {} /\ files' = files /\ dir' = dir
  BY DEF SavePart
<1>2. /\ Write(p, n0, files[p][f0].content)
      /\ unsaved' = [unsaved EXCEPT ![p] = @ \ {f0}]
  BY <1>1 DEF SavePart, Answer, TypeOK
<1>3. unsaved[p] \subseteq Fields /\ unsaved[p] \subseteq DOMAIN files[p] /\ DOMAIN files[p] \subseteq Fields
  BY DEF TypeOK, SavedOf, FilesAreSent
<1>4. f0 \in unsaved[p] /\ \A g \in unsaved[p] : Pos(f0) <= Pos(g)
  BY <1>1, <1>3, FirstFieldFacts
<1>5. dir[p] # 0
  BY <1>1 DEF OwnDirectory
<1>6. disk'[dir[p]] = With(disk[dir[p]], n0, files[p][f0].content)
  BY <1>2, <1>5, WriteEffect
<1>7. /\ DOMAIN disk'[dir[p]] = DOMAIN disk[dir[p]] \cup {n0}
      /\ disk'[dir[p]][n0] = files[p][f0].content
      /\ \A n \in DOMAIN disk[dir[p]] : n # n0 => disk'[dir[p]][n] = disk[dir[p]][n]
  BY <1>6 DEF With
<1>8. unsaved'[p] = unsaved[p] \ {f0} /\ saved1 = saved \cup {f0}
  <2>1. unsaved'[p] = unsaved[p] \ {f0}
    BY <1>2 DEF TypeOK
  <2> QED BY <2>1, <1>1, <1>3, <1>4
<1> HIDE DEF f0, n0
<1>9. \A f \in saved1 : Pos(f) <= Pos(f0)
  <2>1. \A f \in saved : Pos(f) < Pos(f0)
    BY <1>4 DEF SavedOf
  <2>2. \A f \in Fields : Pos(f) \in Int
    BY PosFacts
  <2> QED BY <2>1, <2>2, <1>3, <1>4, <1>8
<1>10. \A f \in saved1, g \in unsaved'[p] : Pos(f) < Pos(g)
  <2> SUFFICES ASSUME NEW f \in saved1, NEW g \in unsaved'[p] PROVE Pos(f) < Pos(g)
    OBVIOUS
  <2>1. CASE f # f0
    <3>1. f \in saved /\ g \in unsaved[p]
      BY <1>8, <2>1
    <3> QED BY <3>1 DEF SavedOf
  <2>2. CASE f = f0
    <3>1. g \in unsaved[p] /\ g # f0 /\ Pos(f0) <= Pos(g) /\ g \in Fields /\ f0 \in Fields
      BY <1>3, <1>4, <1>8
    <3>2. Pos(f0) # Pos(g) /\ Pos(f0) \in Int /\ Pos(g) \in Int
      BY <3>1, PosFacts
    <3> QED BY <3>1, <3>2, <2>2
  <2> QED BY <2>1, <2>2
<1>11. ASSUME NEW f \in saved1
       PROVE  /\ files[p][f].name \in DOMAIN disk'[dir[p]]
              /\ \E g \in saved1 :
                     /\ files[p][g].name = files[p][f].name
                     /\ \A h \in saved1 : files[p][h].name = files[p][f].name => Pos(h) <= Pos(g)
                     /\ disk'[dir[p]][files[p][f].name] = files[p][g].content
  <2>1. CASE files[p][f].name = n0
    BY <2>1, <1>7, <1>8, <1>9 DEF n0
  <2>2. CASE files[p][f].name # n0
    <3>1. f \in saved /\ f # f0
      BY <1>8, <1>11, <2>2 DEF n0
    <3>2. /\ files[p][f].name \in DOMAIN disk[dir[p]]
          /\ \E g \in saved :
                 /\ files[p][g].name = files[p][f].name
                 /\ \A h \in saved : files[p][h].name = files[p][f].name => Pos(h) <= Pos(g)
                 /\ disk[dir[p]][files[p][f].name] = files[p][g].content
      BY <3>1 DEF SavedOf, OnDisk
    <3>3. \A h \in saved1 : files[p][h].name = files[p][f].name => h \in saved
      BY <1>8, <2>2 DEF n0
    <3> QED BY <2>2, <3>2, <3>3, <1>7, <1>8
  <2> QED BY <2>1, <2>2
<1>12. unsaved'[p] \subseteq DOMAIN files'[p]
  BY <1>1, <1>3, <1>8
<1> QED BY <1>1, <1>10, <1>11, <1>12 DEF SavedOf, OnDisk

LEMMA SavedStep ==
    ASSUME TypeOK, OwnDirectory, FilesAreSent, SavedAsKept, [Next]_vars
    PROVE  SavedAsKept'
<1>0. \A q \in Posts : pc[q] = "saving" \/ task[q] = "started" =>
          SavedOf(q) /\ (pc[q] # "saving" => unsaved[q] = {})
  BY DEF SavedAsKept, SavedOf
<1>1. CASE UNCHANGED vars
  <2>1. \A q, f : OnDisk(q, f)' = OnDisk(q, f)
    BY <1>1 DEF vars, handler, OnDisk
  <2> QED BY <1>1, <2>1 DEF vars, handler, SavedAsKept
<1>2. ASSUME NEW p \in Posts, Moves(p)
      PROVE  SavedAsKept'
  <2> SUFFICES ASSUME NEW q \in Posts, pc'[q] = "saving" \/ task'[q] = "started"
               PROVE  SavedOf(q)' /\ (pc'[q] # "saving" => unsaved'[q] = {})
    BY DEF SavedAsKept, SavedOf
  <2>1. CASE q # p
    <3>1. /\ pc'[q] = pc[q] /\ task'[q] = task[q] /\ unsaved'[q] = unsaved[q] /\ files'[q] = files[q]
      BY <1>2, <2>1, OthersStay
    <3>2. dir[q] # 0
      BY <3>1 DEF OwnDirectory, None
    <3> QED BY <1>0, <1>2, <2>1, <3>1, <3>2, OtherDirectory, SavedStays
  <2>2. CASE q = p /\ MakeDirectory(p)
    <3>1. pc[p] = "reading" /\ task[p] = None /\ task' = task /\ files' = files
      BY <2>2 DEF MakeDirectory, FormRead, OwnDirectory
    <3>2. pc'[p] = "saving"
      BY <2>2, <3>1 DEF None
    <3>3. unsaved'[p] = DOMAIN files[p]
      BY <2>2, <3>2 DEF MakeDirectory, Answer, TypeOK
    <3> QED BY <2>2, <3>1, <3>2, <3>3 DEF SavedOf
  <2>3. CASE q = p /\ SavePart(p)
    <3>1. pc[p] = "saving" /\ task' = task
      BY <2>3 DEF SavePart
    <3>2. pc'[p] = "saving"
      BY <2>3, <3>1 DEF OwnDirectory, None
    <3> QED BY <1>0, <2>3, <3>1, <3>2, SaveOne
  <2>4. CASE q = p /\ Dispatch(p)
    <3>1. /\ pc[p] = "saving" /\ unsaved[p] = {}
          /\ UNCHANGED <<files, unsaved, dir, disk>>
      BY <2>4 DEF Dispatch
    <3> QED BY <1>0, <2>4, <3>1, SavedStays
  <2>5. CASE q = p /\ ~ MakeDirectory(p) /\ ~ SavePart(p) /\ ~ Dispatch(p)
    <3>1. pc[p] = "saving" \/ task[p] = "started"
      BY <1>2, <2>5, Stages
    <3>2. pc[p] \notin {"idle", "reading"}
      BY <3>1 DEF OwnDirectory, None
    <3>3. ~ ReadPart(p) /\ ~ WriteReport(p) /\ ~ Finish(p)
      <4>1. ~ ReadPart(p)
        BY <3>2 DEF ReadPart
      <4>2. ~ WriteReport(p)
        <5>1. pc[p] = "saving" => task[p] = None
          BY DEF OwnDirectory
        <5> QED BY <3>1, <5>1 DEF WriteReport, None
      <4>3. ~ Finish(p)
        <5> SUFFICES ASSUME Finish(p) PROVE FALSE
          OBVIOUS
        <5>1. pc[p] = "waiting" /\ task[p] \in {"failed", "writing"}
          BY DEF Finish, Ended, Complete
        <5> QED BY <3>1, <5>1
      <4> QED BY <4>1, <4>2, <4>3
    <3>4. files' = files /\ unsaved' = unsaved /\ dir' = dir /\ disk' = disk
      BY <1>2, <2>5, <3>3, Changes
    <3>5. pc'[p] # "saving" => unsaved[p] = {}
      <4>1. pc[p] = "saving" => pc' = pc
        BY <1>2, <2>5, <3>3 DEF OwnDirectory, None, Moves, Handle, Task, Submit, Refuse, FormRead,
                                  RunChecks, handler, Disconnect
      <4> QED BY <1>0, <3>1, <4>1
    <3> QED BY <1>0, <2>5, <3>1, <3>4, <3>5, SavedStays
  <2> QED BY <2>1, <2>2, <2>3, <2>4, <2>5
<1> QED BY <1>1, <1>2, NextMoves

----------------------------------------------------------------------------
(* The checks read what was uploaded *)

\* A task that is not refused has every file its operation reads.
LEMMA UsedIsThere ==
    ASSUME NEW op, NEW r, NEW fields, Required(op, r, fields) \subseteq fields
    PROVE  Used(op, r, fields) \subseteq fields
<1>1. CASE op = "missing-collateral"
  <2>1. Required(op, r, fields) = {"file"}
    BY <1>1 DEF Required
  <2> QED BY <1>1, <2>1 DEF Used
<1>2. CASE op # "missing-collateral"
  BY <1>2 DEF Used
<1> QED BY <1>1, <1>2

LEMMA KeptIsSent ==
    ASSUME TypeOK, FilesAreSent, NEW p \in Posts, dir[p] # 0, pc[p] # "idle"
    PROVE  /\ DOMAIN files[p] = SentFields(p)
           /\ \A f \in SentFields(p) : /\ files[p][f].name = LastSent(p, f).name
                                       /\ files[p][f].content = LastSent(p, f).content
<1>1. DOMAIN form[p] = 1..at[p]
  BY FormsAssumption DEF FilesAreSent
<1>2. \A f : SentBy(p, f) = Sent(p, f)
  BY <1>1 DEF SentBy, Sent
<1>3. DOMAIN files[p] = SentFields(p)
  BY <1>2 DEF FilesAreSent, SentFields
<1>4. ASSUME NEW f \in SentFields(p)
      PROVE  /\ files[p][f].name = LastSent(p, f).name
             /\ files[p][f].content = LastSent(p, f).content
  <2>1. PICK i \in Sent(p, f) :
            /\ \A j \in Sent(p, f) : j <= i
            /\ files[p][f] = [name |-> form[p][i].name, content |-> form[p][i].content]
    BY <1>2, <1>3, <1>4 DEF FilesAreSent
  <2>2. Sent(p, f) \subseteq Int
    <3>1. at[p] \in Nat
      BY DEF TypeOK
    <3> QED BY <1>1, <3>1 DEF Sent
  <2>3. \A k \in Sent(p, f) : (\A j \in Sent(p, f) : j <= k) => k = i
    BY <2>1, <2>2
  <2>4. LastSent(p, f) = form[p][i]
    BY <2>1, <2>3 DEF LastSent
  <2> QED BY <2>1, <2>4
<1> QED BY <1>3, <1>4

LEMMA ReadsUploads ==
    ASSUME TypeOK, OwnDirectory, FilesAreSent, SavedAsKept, NEW p \in Posts,
           task[p] = "started", ~ Rejected(p)
    PROVE  ReadFrom(p) = [f \in Used(operation[p], regime[p], DOMAIN files[p]) |-> OnDisk(p, f)]
<1>1. /\ pc[p] \notin {"idle", "reading", "saving"} /\ dir[p] # 0
  BY DEF OwnDirectory, None
<1>2. unsaved[p] = {} /\ SavedOf(p)
  BY <1>1 DEF SavedAsKept, SavedOf
<1>3. /\ DOMAIN files[p] = SentFields(p)
      /\ \A f \in SentFields(p) : /\ files[p][f].name = LastSent(p, f).name
                                  /\ files[p][f].content = LastSent(p, f).content
  BY <1>1, KeptIsSent
<1>4. Used(operation[p], regime[p], SentFields(p)) \subseteq SentFields(p)
  BY <1>3, UsedIsThere DEF Rejected
<1>5. ASSUME NEW f \in SentFields(p)
      PROVE  OnDisk(p, f) = LastSent(p, LastField(SameName(p, f))).content
  <2>1. SameName(p, f) = {g \in DOMAIN files[p] : files[p][g].name = files[p][f].name}
    BY <1>3, <1>5 DEF SameName
  <2>2. PICK g \in SameName(p, f) :
            /\ \A h \in SameName(p, f) : Pos(h) <= Pos(g)
            /\ OnDisk(p, f) = files[p][g].content
    BY <1>2, <1>3, <1>5, <2>1 DEF SavedOf
  <2>3. SameName(p, f) \subseteq Fields
    BY DEF SameName, SentFields
  <2>4. LastField(SameName(p, f)) = g
    BY <2>2, <2>3, LastFieldIs
  <2> QED BY <1>3, <2>1, <2>2, <2>4
<1> QED BY <1>3, <1>4, <1>5 DEF ReadFrom, Uploaded

LEMMA ReadFromStays ==
    ASSUME NEW p \in Posts, form'[p] = form[p], operation'[p] = operation[p], regime'[p] = regime[p]
    PROVE  ReadFrom(p)' = ReadFrom(p)
<1>1. \A f : Sent(p, f)' = Sent(p, f)
  BY DEF Sent
<1>2. SentFields(p)' = SentFields(p) /\ \A f : LastSent(p, f)' = LastSent(p, f)
  <2>1. SentFields(p)' = SentFields(p)
    BY <1>1 DEF SentFields
  <2>2. ASSUME NEW f PROVE LastSent(p, f)' = LastSent(p, f)
    <3>1. Sent(p, f)' = Sent(p, f)
      BY <1>1
    <3> QED BY <3>1, Zenon DEF LastSent
  <2> QED BY <2>1, <2>2
<1>3. Uploaded(p)' = Uploaded(p) /\ \A f : SameName(p, f)' = SameName(p, f)
  BY <1>2 DEF Uploaded, SameName
<1> QED BY <1>2, <1>3 DEF ReadFrom

LEMMA FoundStep ==
    ASSUME TypeOK, OwnDirectory, FilesAreSent, SavedAsKept, FoundInUploads, [Next]_vars
    PROVE  FoundInUploads'
<1>1. CASE UNCHANGED vars
  BY <1>1, ReadFromStays DEF vars, handler, FoundInUploads
<1>2. ASSUME NEW p \in Posts, Moves(p)
      PROVE  FoundInUploads'
  <2> SUFFICES ASSUME NEW q \in Posts, task'[q] = "writing"
               PROVE  found'[q] = ServerIssues(operation'[q], regime'[q], ReadFrom(q)')
    BY DEF FoundInUploads
  <2>1. CASE q # p
    BY <1>2, <2>1, OthersStay, ReadFromStays DEF FoundInUploads
  <2>2. CASE q = p /\ RunChecks(p)
    <3>1. /\ task[p] = "started" /\ UNCHANGED <<form, operation, regime>>
      BY <2>2 DEF RunChecks, handler
    <3>2. ~ Rejected(p) /\ found' = [found EXCEPT ![p] =
              ServerIssues(operation[p], regime[p],
                  [f \in Used(operation[p], regime[p], DOMAIN files[p]) |-> OnDisk(p, f)])]
      BY <2>2 DEF RunChecks, TypeOK
    <3>3. found'[p] = ServerIssues(operation[p], regime[p], ReadFrom(p))
      BY <3>1, <3>2, ReadsUploads DEF TypeOK
    <3> QED BY <2>2, <3>1, <3>3, ReadFromStays
  <2>3. CASE q = p /\ ~ RunChecks(p)
    <3>1. task[p] = "writing"
      BY <1>2, <2>3, Stages
    <3>2. pc[p] \notin {"idle", "reading"}
      BY <3>1 DEF OwnDirectory, None
    <3>3. ~ Submit(p) /\ ~ ReadPart(p)
      BY <3>2 DEF Submit, ReadPart
    <3>4. UNCHANGED <<form, operation, regime, found>>
      BY <1>2, <2>3, <3>3, Changes
    <3> QED BY <2>3, <3>1, <3>4, ReadFromStays DEF FoundInUploads
  <2> QED BY <2>1, <2>2, <2>3
<1> QED BY <1>1, <1>2, NextMoves

----------------------------------------------------------------------------
(* The reports behind the links *)

LEMMA ReportNames ==
    /\ Len(Artifacts) = 3 /\ Range(Artifacts) = {Artifacts[1], Artifacts[2], Artifacts[3]}
    /\ \A i \in 1..3 : Artifacts[i] # Sidecar
<1>1. Len(Artifacts) = 3 /\ DOMAIN Artifacts = 1..3
  BY DEF Artifacts
<1>2. 1..3 = {1, 2, 3}
  OBVIOUS
<1>3. Artifacts[1] = Summary /\ Artifacts[2] = Issues /\ Artifacts[3] = Report
  BY DEF Artifacts
<1>4. Sidecar # Summary /\ Sidecar # Issues /\ Sidecar # Report
  BY DEF Sidecar, Summary, Issues, Report, File
<1>5. Range(Artifacts) = {Artifacts[i] : i \in {1, 2, 3}}
  BY <1>1, <1>2 DEF Range
<1> QED BY <1>1, <1>2, <1>3, <1>4, <1>5

\* A file written last is there, another one stays.
LEMMA ShownAfterWrite ==
    ASSUME TypeOK, NEW p \in Posts, dir[p] # 0, dir' = dir, found' = found, NEW n, NEW c, Write(p, n, c)
    PROVE  /\ \A f : Shown(p, f) /\ f # n => Shown(p, f)'
           /\ c = [shows |-> found[p], whole |-> TRUE] => Shown(p, n)'
<1>1. disk'[dir[p]] = With(disk[dir[p]], n, c)
  BY WriteEffect
<1> QED BY <1>1 DEF Shown, With

\* What ReportsAreWhole says of one request.
ReportsOf(p) ==
    /\ task[p] \in {None, "started"} => written[p] = 0
    /\ task[p] = "writing" => \A i \in 1..written[p] : Shown(p, Artifacts[i])
    /\ answer[p] # None => pc[p] = "done"
    /\ Redirected(p) => Complete(p) /\ Shown(p, Sidecar)

LEMMA ReportsStay ==
    ASSUME NEW p \in Posts, ReportsOf(p), task'[p] = task[p], written'[p] = written[p],
           answer'[p] = answer[p], found'[p] = found[p],
           pc[p] = "done" => pc'[p] = "done",
           task[p] = "writing" => disk'[dir'[p]] = disk[dir[p]]
    PROVE  ReportsOf(p)'
<1>1. task[p] = "writing" => \A f : Shown(p, f)' = Shown(p, f)
  BY DEF Shown
<1> QED BY <1>1 DEF ReportsOf, Redirected, Complete

LEMMA WriteReportStep ==
    ASSUME TypeOK, OwnDirectory, NEW p \in Posts, ReportsOf(p), WriteReport(p)
    PROVE  ReportsOf(p)'
<1>1. /\ task[p] = "writing" /\ ~ Complete(p)
      /\ UNCHANGED <<pc, dir, found, answer>>
  BY DEF WriteReport, handler
<1>2. ~ Redirected(p) /\ dir[p] # 0 /\ written[p] \in 0..3 /\ written[p] # 3
  BY <1>1, ReportNames DEF ReportsOf, OwnDirectory, None, Complete, TypeOK
<1>3. PICK f : f = Artifacts[written[p] + 1]
  OBVIOUS
<1>4. PICK c : c = [shows |-> found[p], whole |-> TRUE]
  OBVIOUS
<1>5. CASE FailReport(p)
  <2>1. task'[p] = "failed"
    BY <1>5 DEF FailReport, TypeOK
  <2> QED BY <1>1, <1>2, <2>1 DEF ReportsOf, Redirected, None
<1>6. CASE Write(p, f, c) /\ written' = [written EXCEPT ![p] = @ + 1] /\ task' = task
  <2>1. (\A g : Shown(p, g) /\ g # f => Shown(p, g)') /\ (c = [shows |-> found[p], whole |-> TRUE] => Shown(p, f)')
    BY <1>1, <1>2, <1>6, ShownAfterWrite
  <2>2. Shown(p, f)' /\ \A g : Shown(p, g) => Shown(p, g)'
    BY <2>1, <1>4
  <2>3. written'[p] = written[p] + 1
    BY <1>6 DEF TypeOK
  <2>4. \A i \in 1..(written[p] + 1) : i \in 1..written[p] \/ i = written[p] + 1
    BY <1>2
  <2>5. \A i \in 1..written'[p] : Shown(p, Artifacts[i])'
    BY <1>1, <1>3, <2>2, <2>3, <2>4 DEF ReportsOf
  <2> QED BY <1>1, <1>2, <1>6, <2>5 DEF ReportsOf, Redirected, None
<1> QED BY <1>5, <1>6, <1>1, <1>3, <1>4 DEF WriteReport

LEMMA FinishStep ==
    ASSUME TypeOK, OwnDirectory, NEW p \in Posts, ReportsOf(p), Finish(p)
    PROVE  ReportsOf(p)'
<1>1. /\ pc[p] = "waiting" /\ UNCHANGED <<dir, task, written, found>>
      /\ task[p] \in {"failed", "writing"}
  BY DEF Finish, Ended, Complete
<1>2. pc'[p] = "done" /\ dir[p] # 0 /\ ~ Redirected(p)
  <2>1. pc'[p] = "done"
    BY DEF Finish, Answer, TypeOK
  <2>2. answer[p] = None
    BY <1>1 DEF ReportsOf
  <2> QED BY <1>1, <2>1, <2>2 DEF OwnDirectory, Redirected, None
<1>3. ASSUME NEW c, Write(p, Sidecar, c), task[p] = "writing"
      PROVE  /\ \A i \in 1..written[p] : Shown(p, Artifacts[i])'
             /\ c = [shows |-> found[p], whole |-> TRUE] => Shown(p, Sidecar)'
  <2>1. \A i \in 1..written[p] : Shown(p, Artifacts[i]) /\ i \in 1..3
    <3>1. written[p] \in 0..3
      BY ReportNames DEF TypeOK
    <3>2. \A i \in 1..written[p] : i \in 1..3
      BY <3>1
    <3> QED BY <1>3, <3>2 DEF ReportsOf
  <2>2. \A g : Shown(p, g) /\ g # Sidecar => Shown(p, g)'
    BY <1>1, <1>2, <1>3, ShownAfterWrite
  <2>3. c = [shows |-> found[p], whole |-> TRUE] => Shown(p, Sidecar)'
    BY <1>1, <1>2, <1>3, ShownAfterWrite
  <2> QED BY <2>1, <2>2, <2>3, ReportNames
<1>4. CASE task[p] = "failed" /\ answer' = [answer EXCEPT ![p] = "server error"]
  BY <1>1, <1>2, <1>4 DEF ReportsOf, Redirected, TypeOK, None
<1>5. CASE Complete(p) /\ Answer(p, "redirect")
           /\ Write(p, Sidecar, [shows |-> found[p], whole |-> TRUE])
  <2>1. Complete(p)' /\ task[p] = "writing"
    BY <1>1, <1>5 DEF Complete
  <2>2. Shown(p, Sidecar)' /\ \A i \in 1..written[p] : Shown(p, Artifacts[i])'
    BY <1>3, <1>5, <2>1
  <2> QED BY <1>1, <1>2, <2>1, <2>2 DEF ReportsOf, None
<1>6. CASE /\ Complete(p) /\ Answer(p, "server error")
           /\ Write(p, Sidecar, [shows |-> {}, whole |-> FALSE]) \/ UNCHANGED disk
  <2>1. task[p] = "writing" /\ answer'[p] = "server error"
    BY <1>6 DEF Complete, Answer, TypeOK
  <2>2. \A i \in 1..written[p] : Shown(p, Artifacts[i])'
    <3>1. CASE UNCHANGED disk
      BY <1>1, <2>1, <3>1 DEF ReportsOf, Shown
    <3>2. CASE Write(p, Sidecar, [shows |-> {}, whole |-> FALSE])
      BY <1>3, <2>1, <3>2
    <3> QED BY <1>6, <3>1, <3>2
  <2> QED BY <1>1, <1>2, <2>1, <2>2 DEF ReportsOf, Redirected, None
<1>7. CASE task[p] = "failed" /\ Answer(p, "server error")
  BY <1>4, <1>7 DEF Answer
<1> QED BY <1>5, <1>6, <1>7 DEF Finish

LEMMA ReportsStep ==
    ASSUME TypeOK, OwnDirectory, ReportsAreWhole, [Next]_vars
    PROVE  ReportsAreWhole'
<1>0. \A q \in Posts : ReportsOf(q)
  BY DEF ReportsAreWhole, ReportsOf
<1>1. CASE UNCHANGED vars
  <2>1. \A q \in Posts : ReportsOf(q)'
    BY <1>0, <1>1, ReportsStay DEF vars, handler
  <2> QED BY <2>1 DEF ReportsAreWhole, ReportsOf
<1>2. ASSUME NEW p \in Posts, Moves(p)
      PROVE  ReportsAreWhole'
  <2> SUFFICES ASSUME NEW q \in Posts PROVE ReportsOf(q)'
    BY DEF ReportsAreWhole, ReportsOf
  <2>1. CASE q # p
    <3>1. /\ pc'[q] = pc[q] /\ task'[q] = task[q] /\ written'[q] = written[q] /\ answer'[q] = answer[q]
          /\ found'[q] = found[q]
      BY <1>2, <2>1, OthersStay
    <3>2. task[q] = "writing" => dir[q] # 0
      BY DEF OwnDirectory, None
    <3>3. task[q] = "writing" => disk'[dir'[q]] = disk[dir[q]]
      BY <1>2, <2>1, <3>2, OtherDirectory
    <3> QED BY <1>0, <3>1, <3>3, ReportsStay
  <2>2. CASE q = p /\ WriteReport(p)
    BY <1>0, <2>2, WriteReportStep
  <2>3. CASE q = p /\ Finish(p)
    BY <1>0, <2>3, FinishStep
  <2>4. CASE q = p /\ Task(p) /\ ~ WriteReport(p)
    <3>1. /\ task[p] = "started" /\ UNCHANGED <<pc, answer, written, dir, disk>>
          /\ task' = [task EXCEPT ![p] = "failed"] \/ task' = [task EXCEPT ![p] = "writing"]
      BY <2>4 DEF Task, RunChecks, handler
    <3>2. written'[p] = 0 /\ ~ Redirected(p) /\ task'[p] \in {"failed", "writing"}
      BY <1>0, <3>1 DEF ReportsOf, None, Complete, TypeOK
    <3>3. answer'[p] # None => pc'[p] = "done"
      BY <1>0, <3>1 DEF ReportsOf
    <3>4. 1..written'[p] = {}
      BY <3>2
    <3> QED BY <2>4, <3>1, <3>2, <3>3, <3>4 DEF ReportsOf, Redirected, None
  <2>5. CASE q = p /\ Dispatch(p)
    <3>1. /\ pc[p] = "saving" /\ task[p] = None
          /\ task'[p] = "started" /\ UNCHANGED <<answer, written, found, dir, disk>>
      BY <2>5 DEF Dispatch, OwnDirectory, TypeOK
    <3>2. written'[p] = 0 /\ answer'[p] = None
      BY <1>0, <3>1 DEF ReportsOf
    <3> QED BY <2>5, <3>1, <3>2 DEF ReportsOf, Redirected, None
  <2>6. CASE q = p /\ ~ Task(p) /\ ~ Finish(p) /\ ~ Dispatch(p)
    <3>1. task' = task /\ written' = written /\ found' = found
      BY <1>2, <2>6, Changes DEF Task
    <3>2. CASE task[p] = "writing"
      <4>1. pc[p] \notin {"idle", "reading", "saving"}
        BY <3>2 DEF OwnDirectory, None
      <4>2. Disconnect(p)
        BY <1>2, <2>6, <4>1 DEF Moves, Handle, Submit, ReadPart, Refuse, MakeDirectory, FormRead, SavePart
      <4>3. answer' = answer /\ disk' = disk /\ dir' = dir /\ pc'[p] = "done"
        BY <4>2 DEF Disconnect, TypeOK
      <4> QED BY <1>0, <2>6, <3>1, <4>3, ReportsStay
    <3>3. CASE task[p] # "writing"
      <4>1. ~ Redirected(p) /\ (task[p] \in {None, "started"} => written[p] = 0)
        BY <1>0, <3>3 DEF ReportsOf, Complete
      <4>2. /\ answer'[p] # None => pc'[p] = "done"
            /\ answer'[p] # "redirect"
        <5>1. CASE ReadPart(p)
          <6>1. pc[p] = "reading" /\ ((pc' = pc /\ answer' = answer) \/ Answer(p, "bad request"))
            BY <5>1, ReadPartEffect
          <6>2. answer[p] = None
            BY <1>0, <6>1 DEF ReportsOf
          <6> QED BY <6>1, <6>2 DEF Answer, TypeOK, None
        <5>2. CASE Disconnect(p)
          <6>1. answer' = answer /\ pc'[p] = "done"
            BY <5>2 DEF Disconnect, TypeOK
          <6> QED BY <4>1, <6>1 DEF Redirected
        <5>3. CASE Submit(p)
          <6>1. answer' = answer /\ pc[p] = "idle"
            BY <5>3 DEF Submit
          <6>2. answer[p] = None
            BY <1>0, <6>1 DEF ReportsOf
          <6> QED BY <6>1, <6>2 DEF None
        <5>4. CASE Refuse(p) \/ MakeDirectory(p) \/ SavePart(p)
          <6>1. /\ pc[p] \in {"reading", "saving"}
                /\ answer' = answer \/ Answer(p, "bad request") \/ Answer(p, "server error")
            BY <5>4 DEF Refuse, MakeDirectory, SavePart, FormRead
          <6>2. answer[p] = None
            BY <1>0, <6>1 DEF ReportsOf
          <6> QED BY <6>1, <6>2 DEF Answer, TypeOK, None
        <5> QED BY <1>2, <2>6, <5>1, <5>2, <5>3, <5>4 DEF Moves, Handle
      <4> QED BY <2>6, <3>1, <3>3, <4>1, <4>2 DEF ReportsOf, Redirected
    <3> QED BY <3>2, <3>3
  <2> QED BY <1>2, <2>1, <2>2, <2>3, <2>4, <2>5, <2>6 DEF Moves, Task, Handle
<1> QED BY <1>1, <1>2, NextMoves

----------------------------------------------------------------------------
(* The server's checks and the command's *)

LEMMA SaysFacts ==
    /\ \A w, x : Says(w, x).who = w
    /\ \A cs : \A e \in ReaderSays(cs) : e.who = "reader"
    /\ \A cs, ds : ReaderSays(cs) \ ReaderSays(ds) = ReaderSays(cs \ ds)
<1>1. \A w, x : Says(w, x).who = w /\ Says(w, x).of = x
  BY DEF Says
<1>2. \A cs : \A e \in ReaderSays(cs) : e.who = "reader"
  BY <1>1 DEF ReaderSays
<1>3. \A b, d : Says("reader", <<b>>) = Says("reader", <<d>>) => b = d
  <2> SUFFICES ASSUME NEW b, NEW d, Says("reader", <<b>>) = Says("reader", <<d>>) PROVE b = d
    OBVIOUS
  <2>1. <<b>> = <<d>>
    BY <1>1
  <2> QED BY <2>1
<1>4. ASSUME NEW cs, NEW ds
      PROVE  ReaderSays(cs) \ ReaderSays(ds) = ReaderSays(cs \ ds)
  BY <1>3 DEF ReaderSays
<1> QED BY <1>1, <1>2, <1>4

\* Whatever earlier reports they are given, the feedback checks say the same of
\* a file: those that look reports up are about answers the reader never makes.
LEMMA FeedbackNeverLooksUp ==
    /\ \A c, prior : FeedbackSays(c, prior) = FeedbackSays(c, <<>>)
    /\ \A c, prior : \A e \in FeedbackSays(c, prior) : e.who \in DOMAIN FeedbackChecks
<1> DEFINE Answering == {k \in DOMAIN FeedbackChecks : FeedbackChecks[k] \in AnswerTypes}
<1>1. \A k \in Answering : FeedbackChecks[k] = "Rejected" /\ ~ LooksUp(k)
  BY DEF AnswerTypes, LooksUp
<1> HIDE DEF Answering
<1>2. \A c, prior : FeedbackSays(c, prior) = {Says(k, <<c>>) : k \in Answering}
  BY <1>1 DEF FeedbackSays, Answering
<1>3. \A k \in Answering : k \in DOMAIN FeedbackChecks
  BY DEF Answering
<1>4. ASSUME NEW c, NEW prior, NEW e \in FeedbackSays(c, prior)
      PROVE  e.who \in DOMAIN FeedbackChecks
  <2>1. PICK k \in Answering : e = Says(k, <<c>>)
    BY <1>2
  <2>2. e.who = k
    BY <2>1, SaysFacts
  <2> QED BY <1>3, <2>2
<1> QED BY <1>2, <1>4

LEMMA AuditSame ==
    ASSUME NEW r, NEW c
    PROVE  /\ CommandIssues("tr-audit", r, c) \ ServerIssues("tr-audit", r, c) = OnlyCommand("tr-audit", c)
           /\ ServerIssues("tr-audit", r, c) \ CommandIssues("tr-audit", r, c) = OnlyServer("tr-audit", c)
<1> DEFINE L == Says("lifecycle", <<c["file_tar"]>>)
<1>1. ServerIssues("tr-audit", r, c) = AuditIssues(r, c)
  BY DEF ServerIssues
<1>2. CommandIssues("tr-audit", r, c) = AuditIssues(r, c) \cup {L}
  BY DEF CommandIssues, AuditIssues
<1>3. \A e \in AuditIssues(r, c) : e.who # "lifecycle"
  <2>1. "lifecycle" \notin DOMAIN FeedbackChecks
    BY DEF FeedbackChecks
  <2>2. \A e \in FeedbackSays(c["file_feedback"], <<>>) : e.who # "lifecycle"
    BY <2>1, FeedbackNeverLooksUp
  <2> QED BY <2>2, SaysFacts DEF AuditIssues
<1>4. L.who = "lifecycle"
  BY SaysFacts
<1>5. OnlyCommand("tr-audit", c) = {L} /\ OnlyServer("tr-audit", c) = {}
  BY DEF OnlyCommand, OnlyServer
<1> HIDE DEF L
<1>6. L \notin AuditIssues(r, c)
  BY <1>3, <1>4
<1> QED BY <1>1, <1>2, <1>5, <1>6

LEMMA BookSame ==
    ASSUME NEW r, NEW c
    PROVE  /\ CommandIssues("book-reconcile", r, c) = ServerIssues("book-reconcile", r, c)
           /\ OnlyCommand("book-reconcile", c) = {} /\ OnlyServer("book-reconcile", c) = {}
<1>1. ServerIssues("book-reconcile", r, c) = BookIssues(c)
  BY DEF ServerIssues
<1>2. CommandIssues("book-reconcile", r, c) = BookIssues(c)
  BY DEF CommandIssues, BookIssues
<1> QED BY <1>1, <1>2 DEF OnlyCommand, OnlyServer

LEMMA CollateralSame ==
    ASSUME NEW r, NEW c, DOMAIN c \subseteq {"file", "file_tsr"}, "file" \in DOMAIN c
    PROVE  /\ CommandIssues("missing-collateral", r, c) \ ServerIssues("missing-collateral", r, c)
                  = OnlyCommand("missing-collateral", c)
           /\ ServerIssues("missing-collateral", r, c) \ CommandIssues("missing-collateral", r, c)
                  = OnlyServer("missing-collateral", c)
<1> DEFINE M == Says("missing_collateral", <<c["file"]>> \o Companion(c))
<1>1. ServerIssues("missing-collateral", r, c) = ReaderSays(Range(c)) \cup {M}
  BY DEF ServerIssues, CollateralIssues
<1>2. CommandIssues("missing-collateral", r, c) = ReaderSays({c["file"]}) \cup {M}
  BY DEF CommandIssues
<1>3. OnlyCommand("missing-collateral", c) = {}
      /\ OnlyServer("missing-collateral", c) = ReaderSays(Range(Companion(c)) \ {c["file"]})
  BY DEF OnlyCommand, OnlyServer
<1>4. Range(c) = {c["file"]} \cup Range(Companion(c))
  <2>1. Range(c) = {c[f] : f \in DOMAIN c}
    BY DEF Range
  <2>2. CASE "file_tsr" \in DOMAIN c
    <3>1. DOMAIN c = {"file", "file_tsr"}
      BY <2>2
    <3>2. Companion(c) = <<c["file_tsr"]>>
      BY <2>2 DEF Companion
    <3>3. Range(Companion(c)) = {c["file_tsr"]}
      BY <3>2 DEF Range
    <3> QED BY <2>1, <3>1, <3>3
  <2>3. CASE "file_tsr" \notin DOMAIN c
    <3>1. DOMAIN c = {"file"}
      BY <2>3
    <3>2. Range(Companion(c)) = {}
      BY <2>3 DEF Companion, Range
    <3> QED BY <2>1, <3>1, <3>2
  <2> QED BY <2>2, <2>3
<1>5. M.who = "missing_collateral"
  BY SaysFacts
<1> HIDE DEF M
<1>6. \A cs : M \notin ReaderSays(cs)
  BY <1>5, SaysFacts
<1>7. ReaderSays({c["file"]}) \subseteq ReaderSays(Range(c))
  BY <1>4 DEF ReaderSays
<1>8. Range(c) \ {c["file"]} = Range(Companion(c)) \ {c["file"]}
  BY <1>4
<1>9. ReaderSays(Range(c)) \ ReaderSays({c["file"]}) = ReaderSays(Range(Companion(c)) \ {c["file"]})
  <2>1. ReaderSays(Range(c)) \ ReaderSays({c["file"]}) = ReaderSays(Range(c) \ {c["file"]})
    <3>1. \A cs, ds : ReaderSays(cs) \ ReaderSays(ds) = ReaderSays(cs \ ds)
      BY SaysFacts
    <3> DEFINE cs == Range(c)
               ds == {c["file"]}
    <3> HIDE DEF cs, ds
    <3>2. ReaderSays(cs) \ ReaderSays(ds) = ReaderSays(cs \ ds)
      BY <3>1
    <3> QED BY <3>2 DEF cs, ds
  <2> QED BY <1>8, <2>1
<1> QED BY <1>1, <1>2, <1>3, <1>6, <1>7, <1>9

\* What an operation over one file says of several is what it says of each.
LEMMA OneByOne ==
    ASSUME NEW op, NEW c
    PROVE  UNION {SingleIssues(op, d) : d \in Range(c)}
           = (UNION {PackSays(op, d) : d \in Range(c)})
             \cup (IF op \in {"scan", "validate"} THEN {} ELSE ReaderSays(Range(c)))
<1> DEFINE One(d) == IF op \in {"scan", "validate"} THEN {} ELSE ReaderSays({d})
           R == IF op \in {"scan", "validate"} THEN {} ELSE ReaderSays(Range(c))
<1>1. \A d : SingleIssues(op, d) = PackSays(op, d) \cup One(d)
  BY DEF SingleIssues
<1>2. \A e : e \in R <=> \E d \in Range(c) : e \in One(d)
  BY DEF ReaderSays
<1> HIDE DEF R, One
<1>3. UNION {SingleIssues(op, d) : d \in Range(c)} = (UNION {PackSays(op, d) : d \in Range(c)}) \cup R
  <2> DEFINE U == UNION {SingleIssues(op, d) : d \in Range(c)}
             V == UNION {PackSays(op, d) : d \in Range(c)}
  <2>1. \A e : e \in U <=> \E d \in Range(c) : e \in SingleIssues(op, d)
    OBVIOUS
  <2>2. \A e : e \in V <=> \E d \in Range(c) : e \in PackSays(op, d)
    OBVIOUS
  <2>3. \A e, d : e \in SingleIssues(op, d) <=> e \in PackSays(op, d) \/ e \in One(d)
    BY <1>1
  <2> HIDE DEF U, V
  <2>4. \A e : e \in U <=> e \in V \/ e \in R
    BY <1>2, <2>1, <2>2, <2>3, Zenon
  <2>5. U = V \cup R
    BY <2>4
  <2> QED BY <2>5 DEF U, V
<1> QED BY <1>3 DEF R

\* The command runs the server's checks over a file, and none of them is a reader.
LEMMA CommandSaysTheSame ==
    ASSUME NEW op \in Operations \ {"validate", "tr-audit", "book-reconcile", "missing-collateral"},
           NEW c
    PROVE  /\ CommandSays(op, c) = PackSays(op, c)
           /\ \A e \in PackSays(op, c) : e.who # "reader"
<1>1. CASE op = "feedback"
  <2>1. CommandSays(op, c) = FeedbackSays(c, Stored) /\ PackSays(op, c) = FeedbackSays(c, <<>>)
    BY <1>1 DEF CommandSays, PackSays
  <2>2. "reader" \notin DOMAIN FeedbackChecks
    BY DEF FeedbackChecks
  <2> QED BY <2>1, <2>2, FeedbackNeverLooksUp
<1>2. CASE op # "feedback"
  <2>1. CommandPacks(op) = Packs(op) /\ "reader" \notin Packs(op)
    BY <1>2 DEF CommandPacks, Packs, Operations
  <2>2. PackSays(op, c) = {Says(k, <<c>>) : k \in Packs(op)}
    BY <1>2 DEF PackSays
  <2>3. CommandSays(op, c) = {Says(k, <<c>>) : k \in CommandPacks(op)}
    BY <1>2 DEF CommandSays
  <2> QED BY <2>1, <2>2, <2>3, SaysFacts
<1> QED BY <1>1, <1>2

\* The operations over one file.
LEMMA SingleSame ==
    ASSUME NEW op \in Operations \ {"validate", "tr-audit", "book-reconcile", "missing-collateral"},
           NEW r, NEW c
    PROVE  /\ CommandIssues(op, r, c) \ ServerIssues(op, r, c) = OnlyCommand(op, c)
           /\ ServerIssues(op, r, c) \ CommandIssues(op, r, c) = OnlyServer(op, c)
<1> DEFINE P == UNION {PackSays(op, d) : d \in Range(c)}
<1>1. CommandIssues(op, r, c) = ReaderSays(Range(c)) \cup P
  <2>1. CommandIssues(op, r, c) = ReaderSays(Range(c)) \cup UNION {CommandSays(op, d) : d \in Range(c)}
    BY DEF CommandIssues, Operations
  <2>2. \A d : CommandSays(op, d) = PackSays(op, d)
    BY CommandSaysTheSame
  <2> QED BY <2>1, <2>2
<1>2. ServerIssues(op, r, c) = UNION {SingleIssues(op, d) : d \in Range(c)}
  BY DEF ServerIssues, Operations
<1>3. ServerIssues(op, r, c) = P \cup (IF op = "scan" THEN {} ELSE ReaderSays(Range(c)))
  <2>1. op \in {"scan", "validate"} <=> op = "scan"
    OBVIOUS
  <2>2. UNION {SingleIssues(op, d) : d \in Range(c)}
        = P \cup (IF op \in {"scan", "validate"} THEN {} ELSE ReaderSays(Range(c)))
    BY OneByOne
  <2> QED BY <1>2, <2>1, <2>2
<1>4. \A e \in P : e.who # "reader"
  <2>1. \A d : \A e \in PackSays(op, d) : e.who # "reader"
    BY CommandSaysTheSame
  <2> QED BY <2>1
<1>5. ReaderSays(Range(c)) \cap P = {}
  <2>1. \A e \in ReaderSays(Range(c)) : e.who = "reader"
    BY SaysFacts
  <2> HIDE DEF P
  <2> QED BY <1>4, <2>1
<1>6. OnlyCommand(op, c) = (IF op = "scan" THEN ReaderSays(Range(c)) ELSE {}) /\ OnlyServer(op, c) = {}
  BY DEF OnlyCommand, OnlyServer
<1> HIDE DEF P
<1> QED BY <1>1, <1>3, <1>5, <1>6

----------------------------------------------------------------------------
(* The theorems *)

LEMMA InitInv == Init => ServerInv
<1> SUFFICES ASSUME Init PROVE ServerInv
  OBVIOUS
<1>1. TypeOK
  <2>1. disk = <<>> /\ Len(disk) = 0 /\ disk = [d \in 1..Len(disk) |-> disk[d]]
    BY DEF Init
  <2>2. Len(Artifacts) = 3
    BY ReportNames
  <2> QED BY <2>1, <2>2, FaultsAssumption DEF Init, TypeOK, Operations, None
<1>2. OwnDirectory
  BY DEF Init, OwnDirectory, None
<1>3. FilesAreSent
  <2>1. \A p \in Posts : \A f : SentBy(p, f) = {}
    BY DEF Init, SentBy
  <2>2. \A p \in Posts : Len(form[p]) = 0 /\ DOMAIN files[p] = {}
    BY DEF Init
  <2> QED BY <2>1, <2>2 DEF Init, FilesAreSent
<1>4. SavedAsKept
  BY DEF Init, SavedAsKept, None
<1>5. FoundInUploads
  BY DEF Init, FoundInUploads, None
<1>6. ReportsAreWhole
  BY DEF Init, ReportsAreWhole, Redirected, None
<1> QED BY <1>1, <1>2, <1>3, <1>4, <1>5, <1>6 DEF ServerInv

LEMMA InvStep == ServerInv /\ [Next]_vars => ServerInv'
  BY TypeStep, OwnStep, FilesStep, SavedStep, FoundStep, ReportsStep DEF ServerInv

LEMMA InvAlways == Spec => []ServerInv
  BY InitInv, InvStep, PTL DEF Spec

\* The state of the requests, their tasks and their directories keeps its types
\* under every interleaving: no handler or task indexes a directory never made.
THEOREM ServerTypeOK == Spec => []TypeOK
<1>1. ServerInv => TypeOK
  BY DEF ServerInv
<1> QED BY <1>1, InvAlways, PTL

\* What the page of a redirected request shows.
LEMMA PageIs ==
    ASSUME ServerInv, NEW p \in Posts, Redirected(p)
    PROVE  /\ task[p] = "writing"
           /\ ScanResults(dir[p]) = [shows |-> found[p], whole |-> TRUE]
           /\ \A f \in Range(Artifacts) : ScanDownload(dir[p], f) = [shows |-> found[p], whole |-> TRUE]
<1>1. Complete(p) /\ Shown(p, Sidecar)
  BY DEF ServerInv, ReportsAreWhole
<1>2. task[p] = "writing" /\ written[p] = 3
  BY <1>1, ReportNames DEF Complete
<1>3. dir[p] \in DOMAIN disk
  <2>1. dir[p] # 0
    BY <1>2 DEF ServerInv, OwnDirectory, None
  <2>2. dir[p] \in 0..Len(disk) /\ Len(disk) \in Nat /\ DOMAIN disk = 1..Len(disk)
    BY DEF ServerInv, TypeOK
  <2> QED BY <2>1, <2>2
<1>4. \A f : Shown(p, f) => ScanDownload(dir[p], f) = [shows |-> found[p], whole |-> TRUE]
  BY <1>3 DEF Shown, ScanDownload
<1>5. \A f \in Range(Artifacts) : Shown(p, f)
  <2>1. \A i \in 1..3 : Shown(p, Artifacts[i])
    BY <1>2 DEF ServerInv, ReportsAreWhole
  <2>2. Shown(p, Artifacts[1]) /\ Shown(p, Artifacts[2]) /\ Shown(p, Artifacts[3])
    BY <2>1
  <2> QED BY <2>2, ReportNames
<1> QED BY <1>1, <1>2, <1>4, <1>5 DEF ScanResults

\* A client that is redirected finds the page and, behind each of its links, the
\* whole report of the issues the page counts, whatever other requests, clients
\* that go away and faults do meanwhile (handlers.rs scan, finalize_artifacts).
THEOREM RedirectedLinksWork == Spec => []LinksWork
<1>1. ServerInv => LinksWork
  <2> SUFFICES ASSUME ServerInv, NEW p \in Posts, Redirected(p)
               PROVE  LET page == ScanResults(dir[p]) IN
                      page.whole /\ \A f \in Range(Artifacts) : ScanDownload(dir[p], f) = page
    BY DEF LinksWork
  <2>1. PICK page : /\ page = [shows |-> found[p], whole |-> TRUE]
                    /\ ScanResults(dir[p]) = page
                    /\ \A f \in Range(Artifacts) : ScanDownload(dir[p], f) = page
    BY PageIs
  <2>2. page.whole
    BY <2>1
  <2> QED BY <2>1, <2>2
<1> QED BY <1>1, InvAlways, PTL

LEMMA PageOfUploads == ServerInv => ReadAsUploaded
<1> SUFFICES ASSUME ServerInv, NEW p \in Posts, Redirected(p)
             PROVE  ScanResults(dir[p]).shows = ServerIssues(operation[p], regime[p], ReadFrom(p))
  BY DEF ReadAsUploaded
<1>1. task[p] = "writing" /\ ScanResults(dir[p]) = [shows |-> found[p], whole |-> TRUE]
  BY PageIs
<1>2. ScanResults(dir[p]).shows = found[p]
  BY <1>1
<1> QED BY <1>1, <1>2 DEF ServerInv, FoundInUploads

\* The reports of a request are about its own files, each as the client gave it
\* last, under any interleaving with requests whose files have the same names;
\* of two files of one name the last in field order is read (handlers.rs:96).
THEOREM ReportsOfTheUpload == Spec => []ReadAsUploaded
<1> QED BY PageOfUploads, InvAlways, PTL

\* The files a missing-collateral run reads.
LEMMA CollateralFiles ==
    ASSUME NEW p \in Posts, operation[p] = "missing-collateral"
    PROVE  DOMAIN ReadFrom(p) \subseteq {"file", "file_tsr"} /\ "file" \in DOMAIN ReadFrom(p)
<1>1. DOMAIN ReadFrom(p) = Used(operation[p], regime[p], SentFields(p))
  BY DEF ReadFrom, Uploaded
<1> QED BY <1>1 DEF Used

\* The page shows what `opendqi emir|sftr` reports for the same files, but for
\* what OnlyCommand and OnlyServer name: for any contents, whatever the readers
\* and the registries say of them. `feedback` looks up a store the server does not
\* have; FeedbackNeverLooksUp is why that makes no difference.
THEOREM PageIsTheCommandLine == Spec => []SameAsCommandLine
<1>1. ServerInv => SameAsCommandLine
  <2> SUFFICES ASSUME ServerInv, NEW p \in Posts, Redirected(p), operation[p] # "validate"
               PROVE  LET c == ReadFrom(p)
                          command == CommandIssues(operation[p], regime[p], c)
                          server == ScanResults(dir[p]).shows
                      IN /\ command \ server = OnlyCommand(operation[p], c)
                         /\ server \ command = OnlyServer(operation[p], c)
    BY DEF SameAsCommandLine
  <2>1. ScanResults(dir[p]).shows = ServerIssues(operation[p], regime[p], ReadFrom(p))
    BY PageOfUploads DEF ReadAsUploaded
  <2>2. operation[p] \in Operations
    BY DEF ServerInv, TypeOK
  <2> DEFINE op == operation[p]
             r == regime[p]
             c == ReadFrom(p)
  <2>3. /\ CommandIssues(op, r, c) \ ServerIssues(op, r, c) = OnlyCommand(op, c)
        /\ ServerIssues(op, r, c) \ CommandIssues(op, r, c) = OnlyServer(op, c)
    <3>1. CASE op = "tr-audit"
      BY <3>1, AuditSame
    <3>2. CASE op = "book-reconcile"
      <4>1. /\ CommandIssues("book-reconcile", r, c) = ServerIssues("book-reconcile", r, c)
            /\ OnlyCommand("book-reconcile", c) = {} /\ OnlyServer("book-reconcile", c) = {}
        BY BookSame
      <4> QED BY <3>2, <4>1
    <3>3. CASE op = "missing-collateral"
      <4>1. DOMAIN c \subseteq {"file", "file_tsr"} /\ "file" \in DOMAIN c
        BY <3>3, CollateralFiles
      <4> HIDE DEF c, r
      <4> QED BY <3>3, <4>1, CollateralSame
    <3>4. CASE op \notin {"tr-audit", "book-reconcile", "missing-collateral"}
      BY <2>2, <3>4, SingleSame
    <3> QED BY <3>1, <3>2, <3>3, <3>4
  <2> QED BY <2>1, <2>3
<1> QED BY <1>1, InvAlways, PTL
================================================================================
