--------------------------- MODULE PolicyRunProofs ---------------------------
(***************************************************************************)
(* What a run of a policy shows and answers, for any scopes and messages,  *)
(* any sequence of calls and a writer that may fail on any message.        *)
(*                                                                         *)
(* The argument: what is written already, followed by what is queued as it *)
(* would be written, is at any time what was asked for since the last      *)
(* emission, each once and in order (PendingRight); the scopes pushed on   *)
(* the way out are reversed when they are written, so no two messages that *)
(* are queued look the same.  An emission could continue so far if nothing *)
(* it has written is an error (Emitting), which is how the answer comes to *)
(* be that of PolicyVerdict.                                               *)
(***************************************************************************)
EXTENDS PolicyRun, SequenceTheorems, TLAPS

-----------------------------------------------------------------------------
(***************************************************************************)
(* The parts of the inductive invariant.                                   *)
(***************************************************************************)
Text   == Message \cup {"No controllers found."}
Parts  == Seq([severity : Severity, message : Text])
Made   == [scopes : Seq(Scope), parts : Parts]
Queued == [context : Seq(Scope), children : Parts]

HeldOK ==
  /\ opened \subseteq Seq(Scope)
  /\ builder \subseteq [base : Seq(Scope), parts : Parts]
  /\ calls \in Nat

QueueOK ==
  /\ queue \in Seq(Queued)
  /\ since \in Seq(Made)
  /\ batch \in Seq(Made)

AnswerOK ==
  /\ pc \in {"policy", "emit", "returned", "failed", "exited"}
  /\ caller \in Caller
  /\ can_continue \in BOOLEAN
  /\ success \in BOOLEAN
  /\ answer \in {"none", "continue", "abort", "io error"}

TypeOK == HeldOK /\ QueueOK /\ AnswerOK

\* The queue as it would be written.
Unwritten == [k \in 1 .. Len(queue) |-> write(queue[k])]

\* What is written, and then what is not.
Pending == batch \o Unwritten

PendingRight == answer = "none" => OnceInOrder(Pending, since)

\* Between emissions nothing is written, nor queued until there is a request.
Between ==
  /\ answer # "none" => queue = <<>>
  /\ answer = "none" /\ pc = "policy" => batch = <<>>

Emitting ==
  pc = "emit" => /\ answer = "none"
                 /\ can_continue <=> \A k \in DOMAIN batch : ~IsError(batch[k])

IInv == TypeOK /\ PendingRight /\ Between /\ Emitting /\ EachShownOnce

-----------------------------------------------------------------------------
(***************************************************************************)
(* Sequences of requests                                                   *)
(***************************************************************************)

LEMMA ReverseTwice ==
  ASSUME NEW S, NEW s \in Seq(S)
  PROVE  Reverse(s) \in Seq(S) /\ Reverse(Reverse(s)) = s
<1>1. Reverse(s) \in Seq(S) /\ Len(Reverse(s)) = Len(s)
  BY DEF Reverse
<1>2. \A i \in 1 .. Len(s) : Reverse(s)[i] = s[(Len(s) - i) + 1]
  BY DEF Reverse
<1>3. \A i \in 1 .. Len(s) : Reverse(Reverse(s))[i] = s[i]
  <2> TAKE i \in 1 .. Len(s)
  <2>1. Reverse(Reverse(s))[i] = Reverse(s)[(Len(s) - i) + 1]
    BY <1>1 DEF Reverse
  <2>2. (Len(s) - i) + 1 \in 1 .. Len(s) /\ (Len(s) - ((Len(s) - i) + 1)) + 1 = i
    OBVIOUS
  <2> QED
    BY <1>2, <2>1, <2>2
<1>4. Reverse(Reverse(s)) = [i \in 1 .. Len(s) |-> Reverse(Reverse(s))[i]]
  BY <1>1 DEF Reverse
<1>5. s = [i \in 1 .. Len(s) |-> s[i]]
  OBVIOUS
<1> QED
  BY <1>1, <1>3, <1>4, <1>5

\* A message is written in the scopes it was made in.
LEMMA WriteThrough ==
  ASSUME NEW c \in Seq(Scope), NEW parts \in Parts
  PROVE  /\ through(c, parts) \in Queued
         /\ write(through(c, parts)) = [scopes |-> c, parts |-> parts]
<1>1. Reverse(c) \in Seq(Scope) /\ Reverse(Reverse(c)) = c
  BY ReverseTwice
<1> QED
  BY <1>1 DEF through, write, Queued

LEMMA WriteFacts ==
  ASSUME NEW d \in Queued
  PROVE  /\ write(d) \in Made
         /\ IsError(write(d)) <=> aborts(d)
         /\ \A e \in Queued : write(d) = write(e) => d = e
<1>1. write(d) \in Made
  BY ReverseTwice DEF write, Queued, Made
<1>2. IsError(write(d)) <=> aborts(d)
  BY DEF write, IsError, aborts
<1>3. ASSUME NEW e \in Queued, write(d) = write(e)
      PROVE  d = e
  <2>1. Reverse(d.context) = Reverse(e.context) /\ d.children = e.children
    BY <1>3 DEF write
  <2>2. Reverse(Reverse(d.context)) = d.context /\ Reverse(Reverse(e.context)) = e.context
    BY ReverseTwice DEF Queued
  <2>3. d.context = e.context
    BY <2>1, <2>2
  <2> QED
    BY <2>1, <2>3 DEF Queued
<1> QED
  BY <1>1, <1>2, <1>3

LEMMA NothingOnce == OnceInOrder(<<>>, <<>>)
BY DEF OnceInOrder, ToSet, IsInjective

\* A request that is new comes last; one that is not changes nothing.
LEMMA AppendOnce ==
  ASSUME NEW T, NEW b \in Seq(T), NEW s \in Seq(T), NEW r \in T, OnceInOrder(b, s)
  PROVE  OnceInOrder(IF r \in ToSet(b) THEN b ELSE Append(b, r), Append(s, r))
<1> DEFINE b2 == Append(b, r)
           s2 == Append(s, r)
<1>1. /\ DOMAIN b2 = 1 .. Len(b) + 1 /\ b2[Len(b) + 1] = r
      /\ DOMAIN b = 1 .. Len(b)
      /\ \A k \in 1 .. Len(b) : b2[k] = b[k]
  OBVIOUS
<1>2. /\ s2 \in Seq(T) /\ DOMAIN s2 = 1 .. Len(s) + 1 /\ s2[Len(s) + 1] = r
      /\ DOMAIN s = 1 .. Len(s)
      /\ \A k \in 1 .. Len(s) : s2[k] = s[k]
  OBVIOUS
<1> SUFFICES /\ r \in ToSet(b) => OnceInOrder(b, s2)
             /\ r \notin ToSet(b) => OnceInOrder(b2, s2)
  OBVIOUS
<1> HIDE DEF b2, s2
<1>3. ToSet(s2) = ToSet(s) \cup {r}
  BY <1>2 DEF ToSet
<1>4. ASSUME NEW i \in DOMAIN b, NEW j \in DOMAIN b, i < j
      PROVE  \E k \in DOMAIN s2 : s2[k] = b[i] /\ \A l \in 1 .. k : s2[l] # b[j]
  <2>1. PICK k \in DOMAIN s : s[k] = b[i] /\ \A l \in 1 .. k : s[l] # b[j]
    BY <1>4 DEF OnceInOrder
  <2>2. k \in DOMAIN s2 /\ s2[k] = s[k] /\ \A l \in 1 .. k : s2[l] = s[l]
    BY <1>2
  <2> QED
    BY <2>1, <2>2
<1>5. CASE r \in ToSet(b)
  BY <1>3, <1>4, <1>5 DEF OnceInOrder
<1>6. CASE r \notin ToSet(b)
  <2>1. /\ DOMAIN b2 = 1 .. Len(b) + 1 /\ b2[Len(b) + 1] = r
        /\ DOMAIN b = 1 .. Len(b)
        /\ \A k \in 1 .. Len(b) : b2[k] = b[k] /\ b[k] # r
    BY <1>6, <1>1 DEF ToSet
  <2>2. ToSet(b2) = ToSet(b) \cup {r}
    BY <2>1 DEF ToSet
  <2>3. IsInjective(b2)
    BY <2>1 DEF OnceInOrder, IsInjective
  <2>4. ASSUME NEW i \in DOMAIN b2, NEW j \in DOMAIN b2, i < j
        PROVE  \E k \in DOMAIN s2 : s2[k] = b2[i] /\ \A l \in 1 .. k : s2[l] # b2[j]
    <3>1. CASE j \in DOMAIN b
      BY <1>4, <2>1, <2>4, <3>1
    <3>2. CASE j = Len(b) + 1
      <4>1. i \in DOMAIN b /\ b2[i] = b[i] /\ b2[j] = r
        BY <2>1, <2>4, <3>2
      <4>2. b[i] \in ToSet(s)
        BY <4>1 DEF OnceInOrder, ToSet
      <4>3. PICK k \in 1 .. Len(s) : s[k] = b[i]
        BY <1>2, <4>2 DEF ToSet
      <4>4. r \notin ToSet(s)
        BY <1>6 DEF OnceInOrder
      <4>5. \A l \in 1 .. k : s2[l] # r
        BY <1>2, <4>4 DEF ToSet
      <4> QED
        BY <1>2, <4>1, <4>3, <4>5
    <3> QED
      BY <2>1, <3>1, <3>2
  <2>5. ToSet(b2) = ToSet(s2)
    BY <1>3, <2>2 DEF OnceInOrder
  <2> QED
    BY <1>6, <2>3, <2>4, <2>5 DEF OnceInOrder
<1> QED
  BY <1>5, <1>6

-----------------------------------------------------------------------------
(***************************************************************************)
(* The invariant                                                           *)
(***************************************************************************)
LEMMA UnwrittenFacts ==
  ASSUME TypeOK
  PROVE  /\ Unwritten \in Seq(Made) /\ Len(Unwritten) = Len(queue)
         /\ \A k \in 1 .. Len(queue) : queue[k] \in Queued /\ Unwritten[k] = write(queue[k])
         /\ queue = <<>> => Unwritten = <<>>
<1> queue \in Seq(Queued)
  BY DEF TypeOK, QueueOK
<1>1. \A k \in 1 .. Len(queue) : queue[k] \in Queued
  OBVIOUS
<1>2. \A k \in 1 .. Len(queue) : write(queue[k]) \in Made
  BY <1>1, WriteFacts
<1>3. Len(queue) \in Nat
  OBVIOUS
<1> QED
  BY <1>1, <1>2, <1>3 DEF Unwritten

\* A request is added to what is pending, or begins it anew.
LEMMA RequestFacts ==
  ASSUME IInv, pc = "policy", NEW c \in Seq(Scope), NEW parts \in Parts, Request(c, parts)
  PROVE  PendingRight' /\ Between' /\ EachShownOnce'
<1> DEFINE r == [scopes |-> c, parts |-> parts]
           d == through(c, parts)
           s == IF answer = "none" THEN since ELSE <<>>
<1>1. /\ TypeOK /\ d \in Queued /\ write(d) = r /\ r \in Made
      /\ queue \in Seq(Queued) /\ since \in Seq(Made)
  BY WriteThrough DEF IInv, Made, TypeOK, QueueOK
<1>2. /\ answer' = "none" /\ batch' = <<>>
      /\ since' = Append(s, r)
      /\ queue' = IF d \in ToSet(queue) THEN queue ELSE Append(queue, d)
  BY DEF IInv, Between, Request, record
<1> HIDE DEF r, d
<1>3. s \in Seq(Made) /\ OnceInOrder(Unwritten, s)
  <2>1. CASE answer = "none"
    <3>1. batch = <<>> /\ OnceInOrder(Pending, since)
      BY <2>1 DEF IInv, Between, PendingRight
    <3>2. Pending = Unwritten
      BY <1>1, <3>1, UnwrittenFacts, ConcatEmptySeq DEF Pending
    <3> QED
      BY <1>1, <2>1, <3>1, <3>2
  <2>2. CASE answer # "none"
    <3>1. Unwritten = <<>>
      BY <1>1, <2>2, UnwrittenFacts DEF IInv, Between
    <3> QED
      BY <2>2, <3>1, NothingOnce
  <2> QED
    BY <2>1, <2>2
<1> HIDE DEF s
<1>4. d \in ToSet(queue) <=> r \in ToSet(Unwritten)
  <2>1. DOMAIN queue = 1 .. Len(queue) /\ DOMAIN Unwritten = 1 .. Len(queue)
    BY <1>1 DEF Unwritten
  <2>2. \A k \in 1 .. Len(queue) : queue[k] = d <=> Unwritten[k] = r
    BY <1>1, UnwrittenFacts, WriteFacts
  <2> QED
    BY <2>1, <2>2 DEF ToSet
<1>5. Unwritten' = IF r \in ToSet(Unwritten) THEN Unwritten ELSE Append(Unwritten, r)
  <2>1. CASE d \in ToSet(queue)
    BY <1>2, <1>4, <2>1 DEF Unwritten
  <2>2. CASE d \notin ToSet(queue)
    <3>1. queue' = Append(queue, d)
      BY <1>2, <2>2
    <3>2. /\ Len(queue) \in Nat /\ Len(queue') = Len(queue) + 1
          /\ queue'[Len(queue) + 1] = d
          /\ \A k \in 1 .. Len(queue) : queue'[k] = queue[k]
      BY <1>1, <3>1
    <3>3. Unwritten' = [k \in 1 .. Len(queue) + 1 |-> write(queue'[k])]
      BY <3>2 DEF Unwritten, write
    <3>4. Unwritten \in Seq(Made) /\ Len(Unwritten) = Len(queue)
      BY <1>1, UnwrittenFacts
    <3>5. Append(Unwritten, r) \in Seq(Made) /\ Len(Append(Unwritten, r)) = Len(queue) + 1
          /\ Append(Unwritten, r)[Len(queue) + 1] = r
          /\ \A k \in 1 .. Len(queue) : Append(Unwritten, r)[k] = Unwritten[k]
      BY <1>1, <3>4, AppendProperties
    <3> DEFINE u == Append(Unwritten, r)
    <3> HIDE DEF u
    <3>6. \A k \in 1 .. Len(queue) + 1 : write(queue'[k]) = u[k]
      <4>1. \A k \in 1 .. Len(queue) : write(queue'[k]) = u[k]
        BY <1>1, <3>2, <3>5, UnwrittenFacts DEF u
      <4>2. write(queue'[Len(queue) + 1]) = u[Len(queue) + 1]
        BY <1>1, <3>2, <3>5 DEF u
      <4>3. \A k \in 1 .. Len(queue) + 1 : k \in 1 .. Len(queue) \/ k = Len(queue) + 1
        BY <3>2
      <4> QED
        BY <4>1, <4>2, <4>3
    <3>7. Unwritten' = Append(Unwritten, r)
      <4>1. u = [k \in 1 .. Len(queue) + 1 |-> u[k]]
        <5>1. u \in Seq(Made) /\ Len(u) = Len(queue) + 1
          BY <3>5 DEF u
        <5> QED
          BY <5>1
      <4> QED
        BY <3>3, <3>6, <4>1 DEF u
    <3> QED
      BY <1>4, <2>2, <3>7
  <2> QED
    BY <2>1, <2>2
<1>6. OnceInOrder(Unwritten', Append(s, r))
  <2>1. Unwritten \in Seq(Made)
    BY <1>1, UnwrittenFacts
  <2>2. OnceInOrder(IF r \in ToSet(Unwritten) THEN Unwritten ELSE Append(Unwritten, r),
                    Append(s, r))
    BY <1>1, <1>3, <2>1, AppendOnce
  <2> QED
    BY <1>5, <2>2
<1>7. Pending' = Unwritten'
  <2>1. Unwritten' \in Seq(Made)
    BY <1>1, <1>5, UnwrittenFacts, AppendProperties
  <2> QED
    BY <1>2, <2>1, ConcatEmptySeq DEF Pending
<1>8. PendingRight'
  BY <1>2, <1>6, <1>7 DEF PendingRight
<1> QED
  BY <1>2, <1>8 DEF Between, EachShownOnce

LEMMA PartFacts ==
  ASSUME NEW severity \in Severity, NEW m \in Text
  PROVE  /\ Part(severity, m) \in [severity : Severity, message : Text]
         /\ <<Part(severity, m)>> \in Parts
         /\ \A parts \in Parts : Append(parts, Part(severity, m)) \in Parts
<1>1. Part(severity, m) \in [severity : Severity, message : Text]
  BY DEF Part
<1> QED
  BY <1>1 DEF Parts

LEMMA InitIInv == Init => IInv
<1> SUFFICES ASSUME Init
             PROVE  IInv
  OBVIOUS
<1> DEFINE r == [scopes |-> <<>>, parts |-> NoControllers]
           d == through(<<>>, NoControllers)
<1>1. NoControllers \in Parts
  <2>1. "warning" \in Severity /\ "No controllers found." \in Text
    BY DEF Severity, Text
  <2> QED
    BY <2>1, PartFacts DEF NoControllers
<1>2. <<>> \in Seq(Scope)
  OBVIOUS
<1>3. d \in Queued /\ write(d) = r /\ r \in Made
  BY <1>1, <1>2, WriteThrough DEF Made
<1>4. /\ pc = "policy" /\ answer = "none" /\ batch = <<>>
      /\ \/ queue = <<>> /\ since = <<>>
         \/ queue = <<d>> /\ since = <<r>>
  BY DEF Init
<1> HIDE DEF r, d
<1>5. QueueOK
  <2>1. <<>> \in Seq(Queued) /\ <<d>> \in Seq(Queued)
    BY <1>3
  <2>2. <<>> \in Seq(Made) /\ <<r>> \in Seq(Made)
    BY <1>3
  <2> QED
    BY <1>4, <2>1, <2>2, Zenon DEF QueueOK
<1>6. HeldOK
  BY <1>2 DEF Init, HeldOK
<1>7. AnswerOK
  <2>1. can_continue \in BOOLEAN /\ success \in BOOLEAN
    BY DEF Init
  <2>2. caller \in Caller
    BY DEF Init, Caller
  <2> QED
    BY <1>4, <2>1, <2>2 DEF AnswerOK
<1>8. TypeOK
  BY <1>5, <1>6, <1>7 DEF TypeOK
<1>9. Pending = Unwritten
  BY <1>4, <1>8, UnwrittenFacts, ConcatEmptySeq DEF Pending
<1>10. OnceInOrder(Unwritten, since)
  <2>1. CASE queue = <<>> /\ since = <<>>
    BY <1>8, <2>1, UnwrittenFacts, NothingOnce
  <2>2. CASE queue = <<d>> /\ since = <<r>>
    <3>1. Unwritten = <<r>>
      BY <1>3, <2>2 DEF Unwritten
    <3> QED
      BY <2>2, <3>1 DEF OnceInOrder, IsInjective
  <2> QED
    BY <1>4, <2>1, <2>2
<1>11. PendingRight
  BY <1>9, <1>10 DEF PendingRight
<1> QED
  BY <1>4, <1>8, <1>11 DEF IInv, Between, Emitting, EachShownOnce

\* A call that changes only what the closure holds.
LEMMA SilentIInv ==
  ASSUME IInv, HeldOK',
         UNCHANGED <<queue, pc, caller, can_continue, success, since, batch, answer>>
  PROVE  IInv'
<1>1. Pending' = Pending
  BY DEF Pending, Unwritten
<1>2. QueueOK'
  BY DEF IInv, TypeOK, QueueOK
<1>3. AnswerOK'
  BY DEF IInv, TypeOK, AnswerOK
<1>4. PendingRight' /\ Between' /\ EachShownOnce'
  BY <1>1 DEF IInv, PendingRight, Between, EachShownOnce
<1>5. Emitting'
  BY DEF IInv, Emitting
<1> QED
  BY <1>2, <1>3, <1>4, <1>5 DEF IInv, TypeOK

LEMMA RequestIInv ==
  ASSUME IInv, pc = "policy", NEW c \in Seq(Scope), NEW parts \in Parts, Request(c, parts),
         HeldOK', UNCHANGED <<pc, caller, can_continue, success>>
  PROVE  IInv'
<1> DEFINE r == [scopes |-> c, parts |-> parts]
           d == through(c, parts)
<1>1. queue \in Seq(Queued) /\ since \in Seq(Made) /\ batch \in Seq(Made)
  BY DEF IInv, TypeOK, QueueOK
<1>2. d \in Queued /\ r \in Made
  BY WriteThrough DEF Made
<1>3. /\ queue' = queue \/ queue' = Append(queue, d)
      /\ since' = Append(since, r) \/ since' = Append(<<>>, r)
      /\ batch' = batch \/ batch' = <<>>
      /\ answer' = "none"
  BY DEF Request, record
<1> HIDE DEF r, d
<1>4. QueueOK'
  <2>1. Append(queue, d) \in Seq(Queued)
    BY <1>1, <1>2
  <2>2. Append(since, r) \in Seq(Made) /\ Append(<<>>, r) \in Seq(Made)
    BY <1>1, <1>2
  <2>3. <<>> \in Seq(Made)
    OBVIOUS
  <2> QED
    BY <1>1, <1>3, <2>1, <2>2, <2>3, Zenon DEF QueueOK
<1>5. AnswerOK'
  BY <1>3 DEF IInv, TypeOK, AnswerOK
<1>6. Emitting'
  BY DEF Emitting
<1> QED
  BY <1>4, <1>5, <1>6, RequestFacts DEF IInv, TypeOK

\* The calls of the closure, emissions apart.
Calling ==
  \/ \E c \in opened :
       \/ \E s \in Scope : Open(c, s)
       \/ \E severity \in Severity, m \in Message :
             \/ \E form \in {"plain", "span", "node"} : Say(c, severity, form, m)
             \/ Struct(c, severity, m)
  \/ \E b \in builder :
       \/ \E severity \in Severity, m \in Message : With(b, severity, m)
       \/ Emit(b) \/ Forget(b)

LEMMA CallIInv ==
  ASSUME IInv, Calling
  PROVE  IInv'
<1>1. /\ pc = "policy" /\ calls' \in Nat
      /\ opened \subseteq Seq(Scope)
      /\ builder \subseteq [base : Seq(Scope), parts : Parts]
  <2>1. Calls
    BY Zenon DEF Calling, Open, Say, Struct, With, Emit, Forget
  <2> QED
    BY <2>1 DEF IInv, TypeOK, HeldOK, Calls
<1>2. ASSUME NEW c \in opened, NEW s \in Scope, Open(c, s)
      PROVE  IInv'
  <2>1. c \in Seq(Scope) /\ opened' = opened \cup {Append(c, s)} /\ builder' = builder
    BY <1>1, <1>2 DEF Open
  <2>2. HeldOK'
    BY <1>1, <2>1 DEF HeldOK
  <2> QED
    BY <1>2, <2>2, SilentIInv DEF Open
<1>3. ASSUME NEW c \in opened, NEW severity \in Severity, NEW m \in Message,
             NEW form \in {"plain", "span", "node"}, Say(c, severity, form, m)
      PROVE  IInv'
  <2>1. c \in Seq(Scope)
    BY <1>1
  <2>2. shortcut_severity(severity, form) \in Severity /\ m \in Text
    BY DEF shortcut_severity, Severity, Text
  <2>3. HeldOK'
    BY <1>1, <1>3 DEF Say, HeldOK
  <2>4. <<Part(shortcut_severity(severity, form), m)>> \in Parts
    BY <2>2, PartFacts
  <2> QED
    BY <1>1, <1>3, <2>1, <2>3, <2>4, RequestIInv DEF Say
<1>4. ASSUME NEW c \in opened, NEW severity \in Severity, NEW m \in Message,
             Struct(c, severity, m)
      PROVE  IInv'
  <2>1. <<Part(severity, m)>> \in Parts
    BY PartFacts DEF Text
  <2>2. /\ c \in Seq(Scope) /\ opened' = opened
        /\ builder' = {[base |-> c, parts |-> <<Part(severity, m)>>]}
    BY <1>1, <1>4 DEF Struct
  <2>3. HeldOK'
    BY <1>1, <2>1, <2>2 DEF HeldOK
  <2> QED
    BY <1>4, <2>3, SilentIInv DEF Struct
<1>5. ASSUME NEW b \in builder, NEW severity \in Severity, NEW m \in Message,
             With(b, severity, m)
      PROVE  IInv'
  <2>1. b \in [base : Seq(Scope), parts : Parts]
    BY <1>1
  <2>2. Append(b.parts, Part(severity, m)) \in Parts
    BY <2>1, PartFacts DEF Text
  <2>3. /\ opened' = opened
        /\ builder' = {[b EXCEPT !.parts = Append(b.parts, Part(severity, m))]}
    BY <1>5 DEF With
  <2>4. HeldOK'
    BY <1>1, <2>1, <2>2, <2>3 DEF HeldOK
  <2> QED
    BY <1>5, <2>4, SilentIInv DEF With
<1>6. ASSUME NEW b \in builder, Emit(b)
      PROVE  IInv'
  <2>1. b.base \in Seq(Scope) /\ b.parts \in Parts
    BY <1>1
  <2>2. HeldOK'
    BY <1>1, <1>6 DEF Emit, HeldOK
  <2> QED
    BY <1>1, <1>6, <2>1, <2>2, RequestIInv DEF Emit
<1>7. ASSUME NEW b \in builder, Forget(b)
      PROVE  IInv'
  <2>1. HeldOK'
    BY <1>1, <1>7 DEF Forget, HeldOK
  <2> QED
    BY <1>7, <2>1, SilentIInv DEF Forget
<1> QED
  BY <1>2, <1>3, <1>4, <1>5, <1>6, <1>7 DEF Calling

-----------------------------------------------------------------------------
(***************************************************************************)
(* Emission                                                                *)
(***************************************************************************)
LEMMA StartIInv ==
  ASSUME IInv, NEW who \in Caller, Start(who), calls' \in Nat
  PROVE  IInv'
<1>1. /\ pc = "policy" /\ pc' = "emit" /\ caller' = who /\ can_continue' = TRUE
      /\ batch' = <<>> /\ answer' = "none"
      /\ since' = IF answer = "none" THEN since ELSE <<>>
      /\ UNCHANGED <<opened, builder, queue, success>>
  BY DEF Start
<1>2. QueueOK'
  <2>1. since \in Seq(Made) /\ queue \in Seq(Queued) /\ <<>> \in Seq(Made)
    BY DEF IInv, TypeOK, QueueOK
  <2> QED
    BY <1>1, <2>1, Zenon DEF QueueOK
<1>3. HeldOK'
  BY <1>1 DEF IInv, TypeOK, HeldOK
<1>4. AnswerOK'
  <2>1. can_continue' \in BOOLEAN /\ success' \in BOOLEAN
    BY <1>1 DEF IInv, TypeOK, AnswerOK
  <2>2. pc' \in {"policy", "emit", "returned", "failed", "exited"}
        /\ answer' \in {"none", "continue", "abort", "io error"}
    BY <1>1
  <2> QED
    BY <1>1, <2>1, <2>2 DEF AnswerOK
<1>5. Unwritten' = Unwritten
  BY <1>1 DEF Unwritten
<1>6. Pending' = Unwritten
  BY <1>1, <1>5, UnwrittenFacts, ConcatEmptySeq DEF Pending, IInv
<1>7. PendingRight'
  <2>1. CASE answer = "none"
    <3>1. batch = <<>>
      BY <1>1, <2>1 DEF IInv, Between
    <3>2. Pending = Unwritten
      BY <3>1, UnwrittenFacts, ConcatEmptySeq DEF Pending, IInv
    <3> QED
      BY <1>1, <1>6, <2>1, <3>2 DEF IInv, PendingRight
  <2>2. CASE answer # "none"
    <3>1. Unwritten = <<>> /\ since' = <<>>
      BY <1>1, <2>2, UnwrittenFacts DEF IInv, Between
    <3> QED
      BY <1>6, <3>1, NothingOnce DEF PendingRight
  <2> QED
    BY <2>1, <2>2
<1>8. Emitting'
  <2>1. \A k \in DOMAIN batch' : ~IsError(batch'[k])
    BY <1>1
  <2> QED
    BY <1>1, <2>1 DEF Emitting, IsError
<1>9. Between' /\ EachShownOnce'
  BY <1>1 DEF Between, EachShownOnce
<1> QED
  BY <1>2, <1>3, <1>4, <1>7, <1>8, <1>9 DEF IInv, TypeOK

\* A message goes from what is not written to what is.
LEMMA PassOn ==
  ASSUME NEW T, NEW b \in Seq(T), NEW u \in Seq(T), u # <<>>
  PROVE  /\ Head(u) \in T /\ Tail(u) \in Seq(T)
         /\ Append(b, Head(u)) \o Tail(u) = b \o u
<1>1. Head(u) \in T /\ Tail(u) \in Seq(T) /\ <<Head(u)>> \in Seq(T)
  OBVIOUS
<1>2. <<Head(u)>> \o Tail(u) = u
  OBVIOUS
<1>3. Append(b, Head(u)) = b \o <<Head(u)>>
  BY <1>1, AppendIsConcat
<1>4. (b \o <<Head(u)>>) \o Tail(u) = b \o (<<Head(u)>> \o Tail(u))
  BY <1>1, ConcatAssociative
<1> QED
  BY <1>1, <1>2, <1>3, <1>4

LEMMA WriteOneIInv ==
  ASSUME IInv, WriteOne
  PROVE  IInv'
<1> DEFINE w == write(Head(queue))
<1>1. /\ pc = "emit" /\ queue # <<>> /\ answer = "none"
      /\ batch' = Append(batch, w) /\ queue' = Tail(queue)
      /\ can_continue' = (can_continue /\ ~aborts(Head(queue)))
      /\ UNCHANGED <<opened, builder, pc, caller, success, calls, since, answer>>
  BY DEF WriteOne, IInv, Emitting
<1>2. queue \in Seq(Queued) /\ batch \in Seq(Made) /\ since \in Seq(Made)
  BY DEF IInv, TypeOK, QueueOK
<1>3. Head(queue) \in Queued /\ Tail(queue) \in Seq(Queued) /\ Head(queue) = queue[1]
  BY <1>1, <1>2
<1>4. w \in Made /\ (IsError(w) <=> aborts(Head(queue)))
  BY <1>3, WriteFacts
<1>5. /\ Unwritten \in Seq(Made) /\ Unwritten # <<>>
      /\ Len(Unwritten) = Len(queue) /\ Len(queue) > 0
      /\ Head(Unwritten) = w
  <2>1. Unwritten \in Seq(Made) /\ Len(Unwritten) = Len(queue) /\ Len(queue) > 0
    BY <1>1, <1>2, UnwrittenFacts DEF IInv
  <2>2. Unwritten[1] = w
    BY <1>2, <1>3, <2>1, UnwrittenFacts DEF IInv
  <2> QED
    BY <2>1, <2>2
<1>6. Unwritten' = Tail(Unwritten)
  <2>1. /\ Len(queue') = Len(queue) - 1
        /\ \A k \in 1 .. Len(queue) - 1 : queue'[k] = queue[k + 1]
    BY <1>1, <1>2, HeadTailProperties
  <2>2. Unwritten' = [k \in 1 .. Len(queue) - 1 |-> write(queue'[k])]
    BY <2>1 DEF Unwritten, write
  <2>3. Tail(Unwritten) = [k \in 1 .. Len(queue) - 1 |-> Unwritten[k + 1]]
    <3> DEFINE t == Tail(Unwritten)
    <3>1. /\ t \in Seq(Made) /\ Len(t) = Len(queue) - 1
          /\ \A k \in 1 .. Len(queue) - 1 : t[k] = Unwritten[k + 1]
      BY <1>5, HeadTailProperties
    <3> HIDE DEF t
    <3>2. t = [k \in 1 .. Len(queue) - 1 |-> t[k]]
      BY <3>1
    <3>3. t = [k \in 1 .. Len(queue) - 1 |-> Unwritten[k + 1]]
      BY <3>1, <3>2
    <3> QED
      BY <3>3 DEF t
  <2>4. \A k \in 1 .. Len(queue) - 1 : Unwritten[k + 1] = write(queue'[k])
    BY <1>2, <2>1, UnwrittenFacts DEF IInv
  <2> QED
    BY <2>2, <2>3, <2>4
<1> HIDE DEF w
<1>7. Pending' = Pending
  BY <1>1, <1>2, <1>5, <1>6, PassOn DEF Pending
<1>8. QueueOK'
  BY <1>1, <1>2, <1>3, <1>4, AppendProperties, Zenon DEF QueueOK
<1>9. HeldOK'
  BY <1>1 DEF IInv, TypeOK, HeldOK
<1>10. AnswerOK'
  <2>1. can_continue' \in BOOLEAN
    BY <1>1
  <2> QED
    BY <1>1, <2>1 DEF IInv, TypeOK, AnswerOK
<1>11. Emitting'
  <2>1. /\ DOMAIN batch' = 1 .. Len(batch) + 1 /\ DOMAIN batch = 1 .. Len(batch)
        /\ batch'[Len(batch) + 1] = w
        /\ \A k \in 1 .. Len(batch) : batch'[k] = batch[k]
    BY <1>1, <1>2, <1>4
  <2>2. can_continue <=> \A k \in 1 .. Len(batch) : ~IsError(batch[k])
    BY <1>1, <2>1 DEF IInv, Emitting
  <2>3. (\A k \in 1 .. Len(batch) + 1 : ~IsError(batch'[k]))
          <=> (\A k \in 1 .. Len(batch) : ~IsError(batch[k])) /\ ~IsError(w)
    <3>1. Len(batch) \in Nat
      BY <1>2
    <3>2. \A k : k \in 1 .. Len(batch) + 1 <=> k \in 1 .. Len(batch) \/ k = Len(batch) + 1
      BY <3>1
    <3> QED
      BY <2>1, <3>2, Zenon
  <2>4. can_continue' <=> can_continue /\ ~IsError(w)
    BY <1>1, <1>4
  <2>5. can_continue' <=> \A k \in DOMAIN batch' : ~IsError(batch'[k])
    BY <2>1, <2>2, <2>3, <2>4
  <2> QED
    BY <1>1, <2>5 DEF Emitting, IsError
<1>12. PendingRight' /\ Between' /\ EachShownOnce'
  BY <1>1, <1>7 DEF IInv, PendingRight, Between, EachShownOnce
<1> QED
  BY <1>8, <1>9, <1>10, <1>11, <1>12 DEF IInv, TypeOK

LEMMA WriteFailsIInv ==
  ASSUME IInv, WriteFails
  PROVE  IInv'
<1>1. /\ queue' = <<>> /\ answer' = "io error"
      /\ pc' \in {"failed", "policy"}
      /\ UNCHANGED <<opened, builder, caller, can_continue, success, calls, since, batch>>
  BY DEF WriteFails
<1>2. QueueOK'
  <2>1. <<>> \in Seq(Queued)
    OBVIOUS
  <2> QED
    BY <1>1, <2>1, Zenon DEF IInv, TypeOK, QueueOK
<1>3. HeldOK'
  BY <1>1 DEF IInv, TypeOK, HeldOK
<1>4. AnswerOK'
  <2>1. can_continue' \in BOOLEAN /\ success' \in BOOLEAN
    BY <1>1 DEF IInv, TypeOK, AnswerOK
  <2>2. pc' \in {"policy", "emit", "returned", "failed", "exited"}
        /\ answer' \in {"none", "continue", "abort", "io error"}
    BY <1>1
  <2> QED
    BY <1>1, <2>1, <2>2 DEF IInv, TypeOK, AnswerOK
<1>5. PendingRight' /\ Between' /\ EachShownOnce'
  BY <1>1 DEF PendingRight, Between, EachShownOnce
<1>6. Emitting'
  BY <1>1 DEF Emitting
<1> QED
  BY <1>2, <1>3, <1>4, <1>5, <1>6 DEF IInv, TypeOK

\* When the queue is drained everything asked for is written, and an error
\* was among it exactly if the emission could not continue.
LEMMA Drained ==
  ASSUME IInv, pc = "emit", queue = <<>>
  PROVE  /\ OnceInOrder(batch, since)
         /\ can_continue <=> ~(\E i \in DOMAIN since : IsError(since[i]))
<1>1. OnceInOrder(Pending, since)
  BY DEF IInv, PendingRight, Emitting
<1>2. Pending = batch
  <2>1. batch \in Seq(Made) /\ Unwritten = <<>>
    BY UnwrittenFacts DEF IInv, TypeOK, QueueOK
  <2> QED
    BY <2>1, ConcatEmptySeq DEF Pending
<1>3. ToSet(batch) = ToSet(since)
  BY <1>1, <1>2 DEF OnceInOrder
<1>4. (\E i \in DOMAIN since : IsError(since[i])) <=> (\E k \in DOMAIN batch : IsError(batch[k]))
  <2>1. (\E i \in DOMAIN since : IsError(since[i])) <=> (\E r \in ToSet(since) : IsError(r))
    BY Zenon DEF ToSet
  <2>2. (\E k \in DOMAIN batch : IsError(batch[k])) <=> (\E r \in ToSet(batch) : IsError(r))
    BY Zenon DEF ToSet
  <2> QED
    BY <1>3, <2>1, <2>2
<1>5. can_continue <=> \A k \in DOMAIN batch : ~IsError(batch[k])
  BY DEF IInv, Emitting
<1> QED
  BY <1>1, <1>2, <1>4, <1>5

LEMMA AnswerIInv ==
  ASSUME IInv, Answer
  PROVE  IInv'
<1>1. /\ pc = "emit" /\ queue = <<>>
      /\ answer' \in {"continue", "abort"}
      /\ pc' \in {"returned", "exited", "policy"}
      /\ success' = can_continue \/ success' = success
      /\ UNCHANGED <<opened, builder, queue, caller, can_continue, calls, since, batch>>
  BY DEF Answer
<1>2. QueueOK'
  BY <1>1 DEF IInv, TypeOK, QueueOK
<1>3. HeldOK'
  BY <1>1 DEF IInv, TypeOK, HeldOK
<1>4. AnswerOK'
  <2>1. can_continue' \in BOOLEAN /\ success' \in BOOLEAN
    BY <1>1, Zenon DEF IInv, TypeOK, AnswerOK
  <2>2. pc' \in {"policy", "emit", "returned", "failed", "exited"}
        /\ answer' \in {"none", "continue", "abort", "io error"}
    BY <1>1
  <2> QED
    BY <1>1, <2>1, <2>2 DEF IInv, TypeOK, AnswerOK
<1>5. EachShownOnce'
  BY <1>1, Drained DEF EachShownOnce
<1>6. PendingRight' /\ Between' /\ Emitting'
  BY <1>1 DEF PendingRight, Between, Emitting
<1> QED
  BY <1>2, <1>3, <1>4, <1>5, <1>6 DEF IInv, TypeOK

LEMMA ReturnErrIInv ==
  ASSUME IInv, ReturnErr
  PROVE  IInv'
<1>1. /\ pc' = "failed"
      /\ UNCHANGED <<opened, builder, queue, caller, can_continue, success, calls,
                     since, batch, answer>>
  BY DEF ReturnErr
<1>2. QueueOK'
  BY <1>1 DEF IInv, TypeOK, QueueOK
<1>3. HeldOK'
  BY <1>1 DEF IInv, TypeOK, HeldOK
<1>4. AnswerOK'
  <2>1. can_continue' \in BOOLEAN /\ success' \in BOOLEAN
    BY <1>1, Zenon DEF IInv, TypeOK, AnswerOK
  <2>2. pc' \in {"policy", "emit", "returned", "failed", "exited"}
    BY <1>1
  <2> QED
    BY <1>1, <2>1, <2>2 DEF IInv, TypeOK, AnswerOK
<1>5. Pending' = Pending
  BY <1>1 DEF Pending, Unwritten
<1>6. PendingRight' /\ Between' /\ Emitting' /\ EachShownOnce'
  BY <1>1, <1>5 DEF IInv, PendingRight, Between, Emitting, EachShownOnce
<1> QED
  BY <1>2, <1>3, <1>4, <1>6 DEF IInv, TypeOK

LEMMA NextIInv == IInv /\ [Next]_vars => IInv'
<1> SUFFICES ASSUME IInv, [Next]_vars
             PROVE  IInv'
  OBVIOUS
<1>1. CASE Calling
  BY <1>1, CallIInv
<1>2. ASSUME NEW who \in Caller, EmitDiagnostics(who)
      PROVE  IInv'
  <2>1. calls' \in Nat
    BY <1>2 DEF EmitDiagnostics, IInv, TypeOK, HeldOK
  <2> QED
    BY <1>2, <2>1, StartIInv DEF EmitDiagnostics
<1>3. CASE ReturnOk
  <2>1. calls' \in Nat /\ "with_context" \in Caller
    BY <1>3 DEF ReturnOk, IInv, TypeOK, HeldOK, Caller
  <2> QED
    BY <1>3, <2>1, StartIInv DEF ReturnOk
<1>4. CASE ReturnErr
  BY <1>4, ReturnErrIInv
<1>5. CASE WriteOne
  BY <1>5, WriteOneIInv
<1>6. CASE WriteFails
  BY <1>6, WriteFailsIInv
<1>7. CASE Answer
  BY <1>7, AnswerIInv
<1>8. CASE UNCHANGED vars
  <2>1. HeldOK'
    BY <1>8 DEF vars, IInv, TypeOK, HeldOK
  <2> QED
    BY <1>8, <2>1, SilentIInv DEF vars
<1>9. Closure => Calling \/ (\E who \in Caller : EmitDiagnostics(who)) \/ ReturnOk \/ ReturnErr
  BY DEF Closure, Calling
<1> QED
  BY <1>1, <1>2, <1>3, <1>4, <1>5, <1>6, <1>7, <1>8, <1>9 DEF Next, Emission

LEMMA AlwaysIInv == Spec => []IInv
  BY InitIInv, NextIInv, PTL DEF Spec

-----------------------------------------------------------------------------
(***************************************************************************)
(* The verdict                                                             *)
(***************************************************************************)

\* What PolicyVerdict's variables stand for.
Failed == \E i \in DOMAIN since : IsError(since[i])

Outcome == CASE pc = "returned" -> IF success THEN "success" ELSE "failure"
             [] pc = "failed" -> "error"
             [] pc = "exited" -> "exited"
             [] OTHER -> "none"

LEMMA AppendFails ==
  ASSUME NEW T, NEW s \in Seq(T), NEW r \in T
  PROVE  (\E i \in DOMAIN Append(s, r) : IsError(Append(s, r)[i]))
           <=> IsError(r) \/ (\E i \in DOMAIN s : IsError(s[i]))
<1> DEFINE a == Append(s, r)
<1>1. /\ DOMAIN a = 1 .. Len(s) + 1 /\ DOMAIN s = 1 .. Len(s) /\ Len(s) \in Nat
      /\ a[Len(s) + 1] = r
      /\ \A k \in 1 .. Len(s) : a[k] = s[k]
  OBVIOUS
<1> HIDE DEF a
<1>2. \A k : k \in 1 .. Len(s) + 1 <=> k \in 1 .. Len(s) \/ k = Len(s) + 1
  BY <1>1
<1>3. (\E i \in DOMAIN a : IsError(a[i])) <=> IsError(r) \/ (\E i \in DOMAIN s : IsError(s[i]))
  BY <1>1, <1>2, Zenon
<1> QED
  BY <1>3 DEF a

\* What the steps of PolicyRun change of what PolicyVerdict sees.
LEMMA OutcomeFacts ==
  /\ pc \in {"policy", "emit"} => Outcome = "none"
  /\ pc = "failed" => Outcome = "error"
  /\ pc = "exited" => Outcome = "exited"
  /\ pc = "returned" => Outcome = IF success THEN "success" ELSE "failure"
BY DEF Outcome

LEMMA InitVerdict == Init => Verdict!Init
<1> SUFFICES ASSUME Init
             PROVE  Verdict!Init
  OBVIOUS
<1>1. ~Failed
  <2>1. ~IsError([scopes |-> <<>>, parts |-> NoControllers])
    <3> DEFINE p == Part("warning", "No controllers found.")
    <3>1. p.severity # "error"
      BY DEF Part
    <3> HIDE DEF p
    <3>2. \A i \in DOMAIN <<p>> : <<p>>[i] = p
      OBVIOUS
    <3>3. \A i \in DOMAIN NoControllers : NoControllers[i].severity # "error"
      BY <3>1, <3>2 DEF NoControllers, p
    <3> QED
      BY <3>3 DEF IsError, must_abort
  <2> QED
    BY <2>1 DEF Init, Failed
<1>2. Outcome = "none" /\ answer = "none"
  BY OutcomeFacts DEF Init
<1> QED
  BY <1>1, <1>2 DEF Verdict!Init, Failed, Outcome

\* A request is one of PolicyVerdict's Record.
LEMMA RequestVerdict ==
  ASSUME IInv, pc = "policy", UNCHANGED <<pc, success>>,
         NEW c \in Seq(Scope), NEW parts \in Parts, Request(c, parts)
  PROVE  Verdict!Next
<1> DEFINE r == [scopes |-> c, parts |-> parts]
           s == IF answer = "none" THEN since ELSE <<>>
<1>1. s \in Seq(Made) /\ r \in Made /\ since' = Append(s, r) /\ answer' = "none"
  BY DEF Request, Made, IInv, TypeOK, QueueOK
<1>2. Outcome = "none" /\ Outcome' = Outcome
  BY DEF Outcome
<1>3. (\E i \in DOMAIN s : IsError(s[i])) <=> (answer = "none" /\ Failed)
  BY DEF Failed
<1> HIDE DEF r, s
<1>4. Failed' <=> IsError(r) \/ (answer = "none" /\ Failed)
  <2>1. Failed' <=> \E i \in DOMAIN Append(s, r) : IsError(Append(s, r)[i])
    BY <1>1, Zenon DEF Failed, IsError
  <2> QED
    BY <1>1, <1>3, <2>1, AppendFails
<1>5. IsError(r) \in BOOLEAN
  BY DEF IsError
<1>6. Verdict!Record(IsError(r))
  BY <1>1, <1>2, <1>4 DEF Verdict!Record, Failed, Outcome
<1> QED
  BY <1>5, <1>6 DEF Verdict!Next

LEMMA StartVerdict ==
  ASSUME IInv, NEW who, Start(who)
  PROVE  [Verdict!Next]_Verdict!vars
<1>1. /\ pc = "policy" /\ pc' = "emit" /\ success' = success
      /\ since' = IF answer = "none" THEN since ELSE <<>>
      /\ answer' = "none"
  BY DEF Start
<1>2. Outcome = "none" /\ Outcome' = "none"
  BY <1>1 DEF Outcome
<1>3. CASE answer = "none"
  BY <1>1, <1>2, <1>3 DEF Verdict!vars, Outcome
<1>4. CASE answer # "none"
  <2>1. ~Failed'
    BY <1>1, <1>4 DEF Failed
  <2>2. Verdict!Record(FALSE)
    BY <1>1, <1>2, <1>4, <2>1 DEF Verdict!Record, Failed, Outcome
  <2> QED
    BY <2>2 DEF Verdict!Next
<1> QED
  BY <1>3, <1>4

LEMMA EmissionVerdict ==
  ASSUME IInv, Emission
  PROVE  [Verdict!Next]_Verdict!vars
<1>1. /\ pc = "emit" /\ answer = "none" /\ since' = since /\ Failed' = Failed
  BY DEF Emission, WriteOne, WriteFails, Answer, IInv, Emitting, Failed, IsError
<1>2. Outcome = "none"
  BY <1>1, OutcomeFacts
<1>3. CASE WriteOne
  BY <1>1, <1>3 DEF WriteOne, Verdict!vars, IsError
<1>4. CASE WriteFails
  <2>1. answer' = "io error" /\ pc' \in {"failed", "policy"}
    BY <1>4 DEF WriteFails
  <2>2. Outcome' \in {"none", "error"}
    BY <2>1 DEF Outcome
  <2>3. Verdict!Break
    BY <1>1, <1>2, <2>1, <2>2 DEF Verdict!Break, Failed, Outcome
  <2> QED
    BY <2>3 DEF Verdict!Next
<1>5. CASE Answer
  <2>1. can_continue <=> ~Failed
    BY <1>5, Drained DEF Answer, Failed
  <2>2. answer' = IF Failed THEN "abort" ELSE "continue"
    BY <1>5, <2>1 DEF Answer
  <2>3. Outcome' \in {"none"} \cup IF Failed THEN {"failure", "exited"} ELSE {"success"}
    <3>1. \/ pc' = "returned" /\ success' = can_continue
          \/ pc' = "exited" /\ ~can_continue
          \/ pc' = "policy"
      BY <1>5 DEF Answer
    <3>2. CASE pc' = "returned" /\ success' = can_continue
      BY <2>1, <3>2 DEF Outcome
    <3>3. CASE pc' = "exited" /\ ~can_continue
      BY <2>1, <3>3 DEF Outcome
    <3>4. CASE pc' = "policy"
      BY <3>4 DEF Outcome
    <3> QED
      BY <3>1, <3>2, <3>3, <3>4
  <2>4. Verdict!Emit
    BY <1>1, <1>2, <2>2, <2>3 DEF Verdict!Emit, Failed, Outcome
  <2> QED
    BY <2>4 DEF Verdict!Next
<1> QED
  BY <1>3, <1>4, <1>5 DEF Emission

LEMMA NextVerdict == IInv /\ [Next]_vars => [Verdict!Next]_Verdict!vars
<1> SUFFICES ASSUME IInv, [Next]_vars
             PROVE  [Verdict!Next]_Verdict!vars
  OBVIOUS
<1>1. ASSUME UNCHANGED <<since, answer, pc, success>>
      PROVE  UNCHANGED Verdict!vars
  BY <1>1 DEF Verdict!vars, IsError
<1>2. CASE Calling
  <2>1. ASSUME NEW c \in opened, NEW s \in Scope, Open(c, s)
        PROVE  UNCHANGED <<since, answer, pc, success>>
    BY <2>1 DEF Open
  <2>2. ASSUME NEW c \in opened, NEW severity \in Severity, NEW m \in Message,
               NEW form \in {"plain", "span", "node"}, Say(c, severity, form, m)
        PROVE  Verdict!Next
    <3>1. c \in Seq(Scope)
      BY DEF IInv, TypeOK, HeldOK
    <3>2. shortcut_severity(severity, form) \in Severity /\ m \in Text
      BY DEF shortcut_severity, Severity, Text
    <3>3. <<Part(shortcut_severity(severity, form), m)>> \in Parts
      BY <3>2, PartFacts
    <3> QED
      BY <2>2, <3>1, <3>3, RequestVerdict DEF Say, Calls
  <2>3. ASSUME NEW c \in opened, NEW severity \in Severity, NEW m \in Message,
               Struct(c, severity, m)
        PROVE  UNCHANGED <<since, answer, pc, success>>
    BY <2>3 DEF Struct
  <2>4. ASSUME NEW b \in builder, NEW severity \in Severity, NEW m \in Message,
               With(b, severity, m)
        PROVE  UNCHANGED <<since, answer, pc, success>>
    BY <2>4 DEF With
  <2>5. ASSUME NEW b \in builder, Emit(b)
        PROVE  Verdict!Next
    <3>1. b.base \in Seq(Scope) /\ b.parts \in Parts
      BY DEF IInv, TypeOK, HeldOK
    <3> QED
      BY <2>5, <3>1, RequestVerdict DEF Emit, Calls
  <2>6. ASSUME NEW b \in builder, Forget(b)
        PROVE  UNCHANGED <<since, answer, pc, success>>
    BY <2>6 DEF Forget
  <2> QED
    BY <1>1, <1>2, <2>1, <2>2, <2>3, <2>4, <2>5, <2>6 DEF Calling
<1>3. CASE \E who \in Caller : EmitDiagnostics(who)
  BY <1>3, StartVerdict DEF EmitDiagnostics
<1>4. CASE ReturnOk
  BY <1>4, StartVerdict DEF ReturnOk
<1>5. CASE ReturnErr
  <2>1. /\ pc = "policy" /\ pc' = "failed"
        /\ UNCHANGED <<since, answer, success>>
    BY <1>5 DEF ReturnErr
  <2>2. Outcome = "none" /\ Outcome' = "error" /\ Failed' = Failed
    BY <2>1 DEF Outcome, Failed, IsError
  <2>3. Verdict!Break
    BY <2>1, <2>2 DEF Verdict!Break, Failed, Outcome
  <2> QED
    BY <2>3 DEF Verdict!Next
<1>6. CASE Emission
  BY <1>6, EmissionVerdict
<1>7. CASE UNCHANGED vars
  BY <1>1, <1>7 DEF vars
<1> QED
  BY <1>2, <1>3, <1>4, <1>5, <1>6, <1>7 DEF Next, Closure, Calling

-----------------------------------------------------------------------------
(***************************************************************************)
(* The theorems.                                                           *)
(***************************************************************************)

\* The variables have their types, requests with their scopes among them.
THEOREM Typing == Spec => []TypeOK
<1>1. IInv => TypeOK
  BY DEF IInv
<1> QED
  BY <1>1, AlwaysIInv, PTL

\* An emission that is completed has shown what was asked for since the one
\* before it, each message once, in the order of first asking and in its
\* scopes (DiagnosticsRecorder::emit, HasDiagnosticsBase::record).
THEOREM ShownOnce == Spec => []EachShownOnce
<1>1. IInv => EachShownOnce
  BY DEF IInv
<1> QED
  BY <1>1, AlwaysIInv, PTL

\* A run of a policy is a run of PolicyVerdict: an error is answered for by
\* the emission after it and no other, and with_context's own emission gives
\* the verdict.
THEOREM Refinement == Spec => Verdict!Spec
  BY AlwaysIInv, InitVerdict, NextVerdict, PTL DEF Spec, Verdict!Spec
=============================================================================
