------------------------ MODULE SessionFanout_proofs ------------------------
(***************************************************************************)
(* Proofs about SessionFanout, for any number of subscribers, messages and *)
(* subscriptions, and any size of the buffer and of the queues.            *)
(***************************************************************************)
EXTENDS SessionFanout, SequenceTheorems, FiniteSetTheorems, WellFoundedInduction, TLAPS

(***************************************************************************)
(* Lemmas about sequences, and about the first of some places.             *)
(***************************************************************************)

LEMMA LeastExists ==
  ASSUME NEW T, T \subseteq Nat, T # {}
  PROVE  \E x \in T : \A y \in T : x <= y
  <1>1. PICK x \in T : \A y \in Nat : <<y, x>> \in OpToRel(<, Nat) => y \notin T
    <2>1. IsWellFoundedOn(OpToRel(<, Nat), Nat)
      BY NatLessThanWellFounded
    <2>2. ASSUME NEW R, IsWellFoundedOn(R, Nat)
          PROVE  \E x \in T : \A y \in T : ~(<<y, x>> \in R)
      BY <2>2, WFMin
    <2> QED BY <2>1, <2>2
  <1>2. \A y \in Nat : y < x => <<y, x>> \in OpToRel(<, Nat)
    BY DEF OpToRel
  <1>3. \A y \in T : ~(y < x)
    BY <1>1, <1>2
  <1> QED BY <1>3

LEMMA FirstOfIsLeast ==
  ASSUME NEW T, T \subseteq Nat, T # {}
  PROVE  FirstOf(T) \in T /\ \A j \in T : FirstOf(T) <= j
  BY LeastExists DEF FirstOf

\* Removing one place leaves the others, in their order.
LEMMA RemoveAtProperties ==
  ASSUME NEW S, NEW s \in Seq(S), NEW p \in DOMAIN s
  PROVE  /\ RemoveAt(s, p) \in Seq(S)
         /\ Len(RemoveAt(s, p)) = Len(s) - 1
         /\ \A j \in 1 .. Len(s) - 1 : RemoveAt(s, p)[j] = IF j < p THEN s[j] ELSE s[j + 1]
  <1> DEFINE a == SubSeq(s, 1, p - 1)
             b == SubSeq(s, p + 1, Len(s))
  <1>1. /\ Len(s) \in Nat /\ DOMAIN s = 1 .. Len(s) /\ p \in Nat /\ p >= 1 /\ p <= Len(s)
        /\ \A i \in 1 .. Len(s) : s[i] \in S
    BY LenProperties, ElementOfSeq
  <1>2. a \in Seq(S) /\ Len(a) = p - 1 /\ \A i \in 1 .. p - 1 : a[i] = s[i]
    <2>1. \A i \in 1 .. p - 1 : s[i] \in S
      BY <1>1
    <2>2. /\ a \in Seq(S)
          /\ Len(a) = IF 1 <= p - 1 THEN p - 1 - 1 + 1 ELSE 0
          /\ \A i \in 1 .. p - 1 - 1 + 1 : a[i] = s[1 + i - 1]
      BY <1>1, <2>1, SubSeqProperties
    <2> QED BY <1>1, <2>2
  <1>3. b \in Seq(S) /\ Len(b) = Len(s) - p /\ \A i \in 1 .. Len(s) - p : b[i] = s[p + i]
    <2>1. \A i \in p + 1 .. Len(s) : s[i] \in S
      BY <1>1
    <2>2. /\ b \in Seq(S)
          /\ Len(b) = IF p + 1 <= Len(s) THEN Len(s) - (p + 1) + 1 ELSE 0
          /\ \A i \in 1 .. Len(s) - (p + 1) + 1 : b[i] = s[p + 1 + i - 1]
      BY <1>1, <2>1, SubSeqProperties
    <2> QED BY <1>1, <2>2
  <1>4. RemoveAt(s, p) = a \o b
    BY DEF RemoveAt
  <1> HIDE DEF a, b
  <1>5. /\ a \o b \in Seq(S)
        /\ Len(a \o b) = Len(a) + Len(b)
        /\ \A i \in 1 .. Len(a) + Len(b) : (a \o b)[i] = IF i <= Len(a) THEN a[i] ELSE b[i - Len(a)]
    BY <1>2, <1>3, ConcatProperties
  <1>6. Len(a \o b) = Len(s) - 1
    BY <1>1, <1>2, <1>3, <1>5
  <1>7. ASSUME NEW j \in 1 .. Len(s) - 1
        PROVE  (a \o b)[j] = IF j < p THEN s[j] ELSE s[j + 1]
    <2>1. CASE j < p
      BY <1>1, <1>2, <1>3, <1>5, <2>1
    <2>2. CASE ~(j < p)
      <3>1. j - Len(a) \in 1 .. Len(s) - p /\ p + (j - Len(a)) = j + 1
        BY <1>1, <1>2, <2>2
      <3>2. (a \o b)[j] = b[j - Len(a)]
        <4>1. j \in 1 .. Len(a) + Len(b) /\ ~(j <= Len(a))
          BY <1>1, <1>2, <1>3, <2>2
        <4> QED BY <1>5, <4>1
      <3> QED BY <1>3, <2>2, <3>1, <3>2
    <2> QED BY <2>1, <2>2
  <1> QED BY <1>4, <1>5, <1>6, <1>7

(***************************************************************************)
(* The inductive invariant.                                                *)
(***************************************************************************)

StreamSet(l) ==
  [open : BOOLEAN, registered : BOOLEAN, replay : Seq(DOMAIN l),
   queue : Seq(DOMAIN l \cup {Overflow}), last : 0 .. Len(l)]

\* What is in a queue comes after what its stream has had, in its order.
InOrder(st) ==
  /\ \A i \in DOMAIN st.queue : st.queue[i] > st.last
  /\ \A i, j \in DOMAIN st.queue : i < j => st.queue[i] < st.queue[j]

\* No critical message that the stream has not had is missing from its queue.
NoneMissing(st, l) ==
  \A n \in st.last + 1 .. Len(l) : l[n] \in CriticalTypes => \E i \in DOMAIN st.queue : st.queue[i] = n

\* A registered stream has its messages; one that is open and not registered
\* has only the signal that ends it.
StreamSound(st, l) ==
  /\ ~st.open => st = Closed
  /\ st.registered => st.open /\ InOrder(st) /\ NoneMissing(st, l)
  /\ st.open /\ ~st.registered => st.queue = <<Overflow>>

StreamsSound == \A s \in Subscribers : StreamSound(stream[s], log)

\* Once a critical message had to go, the buffer is full and, but for the last
\* place, without transient messages, until it is pruned.
BufferSound ==
  dropped =>
    /\ Len(buffer) = BufferMax
    /\ \A i \in 1 .. Len(buffer) - 1 : log[buffer[i]] \notin TransientTypes

IInv == TypeOK /\ StreamsSound /\ BufferSound

(***************************************************************************)
(* What a broadcast does to one stream.                                    *)
(***************************************************************************)

LEMMA ArrivesGrows ==
  ASSUME log \in Seq(Kinds), NEW kind \in Kinds, Arrives(kind)
  PROVE  /\ log' \in Seq(Kinds)
         /\ Len(log) \in Nat /\ Len(log') = Len(log) + 1
         /\ DOMAIN log = 1 .. Len(log) /\ DOMAIN log' = 1 .. Len(log')
         /\ \A n \in DOMAIN log : log'[n] = log[n]
  BY AppendProperties, LenProperties DEF Arrives

\* The message put at the end of a sound queue with room.
LEMMA AppendSound ==
  ASSUME log \in Seq(Kinds), NEW kind \in Kinds, Arrives(kind),
         NEW st \in StreamSet(log), st.registered, StreamSound(st, log),
         HasRoom(st.queue),
         NEW new, new = [st EXCEPT !.queue = Append(st.queue, Len(log'))]
  PROVE  /\ new \in StreamSet(log') /\ Len(new.queue) <= QueueMax
         /\ StreamSound(new, log')
         /\ new.open = st.open /\ new.last = st.last
  <1> DEFINE q == st.queue
             n == Len(log')
  <1>1. /\ log' \in Seq(Kinds)
        /\ Len(log) \in Nat /\ n = Len(log) + 1
        /\ DOMAIN log = 1 .. Len(log) /\ DOMAIN log' = 1 .. n
        /\ \A k \in DOMAIN log : log'[k] = log[k]
    BY ArrivesGrows
  <1>2. /\ q \in Seq(DOMAIN log \cup {Overflow}) /\ st.last \in 0 .. Len(log)
        /\ st.replay \in Seq(DOMAIN log) /\ st.open \in BOOLEAN /\ st.registered \in BOOLEAN
    BY DEF StreamSet
  <1>3. /\ Len(q) \in Nat /\ DOMAIN q = 1 .. Len(q)
        /\ \A i \in DOMAIN q : q[i] \in 1 .. Len(log)
    <2>1. Len(q) \in Nat /\ DOMAIN q = 1 .. Len(q) /\ \A i \in DOMAIN q : q[i] \in DOMAIN log \cup {Overflow}
      BY <1>2, LenProperties, ElementOfSeq
    <2>2. \A i \in DOMAIN q : q[i] > st.last
      BY DEF StreamSound, InOrder
    <2> QED BY <1>1, <1>2, <2>1, <2>2 DEF Overflow
  <1>4. /\ q \in Seq(DOMAIN log' \cup {Overflow}) /\ st.replay \in Seq(DOMAIN log')
        /\ n \in DOMAIN log' \cup {Overflow}
    BY <1>1, <1>2, SeqMonotonic
  <1> HIDE DEF q, n
  <1>5. /\ Append(q, n) \in Seq(DOMAIN log' \cup {Overflow})
        /\ Len(Append(q, n)) = Len(q) + 1
        /\ DOMAIN Append(q, n) = 1 .. Len(q) + 1
        /\ \A i \in 1 .. Len(q) : Append(q, n)[i] = q[i]
        /\ Append(q, n)[Len(q) + 1] = n
    BY <1>4, AppendProperties, LenProperties
  <1>6. /\ new.queue = Append(q, n) /\ new.open = st.open /\ new.last = st.last
        /\ new.registered = st.registered /\ new.replay = st.replay
        /\ new \in [open : BOOLEAN, registered : BOOLEAN, replay : Seq(DOMAIN log'),
                    queue : Seq(DOMAIN log' \cup {Overflow}), last : 0 .. n]
    <2>1. st.last \in 0 .. n
      BY <1>1, <1>2
    <2>2. new = [st EXCEPT !.queue = Append(q, n)]
      BY DEF q, n
    <2>3. st \in [open : BOOLEAN, registered : BOOLEAN, replay : Seq(DOMAIN log),
                   queue : Seq(DOMAIN log \cup {Overflow}), last : 0 .. Len(log)]
      BY DEF StreamSet
    <2> QED BY <1>2, <1>4, <1>5, <2>1, <2>2, <2>3
  <1>7. Len(new.queue) <= QueueMax
    BY <1>3, <1>5, <1>6, FanoutAssumption DEF HasRoom, q
  <1>8. st.open /\ InOrder(st) /\ NoneMissing(st, log)
    BY DEF StreamSound
  <1>9. InOrder(new)
    <2>1. \A i \in DOMAIN q : q[i] > st.last /\ q[i] < n
      BY <1>1, <1>3, <1>8 DEF InOrder, q
    <2>2. \A i, j \in DOMAIN q : i < j => q[i] < q[j]
      BY <1>8 DEF InOrder, q
    <2>3. n > st.last
      BY <1>1, <1>2
    <2>4. \A i \in DOMAIN Append(q, n) : i \in DOMAIN q \/ i = Len(q) + 1
      BY <1>3, <1>5
    <2>5. \A i \in DOMAIN Append(q, n) : Append(q, n)[i] > st.last
      BY <1>3, <1>5, <2>1, <2>3, <2>4
    <2>6. ASSUME NEW i \in DOMAIN Append(q, n), NEW j \in DOMAIN Append(q, n), i < j
          PROVE  Append(q, n)[i] < Append(q, n)[j]
      <3>1. i \in DOMAIN q
        BY <1>3, <1>5, <2>6
      <3> QED BY <1>3, <1>5, <2>1, <2>2, <2>4, <2>6, <3>1
    <2> QED BY <1>6, <2>5, <2>6 DEF InOrder
  <1>10. NoneMissing(new, log')
    <2>1. ASSUME NEW k \in st.last + 1 .. n, log'[k] \in CriticalTypes
          PROVE  \E i \in DOMAIN Append(q, n) : Append(q, n)[i] = k
      <3>1. CASE k = n
        <4>1. Len(q) + 1 \in DOMAIN Append(q, n)
          BY <1>3, <1>5
        <4> QED BY <1>5, <3>1, <4>1
      <3>2. CASE k # n
        <4>1. k \in st.last + 1 .. Len(log) /\ k \in DOMAIN log
          BY <1>1, <1>2, <3>2
        <4>2. log[k] \in CriticalTypes
          BY <1>1, <2>1, <4>1
        <4>3. PICK i \in DOMAIN q : q[i] = k
          BY <1>8, <4>1, <4>2 DEF NoneMissing, q
        <4> QED BY <1>3, <1>5, <4>3
      <3> QED BY <3>1, <3>2
    <2>2. new.last = st.last /\ new.queue = Append(q, n)
      BY <1>6
    <2>3. \A k \in new.last + 1 .. n : log'[k] \in CriticalTypes =>
            \E i \in DOMAIN new.queue : new.queue[i] = k
      BY <2>1, <2>2
    <2> QED BY <2>3 DEF NoneMissing, n
  <1> QED BY <1>6, <1>7, <1>8, <1>9, <1>10 DEF StreamSet, StreamSound, n

\* Making room keeps a queue sound: what goes is not critical.
LEMMA RoomSound ==
  ASSUME log \in Seq(Kinds), NEW kind \in Kinds, Arrives(kind),
         NEW st \in StreamSet(log), st.registered, StreamSound(st, log),
         NEW new, new = [st EXCEPT !.queue = WithoutNonCritical(st.queue)]
  PROVE  /\ new \in StreamSet(log)
         /\ StreamSound(new, log)
         /\ new.registered /\ new.open = st.open /\ new.last = st.last
  <1> DEFINE q == st.queue
             spare == {i \in DOMAIN q : ~IsCritical(q[i])}
             p == FirstOf(spare)
  <1>1. /\ Len(log) \in Nat /\ DOMAIN log = 1 .. Len(log)
        /\ \A k \in DOMAIN log : log'[k] = log[k]
    BY ArrivesGrows
  <1>2. /\ q \in Seq(DOMAIN log \cup {Overflow}) /\ st.last \in 0 .. Len(log)
    BY DEF StreamSet
  <1>3. Len(q) \in Nat /\ DOMAIN q = 1 .. Len(q)
    BY <1>2, LenProperties
  <1>4. WithoutNonCritical(q) = IF spare = {} THEN q ELSE RemoveAt(q, p)
    BY DEF WithoutNonCritical, Places
  <1>5. CASE spare = {}
    <2>1. new = st
      BY <1>4, <1>5 DEF StreamSet
    <2> QED BY <2>1
  <1>6. CASE spare # {}
    <2>1. p \in DOMAIN q /\ ~IsCritical(q[p])
      <3>1. spare \subseteq Nat
        BY <1>3
      <3>2. p \in spare
        <4> HIDE DEF spare
        <4> QED BY <1>6, <3>1, FirstOfIsLeast
      <3> QED BY <3>2
    <2> HIDE DEF spare, p, q
    <2> DEFINE r == RemoveAt(q, p)
    <2>2. /\ r \in Seq(DOMAIN log \cup {Overflow})
          /\ Len(r) = Len(q) - 1
          /\ \A j \in 1 .. Len(q) - 1 : r[j] = IF j < p THEN q[j] ELSE q[j + 1]
      BY <1>2, <2>1, RemoveAtProperties
    <2>3. DOMAIN r = 1 .. Len(q) - 1
      BY <2>2, LenProperties
    <2> HIDE DEF r
    <2>4. /\ new.queue = r /\ new.open = st.open /\ new.last = st.last
          /\ new.registered = st.registered /\ new \in StreamSet(log)
      BY <1>4, <1>6, <2>2 DEF StreamSet, q, r
    <2>5. st.open /\ InOrder(st) /\ NoneMissing(st, log)
      BY DEF StreamSound
    <2>6. InOrder(new)
      <3>1. /\ \A i \in DOMAIN q : q[i] > st.last
            /\ \A i, j \in DOMAIN q : i < j => q[i] < q[j]
        BY <2>5 DEF InOrder, q
      <3>2. \A i \in DOMAIN r : r[i] > st.last
        BY <1>3, <2>2, <2>3, <3>1
      <3>3. ASSUME NEW i \in DOMAIN r, NEW j \in DOMAIN r, i < j PROVE r[i] < r[j]
        <4>1. PICK a \in DOMAIN q, b \in DOMAIN q : a < b /\ r[i] = q[a] /\ r[j] = q[b]
          <5>1. /\ i \in DOMAIN q /\ i + 1 \in DOMAIN q
                /\ j \in DOMAIN q /\ j + 1 \in DOMAIN q
                /\ p \in Nat /\ i \in Nat /\ j \in Nat
            BY <1>3, <2>1, <2>3
          <5> QED BY <1>3, <2>2, <2>3, <3>3, <5>1
        <4> QED BY <3>1, <4>1
      <3> QED BY <2>4, <3>2, <3>3 DEF InOrder
    <2>7. NoneMissing(new, log)
      <3> SUFFICES ASSUME NEW k \in st.last + 1 .. Len(log), log[k] \in CriticalTypes
                   PROVE  \E i \in DOMAIN r : r[i] = k
        BY <2>4 DEF NoneMissing
      <3>1. PICK i \in DOMAIN q : q[i] = k
        BY <2>5 DEF NoneMissing, q
      <3>2. IsCritical(k)
        BY <1>1, <1>2 DEF IsCritical, Overflow
      <3>3. i # p
        BY <2>1, <3>1, <3>2
      <3>4. CASE i < p
        <4>1. i \in DOMAIN r /\ r[i] = q[i]
          BY <1>3, <2>1, <2>2, <2>3, <3>4
        <4> QED BY <3>1, <4>1
      <3>5. CASE i > p
        <4>1. i - 1 \in DOMAIN r /\ r[i - 1] = q[i - 1 + 1] /\ i - 1 + 1 = i
          BY <1>3, <2>1, <2>2, <2>3, <3>5
        <4> QED BY <3>1, <4>1
      <3> QED BY <1>3, <2>1, <3>3, <3>4, <3>5
    <2> QED BY <2>4, <2>5, <2>6, <2>7 DEF StreamSound
  <1> QED BY <1>5, <1>6

LEMMA CutOffSound ==
  ASSUME log \in Seq(Kinds), NEW kind \in Kinds, Arrives(kind),
         NEW st \in StreamSet(log), st.registered, StreamSound(st, log)
  PROVE  /\ CutOff(st) \in StreamSet(log') /\ Len(CutOff(st).queue) <= QueueMax
         /\ StreamSound(CutOff(st), log')
         /\ CutOff(st).open = st.open /\ CutOff(st).last = st.last
  <1>1. /\ Len(log) \in Nat /\ Len(log') = Len(log) + 1
        /\ DOMAIN log = 1 .. Len(log) /\ DOMAIN log' = 1 .. Len(log')
    BY ArrivesGrows
  <1>2. st.replay \in Seq(DOMAIN log') /\ st.last \in 0 .. Len(log')
    <2>1. st.replay \in Seq(DOMAIN log) /\ st.last \in 0 .. Len(log)
      BY DEF StreamSet
    <2> QED BY <1>1, <2>1, SeqMonotonic
  <1>3. <<Overflow>> \in Seq(DOMAIN log' \cup {Overflow}) /\ Len(<<Overflow>>) = 1
    OBVIOUS
  <1>4. st.open
    BY DEF StreamSound
  <1>5. /\ CutOff(st).queue = <<Overflow>> /\ CutOff(st).registered = FALSE
        /\ CutOff(st).open = st.open /\ CutOff(st).last = st.last
        /\ CutOff(st) \in StreamSet(log')
    BY <1>2, <1>3 DEF CutOff, StreamSet
  <1> QED BY <1>3, <1>4, <1>5, FanoutAssumption DEF StreamSound

\* A stream the broadcast is not offered to stays as it is.
LEMMA UnofferedSound ==
  ASSUME log \in Seq(Kinds), NEW kind \in Kinds, Arrives(kind),
         NEW st \in StreamSet(log), ~st.registered, StreamSound(st, log)
  PROVE  st \in StreamSet(log') /\ StreamSound(st, log')
  <1>1. /\ Len(log) \in Nat /\ Len(log') = Len(log) + 1
        /\ DOMAIN log = 1 .. Len(log) /\ DOMAIN log' = 1 .. Len(log')
    BY ArrivesGrows
  <1>2. /\ st.replay \in Seq(DOMAIN log') /\ st.last \in 0 .. Len(log')
        /\ st.queue \in Seq(DOMAIN log' \cup {Overflow})
    <2>1. /\ st.replay \in Seq(DOMAIN log) /\ st.last \in 0 .. Len(log)
          /\ st.queue \in Seq(DOMAIN log \cup {Overflow})
      BY DEF StreamSet
    <2> QED BY <1>1, <2>1, SeqMonotonic
  <1> QED BY <1>2 DEF StreamSet, StreamSound

LEMMA OfferedSound ==
  ASSUME log \in Seq(Kinds), NEW kind \in Kinds, Arrives(kind),
         NEW st \in StreamSet(log), Len(st.queue) <= QueueMax, st.registered, StreamSound(st, log)
  PROVE  /\ Offered(st, Len(log')) \in StreamSet(log')
         /\ Len(Offered(st, Len(log')).queue) <= QueueMax
         /\ StreamSound(Offered(st, Len(log')), log')
         /\ Offered(st, Len(log')).open = st.open
         /\ Offered(st, Len(log')).last = st.last
  <1> DEFINE n == Len(log')
             room == WithoutNonCritical(st.queue)
             roomy == [st EXCEPT !.queue = room]
  <1>1. CASE HasRoom(st.queue)
    <2>1. Offered(st, n) = [st EXCEPT !.queue = Append(st.queue, n)]
      BY <1>1 DEF Offered
    <2> QED BY <1>1, <2>1, AppendSound
  <1>2. CASE ~HasRoom(st.queue) /\ ~IsCritical(n)
    <2>1. Offered(st, n) = st
      BY <1>2 DEF Offered
    <2>2. /\ Len(log) \in Nat /\ n = Len(log) + 1
          /\ DOMAIN log = 1 .. Len(log) /\ DOMAIN log' = 1 .. n
          /\ \A k \in DOMAIN log : log'[k] = log[k]
      BY ArrivesGrows
    <2>3. log'[n] \notin CriticalTypes
      BY <1>2, <2>2 DEF IsCritical, Overflow
    <2>4. /\ st.replay \in Seq(DOMAIN log) /\ st.last \in 0 .. Len(log)
          /\ st.queue \in Seq(DOMAIN log \cup {Overflow})
      BY DEF StreamSet
    <2>5. st \in StreamSet(log')
      <3>1. /\ st.replay \in Seq(DOMAIN log') /\ st.last \in 0 .. Len(log')
            /\ st.queue \in Seq(DOMAIN log' \cup {Overflow})
        BY <2>2, <2>4, SeqMonotonic
      <3> QED BY <3>1 DEF StreamSet
    <2>6. NoneMissing(st, log')
      <3> SUFFICES ASSUME NEW k \in st.last + 1 .. n, log'[k] \in CriticalTypes
                   PROVE  \E i \in DOMAIN st.queue : st.queue[i] = k
        BY DEF NoneMissing
      <3>1. k \in st.last + 1 .. Len(log) /\ log[k] \in CriticalTypes
        BY <2>2, <2>3, <2>4
      <3> QED BY <3>1 DEF StreamSound, NoneMissing
    <2> QED BY <2>1, <2>5, <2>6 DEF StreamSound
  <1>3. CASE ~HasRoom(st.queue) /\ IsCritical(n) /\ HasRoom(room)
    <2>1. Offered(st, n) = [st EXCEPT !.queue = Append(room, n)]
      BY <1>3 DEF Offered
    <2>2. /\ roomy \in StreamSet(log) /\ StreamSound(roomy, log)
          /\ roomy.registered /\ roomy.open = st.open /\ roomy.last = st.last
      BY RoomSound
    <2>3. roomy.queue = room /\ Offered(st, n) = [roomy EXCEPT !.queue = Append(roomy.queue, n)]
      <3>1. DOMAIN st = {"open", "registered", "replay", "queue", "last"}
        BY DEF StreamSet
      <3> HIDE DEF room, n
      <3>2. roomy.queue = room
        BY <3>1
      <3> QED BY <2>1, <3>2
    <2> HIDE DEF roomy, room
    <2> QED BY <1>3, <2>2, <2>3, AppendSound
  <1>4. CASE ~HasRoom(st.queue) /\ IsCritical(n) /\ ~HasRoom(room)
    <2>1. Offered(st, n) = CutOff(st)
      BY <1>4 DEF Offered
    <2> QED BY <2>1, CutOffSound
  <1> QED BY <1>1, <1>2, <1>3, <1>4

LEMMA BroadcastSound ==
  ASSUME TypeOK, StreamsSound, NEW kind \in Kinds, Arrives(kind), Broadcast(Len(log'))
  PROVE  /\ stream' \in [Subscribers -> StreamSet(log')]
         /\ \A s \in Subscribers : Len(stream'[s].queue) <= QueueMax
         /\ StreamsSound'
         /\ \A s \in Subscribers : stream'[s].open = stream[s].open /\ stream'[s].last = stream[s].last
  <1> DEFINE new(s) == IF stream[s].registered THEN Offered(stream[s], Len(log')) ELSE stream[s]
  <1>1. ASSUME NEW s \in Subscribers
        PROVE  /\ new(s) \in StreamSet(log') /\ Len(new(s).queue) <= QueueMax
               /\ StreamSound(new(s), log')
               /\ new(s).open = stream[s].open /\ new(s).last = stream[s].last
    <2>1. /\ log \in Seq(Kinds) /\ stream[s] \in StreamSet(log)
          /\ Len(stream[s].queue) <= QueueMax /\ StreamSound(stream[s], log)
      BY DEF TypeOK, StreamsSound, StreamSet
    <2>2. CASE stream[s].registered
      BY <2>1, <2>2, OfferedSound
    <2>3. CASE ~stream[s].registered
      BY <2>1, <2>3, UnofferedSound
    <2> QED BY <2>2, <2>3
  <1>2. stream' = [s \in Subscribers |-> new(s)]
    BY DEF Broadcast
  <1> HIDE DEF new
  <1> QED BY <1>1, <1>2 DEF StreamsSound

(***************************************************************************)
(* What the steps do to the buffer.                                        *)
(***************************************************************************)

LEMMA EvicteeTransient ==
  ASSUME NEW long \in Seq(DOMAIN log'), Len(long) > 1
  PROVE  /\ EvicteePlace(long) \in 1 .. Len(long) - 1
         /\ \/ EvicteePlace(long) = 1
               /\ \A i \in 1 .. Len(long) - 1 : log'[long[i]] \notin TransientTypes
            \/ log'[long[EvicteePlace(long)]] \in TransientTypes
  <1> DEFINE transient == {i \in DOMAIN Front(long) : log'[Front(long)[i]] \in TransientTypes}
  <1>1. Len(long) \in Nat /\ \A i \in 1 .. Len(long) : long[i] \in DOMAIN log'
    BY LenProperties, ElementOfSeq
  <1>2. DOMAIN Front(long) = 1 .. Len(long) - 1 /\ \A i \in 1 .. Len(long) - 1 : Front(long)[i] = long[i]
    <2>1. /\ SubSeq(long, 1, Len(long) - 1) \in Seq(DOMAIN log')
          /\ Len(SubSeq(long, 1, Len(long) - 1)) = Len(long) - 1
          /\ \A i \in 1 .. Len(long) - 1 : SubSeq(long, 1, Len(long) - 1)[i] = long[i]
      BY <1>1, SubSeqProperties
    <2> QED BY <2>1, LenProperties DEF Front
  <1>3. EvicteePlace(long) = IF transient = {} THEN 1 ELSE FirstOf(transient)
    BY DEF EvicteePlace, Places
  <1>4. CASE transient = {}
    BY <1>1, <1>2, <1>3, <1>4
  <1>5. CASE transient # {}
    <2>1. transient \subseteq Nat
      BY <1>2
    <2>2. FirstOf(transient) \in transient
      <3> HIDE DEF transient
      <3> QED BY <1>5, <2>1, FirstOfIsLeast
    <2> QED BY <1>2, <1>3, <1>5, <2>2
  <1> QED BY <1>4, <1>5

\* Only a buffer without transient messages but for the last loses a critical
\* one; and it stays so until the turn ends, because it stays full.
LEMMA BufferedSound ==
  ASSUME TypeOK, BufferSound, NEW kind \in Kinds, Arrives(kind), Buffered(Len(log'))
  PROVE  /\ buffer' \in Seq(DOMAIN log') /\ Len(buffer') <= BufferMax
         /\ dropped' \in BOOLEAN
         /\ BufferSound'
  <1> DEFINE n == Len(log')
             long == Append(buffer, n)
             place == EvicteePlace(long)
  <1>1. /\ Len(log) \in Nat /\ n = Len(log) + 1
        /\ DOMAIN log = 1 .. Len(log) /\ DOMAIN log' = 1 .. n
        /\ \A k \in DOMAIN log : log'[k] = log[k]
    BY ArrivesGrows DEF TypeOK
  <1>2. buffer \in Seq(DOMAIN log) /\ buffer \in Seq(DOMAIN log') /\ Len(buffer) <= BufferMax
    BY <1>1, SeqMonotonic DEF TypeOK
  <1>3. /\ Len(buffer) \in Nat
        /\ \A i \in 1 .. Len(buffer) : buffer[i] \in DOMAIN log /\ log'[buffer[i]] = log[buffer[i]]
    BY <1>1, <1>2, LenProperties, ElementOfSeq
  <1>4. n \in DOMAIN log'
    BY <1>1
  <1>5. /\ long \in Seq(DOMAIN log') /\ Len(long) = Len(buffer) + 1
        /\ DOMAIN long = 1 .. Len(buffer) + 1
        /\ \A i \in 1 .. Len(buffer) : long[i] = buffer[i]
        /\ long[Len(buffer) + 1] = n
    <2> HIDE DEF n
    <2> QED BY <1>2, <1>4, AppendProperties, LenProperties
  <1>6. CASE Len(long) <= BufferMax
    <2>1. buffer' = long /\ dropped' = dropped
      BY <1>6 DEF Buffered
    <2>2. ~dropped
      BY <1>3, <1>5, <1>6 DEF BufferSound
    <2>3. BufferSound' /\ dropped' \in BOOLEAN
      BY <2>1, <2>2 DEF BufferSound, TypeOK
    <2>4. buffer' \in Seq(DOMAIN log') /\ Len(buffer') <= BufferMax
      <3> HIDE DEF long
      <3> QED BY <1>5, <1>6, <2>1
    <2> QED BY <2>3, <2>4
  <1>7. CASE ~(Len(long) <= BufferMax)
    <2>1. buffer' = RemoveAt(long, place) /\ dropped' = (dropped \/ IsCritical(long[place]))
      BY <1>7 DEF Buffered
    <2>2. Len(buffer) = BufferMax /\ BufferMax \in Nat /\ BufferMax >= 1
      BY <1>2, <1>3, <1>5, <1>7, FanoutAssumption
    <2>3. /\ place \in 1 .. Len(buffer)
          /\ \/ place = 1 /\ \A i \in 1 .. Len(buffer) : log'[long[i]] \notin TransientTypes
             \/ log'[long[place]] \in TransientTypes
      <3>1. Len(long) > 1 /\ Len(long) - 1 = Len(buffer)
        BY <1>3, <1>5, <2>2
      <3> HIDE DEF long
      <3> QED BY <1>5, <3>1, EvicteeTransient
    <2> HIDE DEF n, long, place
    <2>4. place \in DOMAIN long
      BY <1>3, <1>5, <2>3
    <2>5. /\ buffer' \in Seq(DOMAIN log') /\ Len(buffer') = Len(buffer)
          /\ \A j \in 1 .. Len(buffer) : buffer'[j] = IF j < place THEN long[j] ELSE long[j + 1]
      <3>1. /\ RemoveAt(long, place) \in Seq(DOMAIN log')
            /\ Len(RemoveAt(long, place)) = Len(long) - 1
            /\ \A j \in 1 .. Len(long) - 1 : RemoveAt(long, place)[j] = IF j < place THEN long[j] ELSE long[j + 1]
        BY <1>5, <2>4, RemoveAtProperties
      <3>2. Len(long) - 1 = Len(buffer)
        BY <1>3, <1>5
      <3> QED BY <2>1, <3>1, <3>2
    <2>6. ASSUME dropped', NEW i \in 1 .. Len(buffer) - 1
          PROVE  log'[buffer'[i]] \notin TransientTypes
      <3>1. PICK j \in 1 .. Len(buffer) : j # place /\ buffer'[i] = buffer[j] /\ (j = i \/ j = i + 1)
                                          /\ (place = 1 => j = i + 1)
        <4>1. i \in 1 .. Len(buffer) /\ i + 1 \in 1 .. Len(buffer) /\ place \in Nat /\ i \in Nat
          BY <1>3, <2>3
        <4>2. CASE i < place
          <5>1. buffer'[i] = buffer[i] /\ i # place
            BY <1>5, <2>5, <4>1, <4>2
          <5> QED BY <4>1, <4>2, <5>1
        <4>3. CASE ~(i < place)
          <5>1. buffer'[i] = buffer[i + 1] /\ i + 1 # place
            BY <1>5, <2>5, <4>1, <4>3
          <5> QED BY <4>1, <4>3, <5>1
        <4> QED BY <4>2, <4>3
      <3>2. CASE \A k \in 1 .. Len(buffer) : log'[long[k]] \notin TransientTypes
        BY <1>5, <3>1, <3>2
      <3>3. CASE log'[long[place]] \in TransientTypes
        <4>1. ~IsCritical(long[place])
          BY <3>3 DEF IsCritical, TransientTypes, CriticalTypes
        <4>2. \A k \in 1 .. Len(buffer) - 1 : log[buffer[k]] \notin TransientTypes
          BY <2>1, <2>6, <4>1 DEF BufferSound
        <4>3. log[buffer[place]] \in TransientTypes
          BY <1>3, <1>5, <2>3, <3>3
        <4>4. place = Len(buffer)
          BY <1>3, <2>3, <4>2, <4>3
        <4>5. j \in 1 .. Len(buffer) - 1
          BY <1>3, <3>1, <4>4
        <4> QED BY <1>3, <3>1, <4>2, <4>5
      <3> QED BY <2>3, <3>2, <3>3
    <2>7. dropped' \in BOOLEAN
      BY <2>1 DEF TypeOK, IsCritical
    <2> QED BY <1>2, <2>2, <2>5, <2>6, <2>7 DEF BufferSound
  <1> QED BY <1>6, <1>7

\* The buffer that is kept when a turn ends.
LEMMA PrunedTyped ==
  ASSUME TypeOK, Prune
  PROVE  buffer' \in Seq(DOMAIN log) /\ Len(buffer') <= BufferMax
  <1> DEFINE kept == {i \in DOMAIN buffer : log[buffer[i]] \notin CriticalTypes \cup TransientTypes}
             m == Cardinality(kept)
  <1>1. /\ buffer \in Seq(DOMAIN log) /\ Len(buffer) <= BufferMax
        /\ Len(buffer) \in Nat /\ DOMAIN buffer = 1 .. Len(buffer)
        /\ \A i \in DOMAIN buffer : buffer[i] \in DOMAIN log
    BY LenProperties, ElementOfSeq DEF TypeOK
  <1>2. m \in Nat /\ m <= Len(buffer)
    <2>1. IsFiniteSet(1 .. Len(buffer)) /\ Cardinality(1 .. Len(buffer)) = Len(buffer)
      BY <1>1, FS_Interval
    <2>2. kept \subseteq 1 .. Len(buffer)
      BY <1>1
    <2> HIDE DEF kept
    <2>3. IsFiniteSet(kept) /\ m <= Len(buffer)
      BY <2>1, <2>2, FS_Subset
    <2> QED BY <2>3, FS_CardinalityType
  <1>3. PICK place \in [1 .. m -> kept] : buffer' = [i \in DOMAIN place |-> buffer[place[i]]]
    BY DEF Prune, Kept, Places
  <1>4. kept \subseteq DOMAIN buffer
    OBVIOUS
  <1> HIDE DEF kept, m
  <1>5. buffer' \in [1 .. m -> DOMAIN log]
    BY <1>1, <1>3, <1>4
  <1>6. buffer' \in Seq(DOMAIN log) /\ Len(buffer') = m
    BY <1>2, <1>5
  <1> QED BY <1>1, <1>2, <1>6, FanoutAssumption

(***************************************************************************)
(* The steps.                                                              *)
(***************************************************************************)

LEMMA InitInvariant == Init => IInv
  <1> SUFFICES ASSUME Init PROVE IInv
    OBVIOUS
  <1>1. Closed \in StreamSet(log) /\ Len(Closed.queue) = 0 /\ Len(log) = 0
    BY DEF Init, Closed, StreamSet
  <1>2. TypeOK
    <2>1. log \in Seq(Kinds) /\ buffer \in Seq(DOMAIN log) /\ Len(buffer) = 0
      BY DEF Init
    <2>2. stream \in [Subscribers -> StreamSet(log)] /\ \A s \in Subscribers : stream[s] = Closed
      BY <1>1 DEF Init
    <2>3. \A s \in Subscribers : Len(stream[s].queue) <= QueueMax
      BY <1>1, <2>2, FanoutAssumption
    <2>4. Len(log) <= MaxMessages /\ Len(buffer) <= BufferMax
      BY <1>1, <2>1, FanoutAssumption
    <2>5. streams \in 0 .. MaxStreams /\ dropped \in BOOLEAN
      <3>1. streams = 0 /\ MaxStreams \in Nat
        BY FanoutAssumption DEF Init
      <3>2. dropped \in BOOLEAN
        BY Zenon DEF Init
      <3> QED BY <3>1, <3>2
    <2> QED BY <2>1, <2>2, <2>3, <2>4, <2>5 DEF TypeOK, StreamSet
  <1>3. StreamsSound /\ BufferSound
    BY DEF Init, StreamsSound, StreamSound, BufferSound, Closed
  <1> QED BY <1>2, <1>3 DEF IInv

LEMMA TypeOfBroadcast ==
  ASSUME TypeOK, StreamsSound, NEW kind \in Kinds, Arrives(kind), Broadcast(Len(log')),
         buffer' \in Seq(DOMAIN log'), Len(buffer') <= BufferMax,
         dropped' \in BOOLEAN, UNCHANGED streams
  PROVE  TypeOK'
  <1>1. log' \in Seq(Kinds) /\ Len(log') <= MaxMessages
    <2>1. log' \in Seq(Kinds) /\ Len(log) \in Nat /\ Len(log') = Len(log) + 1
      BY ArrivesGrows DEF TypeOK
    <2> QED BY <2>1, FanoutAssumption DEF Arrives
  <1>2. /\ stream' \in [Subscribers -> StreamSet(log')]
        /\ \A s \in Subscribers : Len(stream'[s].queue) <= QueueMax
    BY BroadcastSound
  <1> QED BY <1>1, <1>2 DEF TypeOK, StreamSet

LEMMA AddMessageInvariant ==
  ASSUME IInv, NEW kind \in Kinds, AddMessage(kind)
  PROVE  IInv'
  <1>1. Arrives(kind) /\ Buffered(Len(log')) /\ Broadcast(Len(log')) /\ UNCHANGED streams
    BY DEF AddMessage
  <1>2. buffer' \in Seq(DOMAIN log') /\ Len(buffer') <= BufferMax /\ dropped' \in BOOLEAN /\ BufferSound'
    BY <1>1, BufferedSound DEF IInv
  <1>3. StreamsSound'
    BY <1>1, BroadcastSound DEF IInv
  <1>4. TypeOK'
    BY <1>1, <1>2, TypeOfBroadcast DEF IInv
  <1> QED BY <1>2, <1>3, <1>4 DEF IInv

LEMMA NoticeInvariant ==
  ASSUME IInv, Notice
  PROVE  IInv'
  <1>1. /\ Arrives("critical") /\ Broadcast(Len(log')) /\ "critical" \in Kinds
        /\ UNCHANGED <<buffer, streams, dropped>>
    BY DEF Notice, Kinds
  <1>2. /\ Len(log) \in Nat /\ Len(log') = Len(log) + 1
        /\ DOMAIN log = 1 .. Len(log) /\ DOMAIN log' = 1 .. Len(log')
        /\ \A n \in DOMAIN log : log'[n] = log[n]
    BY <1>1, ArrivesGrows DEF IInv, TypeOK
  <1>3. buffer' \in Seq(DOMAIN log') /\ Len(buffer') <= BufferMax /\ dropped' \in BOOLEAN
    BY <1>1, <1>2, SeqMonotonic DEF IInv, TypeOK
  <1>4. BufferSound'
    <2>1. Len(buffer) \in Nat /\ \A i \in 1 .. Len(buffer) : buffer[i] \in DOMAIN log
      BY LenProperties, ElementOfSeq DEF IInv, TypeOK
    <2>2. \A i \in 1 .. Len(buffer) - 1 : log'[buffer[i]] = log[buffer[i]]
      BY <1>2, <2>1
    <2> QED BY <1>1, <2>2 DEF IInv, BufferSound
  <1>5. StreamsSound'
    BY <1>1, BroadcastSound DEF IInv
  <1>6. TypeOK'
    BY <1>1, <1>3, TypeOfBroadcast DEF IInv
  <1> QED BY <1>4, <1>5, <1>6 DEF IInv

LEMMA PruneInvariant ==
  ASSUME IInv, Prune
  PROVE  IInv'
  <1>1. dropped' = FALSE /\ UNCHANGED <<log, stream, streams>>
    BY DEF Prune
  <1>2. buffer' \in Seq(DOMAIN log) /\ Len(buffer') <= BufferMax
    BY PrunedTyped DEF IInv
  <1> QED BY <1>1, <1>2 DEF IInv, TypeOK, StreamsSound, BufferSound

\* A step of one subscriber, to a stream that is well.
LEMMA StreamStepInvariant ==
  ASSUME IInv, NEW s \in Subscribers, NEW st \in StreamSet(log), Len(st.queue) <= QueueMax,
         StreamSound(st, log), stream' = [stream EXCEPT ![s] = st],
         UNCHANGED <<log, buffer, dropped>>, streams' \in 0 .. MaxStreams
  PROVE  IInv'
  <1>1. TypeOK'
    BY DEF IInv, TypeOK, StreamSet
  <1>2. StreamsSound'
    BY DEF IInv, TypeOK, StreamsSound
  <1> QED BY <1>1, <1>2 DEF IInv, BufferSound

LEMMA ClosedSound ==
  ASSUME log \in Seq(Kinds)
  PROVE  Closed \in StreamSet(log) /\ Len(Closed.queue) = 0 /\ StreamSound(Closed, log)
  <1>1. <<>> \in Seq(DOMAIN log \cup {Overflow}) /\ <<>> \in Seq(DOMAIN log) /\ Len(<<>>) = 0
    OBVIOUS
  <1> QED BY <1>1 DEF Closed, StreamSet, StreamSound

LEMMA SubscribeInvariant ==
  ASSUME IInv, NEW s \in Subscribers, Subscribe(s)
  PROVE  IInv'
  <1> DEFINE st == [open |-> TRUE, registered |-> TRUE, replay |-> buffer, queue |-> <<>>,
                    last |-> Len(log)]
  <1>1. log \in Seq(Kinds) /\ Len(log) \in Nat /\ buffer \in Seq(DOMAIN log) /\ streams \in 0 .. MaxStreams
    BY LenProperties DEF IInv, TypeOK
  <1>2. <<>> \in Seq(DOMAIN log \cup {Overflow}) /\ Len(<<>>) = 0
    OBVIOUS
  <1>3. st \in StreamSet(log) /\ StreamSound(st, log)
    BY <1>1, <1>2 DEF StreamSet, StreamSound, InOrder, NoneMissing
  <1>4. Len(st.queue) <= QueueMax
    BY <1>2, FanoutAssumption
  <1>5. /\ stream' = [stream EXCEPT ![s] = st] /\ UNCHANGED <<log, buffer, dropped>>
        /\ streams' \in 0 .. MaxStreams
    BY <1>1, FanoutAssumption DEF Subscribe
  <1> HIDE DEF st
  <1> QED BY <1>3, <1>4, <1>5, StreamStepInvariant

\* What the stream yields is the first of its queue.
LEMMA TakeFacts ==
  ASSUME IInv, NEW s \in Subscribers, Take(s)
  PROVE  /\ log \in Seq(Kinds) /\ Len(log) \in Nat /\ DOMAIN log = 1 .. Len(log)
         /\ stream[s] \in StreamSet(log) /\ StreamSound(stream[s], log)
         /\ stream[s].open /\ stream[s].queue # <<>>
         /\ Head(stream[s].queue) = stream[s].queue[1]
         /\ Len(stream[s].queue) \in Nat /\ Len(stream[s].queue) >= 1
         /\ DOMAIN stream[s].queue = 1 .. Len(stream[s].queue)
         /\ Head(stream[s].queue) \in DOMAIN log \cup {Overflow}
         /\ Head(stream[s].queue) # Overflow => stream[s].registered
  <1>1. log \in Seq(Kinds) /\ Len(log) \in Nat /\ DOMAIN log = 1 .. Len(log)
    BY LenProperties DEF IInv, TypeOK
  <1>2. stream[s] \in StreamSet(log) /\ StreamSound(stream[s], log)
    BY DEF IInv, TypeOK, StreamsSound, StreamSet
  <1>3. stream[s].open /\ stream[s].queue # <<>>
    BY DEF Take
  <1>4. stream[s].queue \in Seq(DOMAIN log \cup {Overflow})
    BY <1>2 DEF StreamSet
  <1>5. /\ Head(stream[s].queue) = stream[s].queue[1]
        /\ Len(stream[s].queue) \in Nat /\ Len(stream[s].queue) >= 1
        /\ DOMAIN stream[s].queue = 1 .. Len(stream[s].queue)
        /\ Head(stream[s].queue) \in DOMAIN log \cup {Overflow}
    BY <1>3, <1>4, HeadTailProperties, LenProperties, EmptySeq
  <1>6. stream[s].registered \/ Head(stream[s].queue) = Overflow
    BY <1>2, <1>3 DEF StreamSound
  <1> QED BY <1>1, <1>2, <1>3, <1>5, <1>6

\* A registered stream that yields a message has had every critical one up to it.
LEMMA TakeInOrder ==
  ASSUME IInv, NEW s \in Subscribers, Take(s), Head(stream[s].queue) # Overflow
  PROVE  /\ Head(stream[s].queue) \in stream[s].last + 1 .. Len(log)
         /\ \A k \in stream[s].last + 1 .. Head(stream[s].queue) - 1 : log[k] \notin CriticalTypes
  <1> DEFINE q == stream[s].queue
             n == Head(q)
  <1>1. /\ n = q[1] /\ Len(q) \in Nat /\ Len(q) >= 1 /\ DOMAIN q = 1 .. Len(q)
        /\ n \in 1 .. Len(log) /\ Len(log) \in Nat
        /\ InOrder(stream[s]) /\ NoneMissing(stream[s], log)
        /\ stream[s].last \in 0 .. Len(log)
    BY TakeFacts DEF StreamSound, StreamSet
  <1>2. n > stream[s].last
    BY <1>1 DEF InOrder
  <1>3. ASSUME NEW k \in stream[s].last + 1 .. n - 1, log[k] \in CriticalTypes
        PROVE  FALSE
    <2>1. k \in stream[s].last + 1 .. Len(log)
      BY <1>1
    <2>2. PICK i \in DOMAIN q : q[i] = k
      BY <1>1, <1>3, <2>1 DEF NoneMissing
    <2>3. CASE i = 1
      BY <1>1, <2>2, <2>3
    <2>4. CASE i # 1
      <3>1. 1 \in DOMAIN q /\ 1 < i
        BY <1>1, <2>4
      <3>2. q[1] < q[i]
        BY <1>1, <3>1 DEF InOrder
      <3> QED BY <1>1, <2>2, <3>2
    <2> QED BY <2>3, <2>4
  <1> QED BY <1>1, <1>2, <1>3

LEMMA TakeInvariant ==
  ASSUME IInv, NEW s \in Subscribers, Take(s)
  PROVE  IInv'
  <1> DEFINE q == stream[s].queue
             n == Head(q)
             st == [stream[s] EXCEPT !.queue = Tail(q), !.last = n]
  <1>0. UNCHANGED <<log, buffer, dropped>> /\ streams' \in 0 .. MaxStreams
    BY DEF Take, IInv, TypeOK
  <1>1. CASE n = Overflow
    <2>1. stream' = [stream EXCEPT ![s] = Closed]
      BY <1>1 DEF Take
    <2>2. Closed \in StreamSet(log) /\ Len(Closed.queue) <= QueueMax /\ StreamSound(Closed, log)
      BY ClosedSound, FanoutAssumption DEF IInv, TypeOK
    <2> QED BY <1>0, <2>1, <2>2, StreamStepInvariant
  <1>2. CASE n # Overflow
    <2>1. stream' = [stream EXCEPT ![s] = st]
      <3>1. stream' = [stream EXCEPT ![s] = IF n = Overflow THEN Closed ELSE st]
        BY DEF Take, Yielded
      <3> HIDE DEF n, st
      <3> QED BY <1>2, <3>1
    <2>2. /\ Len(log) \in Nat /\ DOMAIN log = 1 .. Len(log)
          /\ stream[s] \in StreamSet(log) /\ stream[s].open /\ stream[s].registered
          /\ q # <<>> /\ n = q[1] /\ Len(q) \in Nat /\ Len(q) >= 1 /\ DOMAIN q = 1 .. Len(q)
          /\ InOrder(stream[s]) /\ NoneMissing(stream[s], log)
      BY <1>2, TakeFacts DEF StreamSound
    <2>3. n \in stream[s].last + 1 .. Len(log) /\ stream[s].last \in 0 .. Len(log)
      BY <1>2, <2>2, TakeInOrder DEF StreamSet
    <2>4. q \in Seq(DOMAIN log \cup {Overflow})
      BY <2>2 DEF StreamSet
    <2>5. /\ Tail(q) \in Seq(DOMAIN log \cup {Overflow}) /\ Len(Tail(q)) = Len(q) - 1
          /\ DOMAIN Tail(q) = 1 .. Len(q) - 1
          /\ \A i \in 1 .. Len(q) - 1 : Tail(q)[i] = q[i + 1]
      <3> HIDE DEF q
      <3> QED BY <2>2, <2>4, HeadTailProperties, LenProperties
    <2>6. n \in 0 .. Len(log)
      BY <2>2, <2>3
    <2> HIDE DEF n
    <2>7. /\ st \in StreamSet(log) /\ st.queue = Tail(q) /\ st.last = n
          /\ st.open /\ st.registered
      BY <2>2, <2>5, <2>6 DEF StreamSet
    <2>8. Len(st.queue) <= QueueMax
      <3>1. Len(q) <= QueueMax
        BY DEF IInv, TypeOK
      <3> QED BY <2>2, <2>5, <2>7, <3>1, FanoutAssumption
    <2>9. InOrder(st)
      <3>1. \A i, j \in DOMAIN q : i < j => q[i] < q[j]
        BY <2>2 DEF InOrder
      <3>2. \A i \in DOMAIN Tail(q) : i + 1 \in DOMAIN q /\ 1 < i + 1 /\ Tail(q)[i] = q[i + 1] /\ i \in Nat
        BY <2>2, <2>5
      <3>3. \A i \in DOMAIN Tail(q) : Tail(q)[i] > n
        <4>1. 1 \in DOMAIN q
          BY <2>2
        <4>2. \A i \in DOMAIN Tail(q) : q[1] < q[i + 1]
          BY <3>1, <3>2, <4>1
        <4>3. \A i \in DOMAIN q : q[i] \in Nat
          <5>1. \A i \in DOMAIN q : q[i] \in DOMAIN log \cup {Overflow}
            BY <2>2, <2>4, ElementOfSeq
          <5> QED BY <2>2, <5>1 DEF Overflow
        <4> QED BY <2>2, <3>2, <4>1, <4>2, <4>3
      <3>4. ASSUME NEW i \in DOMAIN Tail(q), NEW j \in DOMAIN Tail(q), i < j
            PROVE  Tail(q)[i] < Tail(q)[j]
        <4>1. i + 1 < j + 1
          BY <3>2, <3>4
        <4> QED BY <3>1, <3>2, <4>1
      <3> HIDE DEF q, st
      <3> QED BY <2>7, <3>3, <3>4 DEF InOrder
    <2>10. NoneMissing(st, log)
      <3> SUFFICES ASSUME NEW k \in n + 1 .. Len(log), log[k] \in CriticalTypes
                   PROVE  \E i \in DOMAIN Tail(q) : Tail(q)[i] = k
        BY <2>7 DEF NoneMissing
      <3>1. k \in stream[s].last + 1 .. Len(log) /\ k # n
        BY <2>2, <2>3
      <3>2. PICK i \in DOMAIN q : q[i] = k
        BY <2>2, <3>1 DEF NoneMissing
      <3>3. i - 1 \in DOMAIN Tail(q) /\ i - 1 + 1 = i
        BY <2>2, <2>5, <3>1, <3>2
      <3> QED BY <2>5, <3>2, <3>3
    <2> HIDE DEF st
    <2>11. StreamSound(st, log)
      BY <2>7, <2>9, <2>10 DEF StreamSound
    <2> QED BY <1>0, <2>1, <2>7, <2>8, <2>11, StreamStepInvariant
  <1> QED BY <1>1, <1>2

LEMMA UnsubscribeInvariant ==
  ASSUME IInv, NEW s \in Subscribers, Unsubscribe(s)
  PROVE  IInv'
  <1>1. /\ stream' = [stream EXCEPT ![s] = Closed] /\ UNCHANGED <<log, buffer, dropped>>
        /\ streams' \in 0 .. MaxStreams
    BY DEF Unsubscribe, IInv, TypeOK
  <1>2. Closed \in StreamSet(log) /\ Len(Closed.queue) <= QueueMax /\ StreamSound(Closed, log)
    BY ClosedSound, FanoutAssumption DEF IInv, TypeOK
  <1> QED BY <1>1, <1>2, StreamStepInvariant

LEMMA NextInvariant ==
  ASSUME IInv, [Next]_vars
  PROVE  IInv'
  <1>1. CASE \E kind \in Kinds : AddMessage(kind)
    BY <1>1, AddMessageInvariant
  <1>2. CASE Notice
    BY <1>2, NoticeInvariant
  <1>3. CASE Prune
    BY <1>3, PruneInvariant
  <1>4. CASE \E s \in Subscribers : Subscribe(s) \/ Take(s) \/ Unsubscribe(s)
    BY <1>4, SubscribeInvariant, TakeInvariant, UnsubscribeInvariant
  <1>5. CASE UNCHANGED vars
    BY <1>5 DEF vars, IInv, TypeOK, StreamsSound, BufferSound
  <1> QED BY <1>1, <1>2, <1>3, <1>4, <1>5 DEF Next

THEOREM Invariance == Spec => []IInv
  <1>1. Init => IInv
    BY InitInvariant
  <1>2. IInv /\ [Next]_vars => IInv'
    BY NextInvariant
  <1> QED BY <1>1, <1>2, PTL DEF Spec

\* The types of the state.
THEOREM TypeCorrect == Spec => []TypeOK
  <1>1. IInv => TypeOK
    BY DEF IInv
  <1> QED BY <1>1, Invariance, PTL

\* add_message drops a critical message of the turn only when the buffer holds
\* nothing transient but, at most, its newest entry: a new stream is given all the
\* critical messages of the turn as long as there is something else to leave out.
THEOREM CriticalKept == Spec => []TransientsGoFirst
  <1>1. IInv => TransientsGoFirst
    BY DEF IInv, BufferSound, TransientsGoFirst
  <1> QED BY <1>1, Invariance, PTL

(***************************************************************************)
(* The streams implement the feed.                                         *)
(***************************************************************************)

Had == [s \in Subscribers |->
          IF stream[s].open THEN [open |-> TRUE, last |-> stream[s].last]
                            ELSE [open |-> FALSE, last |-> 0]]

LEMMA FeedInit == Init => Feed!Init
  BY DEF Init, Feed!Init, Closed

\* A broadcast gives no stream anything yet.
LEMMA ArrivesFeed ==
  ASSUME IInv, NEW kind \in Kinds, Arrives(kind), Broadcast(Len(log'))
  PROVE  Feed!Broadcast
  <1>1. \A s \in Subscribers : stream'[s].open = stream[s].open /\ stream'[s].last = stream[s].last
    BY BroadcastSound DEF IInv
  <1>2. Had' = Had
    BY <1>1 DEF Had
  <1> QED BY <1>2 DEF Feed!Broadcast, Arrives, Had

\* The next message of a stream, the signal that ends it, or its client's leaving.
LEMMA TakeFeed ==
  ASSUME IInv, NEW s \in Subscribers, Take(s)
  PROVE  Feed!Deliver(s) \/ Feed!Close(s)
  <1> DEFINE q == stream[s].queue
             n == Head(q)
  <1>1. stream[s].open /\ stream[s] \in StreamSet(log) /\ stream \in [Subscribers -> StreamSet(log)]
    BY TakeFacts DEF IInv, TypeOK, StreamSet
  <1>2. UNCHANGED log
    BY DEF Take
  <1>3. CASE n = Overflow
    <2>1. stream' = [stream EXCEPT ![s] = Closed]
      BY <1>3 DEF Take
    <2>2. Had[s].open /\ Had' = [Had EXCEPT ![s] = [open |-> FALSE, last |-> 0]]
      BY <1>1, <2>1 DEF Had, Closed
    <2> QED BY <1>2, <2>2 DEF Feed!Close, Had
  <1>4. CASE n # Overflow
    <2>1. stream' = [stream EXCEPT ![s] = [stream[s] EXCEPT !.queue = Tail(q), !.last = n]]
      <3> DEFINE st == [stream[s] EXCEPT !.queue = Tail(q), !.last = n]
      <3>1. stream' = [stream EXCEPT ![s] = IF n = Overflow THEN Closed ELSE st]
        BY DEF Take, Yielded
      <3> HIDE DEF n, st
      <3>2. stream' = [stream EXCEPT ![s] = st]
        BY <1>4, <3>1
      <3> QED BY <3>2 DEF st
    <2>2. stream'[s].open = TRUE /\ stream'[s].last = n /\ \A r \in Subscribers \ {s} : stream'[r] = stream[r]
      BY <1>1, <2>1 DEF StreamSet
    <2>3. Had[s] = [open |-> TRUE, last |-> stream[s].last]
      BY <1>1 DEF Had
    <2>4. Had' = [Had EXCEPT ![s].last = n]
      BY <2>2, <2>3 DEF Had
    <2>5. /\ n \in Had[s].last + 1 .. Len(log)
          /\ \A k \in Had[s].last + 1 .. n - 1 : log[k] \notin CriticalTypes
      BY <1>4, <2>3, TakeInOrder
    <2> HIDE DEF n, q
    <2> QED BY <1>2, <2>3, <2>4, <2>5 DEF Feed!Deliver, Had
  <1> QED BY <1>3, <1>4

LEMMA UnsubscribeFeed ==
  ASSUME IInv, NEW s \in Subscribers, Unsubscribe(s)
  PROVE  Feed!Close(s)
  <1>1. /\ stream[s].open /\ stream' = [stream EXCEPT ![s] = Closed] /\ UNCHANGED log
        /\ stream \in [Subscribers -> StreamSet(log)]
    BY DEF Unsubscribe, IInv, TypeOK, StreamSet
  <1>2. Had[s].open /\ Had' = [Had EXCEPT ![s] = [open |-> FALSE, last |-> 0]]
    BY <1>1 DEF Had, Closed
  <1> QED BY <1>1, <1>2 DEF Feed!Close, Had

LEMMA SubscribeFeed ==
  ASSUME IInv, NEW s \in Subscribers, Subscribe(s)
  PROVE  Feed!Subscribe(s)
  <1>1. /\ ~stream[s].open /\ UNCHANGED log
        /\ stream' = [stream EXCEPT ![s] = [open |-> TRUE, registered |-> TRUE, replay |-> buffer,
                                            queue |-> <<>>, last |-> Len(log)]]
        /\ stream \in [Subscribers -> StreamSet(log)]
    BY DEF Subscribe, IInv, TypeOK, StreamSet
  <1>2. ~Had[s].open /\ Had' = [Had EXCEPT ![s] = [open |-> TRUE, last |-> Len(log)]]
    BY <1>1 DEF Had
  <1> QED BY <1>1, <1>2 DEF Feed!Subscribe, Had

LEMMA NextFeed ==
  ASSUME IInv, [Next]_vars
  PROVE  Feed!Next \/ UNCHANGED <<log, Had>>
  <1>1. CASE \E kind \in Kinds : AddMessage(kind)
    BY <1>1, ArrivesFeed DEF AddMessage, Feed!Next
  <1>2. CASE Notice
    BY <1>2, ArrivesFeed DEF Notice, Kinds, Feed!Next
  <1>3. CASE Prune
    BY <1>3 DEF Prune, Had
  <1>4. CASE \E s \in Subscribers : Subscribe(s) \/ Take(s) \/ Unsubscribe(s)
    BY <1>4, SubscribeFeed, TakeFeed, UnsubscribeFeed DEF Feed!Next
  <1>5. CASE UNCHANGED vars
    BY <1>5 DEF vars, Had
  <1> QED BY <1>1, <1>2, <1>3, <1>4, <1>5 DEF Next

\* A stream's client gets what is broadcast in its order, and misses nothing that
\* is critical, while its stream lasts: whatever the bounded queue has to evict,
\* and however the broadcasts, the reads and the cuts interleave.
THEOREM StreamsImplementFeed == Spec => FeedSpec
  <1>1. Init => Feed!Init
    BY FeedInit
  <1>2. IInv /\ [Next]_vars => [Feed!Next]_<<log, Had>>
    BY NextFeed
  <1> QED BY <1>1, <1>2, Invariance, PTL DEF Spec, FeedSpec, Feed!FeedSpec, Had
=============================================================================
