------------------------- MODULE SessionActor_proofs -------------------------
(***************************************************************************)
(* Proofs about SessionActor, for any set of commands.                     *)
(***************************************************************************)
EXTENDS SessionActor, SequenceTheorems, TLAPS

(***************************************************************************)
(* The inductive invariant.  A command that was posted is in the queue, in *)
(* the actor's hands or done, and in one of these places only; it is       *)
(* adrift when it is in none.                                              *)
(***************************************************************************)

Resting == {"connect", "get", "leave", "over"}
Driving == {"wait", "interrupt", "part"}

Aside == Some(taken) \cup Some(pending)
Adrift == posted \ (done \cup Queued \cup Some(current) \cup Aside)

\* What the actor has in hand at each place.
Hands ==
  /\ at \in Resting => current = NoCommand /\ taken = NoCommand /\ pending = NoCommand
  /\ at = "query" => taken = NoCommand /\ pending = NoCommand /\ current \in Query \ sent
  /\ at \in Driving => current \in Query \cap sent
  /\ at = "interrupt" => taken \in Interrupt
  /\ at = "part" => taken \in Disconnect
  /\ at = "over" => queue = <<>>

Distinct == \A i, j \in DOMAIN queue : queue[i] = queue[j] => i = j

\* A command is in one place, and nothing that waits was replied to.
Places ==
  /\ Distinct
  /\ Queued \cup Some(current) \cup Aside \subseteq posted
  /\ Queued \cap (Some(current) \cup Aside) = {}
  /\ current # NoCommand => current \notin Aside \cup done
  /\ taken # NoCommand => taken # pending
  /\ (Queued \cup Aside) \cap sent = {}

OneTurn == sent \ done \subseteq Some(current)

\* Nothing is adrift before something is raised, and then one command at most.
Accounted ==
  /\ at \notin {"leave", "over"} => fatal = "none"
  /\ Adrift # {} =>
       /\ fatal \in {"interrupt", "recv", "cancel"}
       /\ \E c \in posted : Adrift \subseteq {c} /\ (fatal = "interrupt" => c \in Disconnect)

IInv == TypeOK /\ Hands /\ Places /\ OneTurn /\ Accounted

(***************************************************************************)
(* How the queue changes.                                                  *)
(***************************************************************************)

LEMMA AppendQueued ==
  ASSUME queue \in Seq(Command), NEW c \in Command, queue' = Append(queue, c)
  PROVE  queue' \in Seq(Command) /\ Queued' = Queued \cup {c}
  BY DEF Queued

LEMMA TailQueued ==
  ASSUME queue \in Seq(Command), queue # <<>>, queue' = Tail(queue)
  PROVE  /\ queue' \in Seq(Command)
         /\ Head(queue) \in Command
         /\ Queued = Queued' \cup {Head(queue)}
  <1>1. Head(queue) \in Command /\ queue' \in Seq(Command)
    OBVIOUS
  <1>2. Queued \subseteq Queued' \cup {Head(queue)}
    <2> SUFFICES ASSUME NEW i \in DOMAIN queue, i # 1 PROVE queue[i] \in Queued'
      BY DEF Queued
    <2>1. i - 1 \in DOMAIN queue' /\ queue'[i - 1] = queue[i]
      OBVIOUS
    <2> QED BY <2>1 DEF Queued
  <1>3. \A i \in DOMAIN queue' : i + 1 \in DOMAIN queue /\ queue'[i] = queue[i + 1]
    OBVIOUS
  <1>4. 1 \in DOMAIN queue /\ Head(queue) = queue[1]
    OBVIOUS
  <1> QED BY <1>1, <1>2, <1>3, <1>4 DEF Queued

LEMMA ReturnQueued ==
  ASSUME queue \in Seq(Command), NEW c \in Command \cup {NoCommand},
         queue' = queue \o (IF c = NoCommand THEN <<>> ELSE <<c>>)
  PROVE  queue' \in Seq(Command) /\ Queued' = Queued \cup Some(c)
  <1>1. CASE c = NoCommand
    BY <1>1 DEF Queued, Some
  <1>2. CASE c # NoCommand
    <2>1. c \in Command /\ queue' = queue \o <<c>> /\ Some(c) = {c}
      BY <1>2 DEF Some
    <2>2. queue' = Append(queue, c)
      BY <2>1
    <2> QED BY <2>1, <2>2, AppendQueued
  <1> QED BY <1>1, <1>2

LEMMA EmptyQueued ==
  ASSUME queue' = <<>>
  PROVE  queue' \in Seq(Command) /\ Queued' = {}
  BY DEF Queued

LEMMA SameQueue ==
  ASSUME queue \in Seq(Command), UNCHANGED queue
  PROVE  queue' \in Seq(Command) /\ Queued' = Queued /\ (Distinct => Distinct')
  BY DEF Queued, Distinct

LEMMA AppendDistinct ==
  ASSUME queue \in Seq(Command), Distinct, NEW c \in Command, c \notin Queued,
         queue' = Append(queue, c)
  PROVE  Distinct'
  <1> SUFFICES ASSUME NEW i \in DOMAIN queue', NEW j \in DOMAIN queue', queue'[i] = queue'[j]
               PROVE  i = j
    BY DEF Distinct
  <1>1. \A k \in DOMAIN queue' :
          \/ k \in DOMAIN queue /\ queue'[k] = queue[k]
          \/ k = Len(queue) + 1 /\ queue'[k] = c
    OBVIOUS
  <1> QED BY <1>1 DEF Distinct, Queued

LEMMA TailDistinct ==
  ASSUME queue \in Seq(Command), queue # <<>>, Distinct, queue' = Tail(queue)
  PROVE  Distinct' /\ Head(queue) \notin Queued'
  <1>1. \A i \in DOMAIN queue' : /\ i \in Nat
                                 /\ i + 1 \in DOMAIN queue /\ i + 1 # 1
                                 /\ queue'[i] = queue[i + 1]
    OBVIOUS
  <1>2. 1 \in DOMAIN queue /\ Head(queue) = queue[1]
    OBVIOUS
  <1>3. Head(queue) \notin Queued'
    <2> SUFFICES ASSUME NEW i \in DOMAIN queue', queue'[i] = Head(queue) PROVE FALSE
      BY DEF Queued
    <2> QED BY <1>1, <1>2 DEF Distinct
  <1>4. Distinct'
    <2> SUFFICES ASSUME NEW i \in DOMAIN queue', NEW j \in DOMAIN queue', queue'[i] = queue'[j]
                 PROVE  i = j
      BY DEF Distinct
    <2>1. i + 1 = j + 1
      BY <1>1 DEF Distinct
    <2> QED BY <1>1, <2>1
  <1> QED BY <1>3, <1>4

LEMMA EmptyDistinct ==
  ASSUME queue' = <<>>
  PROVE  Distinct'
  BY DEF Distinct

(***************************************************************************)
(* Each action preserves the invariant.                                    *)
(***************************************************************************)

\* A step that puts nothing adrift keeps the account, also when it cancels.
LEMMA StillAccounted ==
  ASSUME Accounted, Adrift' \subseteq Adrift, posted \subseteq posted',
         at' \notin {"leave", "over"} => fatal' = "none",
         fatal' = fatal \/ fatal' = "cancel" \/ Adrift = {}
  PROVE  Accounted'
  BY DEF Accounted

LEMMA PostSafe ==
  ASSUME IInv, NEW c \in Command, Post(c)
  PROVE  IInv'
  <1>1. /\ queue' \in Seq(Command)
        /\ Distinct'
        /\ \/ at # "over" /\ Queued' = Queued \cup {c} /\ UNCHANGED replies
           \/ at = "over" /\ Queued' = Queued /\ Complete({}, {c}) /\ UNCHANGED queue
    <2> USE DEF IInv, TypeOK, Places, Post
    <2>1. CASE at = "over"
      BY <2>1, SameQueue
    <2>2. CASE at # "over"
      <3>1. c \notin Queued
        OBVIOUS
      <3> QED BY <2>2, <3>1, AppendQueued, AppendDistinct
    <2> QED BY <2>1, <2>2
  <1>2. /\ c \notin posted /\ posted' = posted \cup {c}
        /\ UNCHANGED <<at, current, taken, pending, stream, fatal>>
        /\ sent \subseteq sent' /\ sent' \subseteq sent \cup {c}
        /\ done \subseteq done' /\ refused' \subseteq done' /\ done' \subseteq sent'
        /\ sent' \ done' \subseteq sent \ done
        /\ at # "over" => UNCHANGED <<sent, done>>
        /\ at = "over" => c \in done'
    BY <1>1 DEF Post, turn, replies, Complete, IInv, TypeOK
  <1>3. TypeOK'
    BY <1>1, <1>2 DEF IInv, TypeOK
  <1>4. Hands'
    BY <1>1, <1>2 DEF IInv, TypeOK, Hands, Places, Some, Resting, Driving
  <1>5. Places'
    <2>1. CASE at = "over"
      <3>1. current = NoCommand /\ taken = NoCommand /\ pending = NoCommand /\ Queued = {}
        BY <2>1 DEF IInv, Hands, Resting, Queued
      <3> QED BY <1>1, <1>2, <2>1, <3>1 DEF Places, Some, Aside
    <2>2. CASE at # "over"
      BY <1>1, <1>2, <2>2, CommandAssumption DEF IInv, TypeOK, Places, Some, Aside
    <2> QED BY <2>1, <2>2
  <1>6. OneTurn'
    BY <1>2 DEF IInv, OneTurn
  <1>7. Accounted'
    <2>1. Adrift' \subseteq Adrift
      BY <1>1, <1>2 DEF Adrift, Aside
    <2> QED BY <1>2, <2>1, StillAccounted DEF IInv, Accounted
  <1> QED BY <1>3, <1>4, <1>5, <1>6, <1>7 DEF IInv

\* The actor puts down all it holds and goes to rest, what it holds answered or
\* refused except perhaps the command the cmd_task took.
LEMMA RestSafe ==
  ASSUME IInv, at \notin {"leave", "over"}, at' \in {"get", "leave"},
         NEW A, NEW R, Complete(A, R), NoTurn, UNCHANGED <<queue, posted>>,
         Some(current) \cup Some(pending) \subseteq A \cup R,
         A \cup R \subseteq Some(current) \cup Aside,
         \/ /\ Some(taken) \subseteq A \cup R
            /\ fatal' \in Kinds \cup {"none"}
            /\ at' = "get" => fatal' = "none"
         \/ /\ at' = "leave"
            /\ fatal' \in {"interrupt", "recv", "cancel"}
            /\ fatal' = "interrupt" => taken \in Disconnect
  PROVE  IInv'
  <1>1. queue' \in Seq(Command) /\ Queued' = Queued /\ Distinct'
    BY SameQueue DEF IInv, TypeOK, Places
  <1>2. /\ current' = NoCommand /\ taken' = NoCommand /\ pending' = NoCommand /\ stream' = "open"
        /\ Some(current') = {} /\ Aside' = {}
    BY DEF NoTurn, Some, Aside
  <1>3. /\ A \cup R \subseteq posted /\ posted' = posted
        /\ sent' = sent \cup (A \cup R) /\ done' = done \cup (A \cup R) /\ refused' = refused \cup R
    BY DEF IInv, Places, Complete
  <1>4. Queued \subseteq posted /\ Queued \cap (A \cup R) = {} /\ Queued \cap sent = {}
    BY DEF IInv, Places
  <1>5. TypeOK'
    BY <1>1, <1>2, <1>3 DEF IInv, TypeOK, Kinds
  <1>6. Hands'
    BY <1>2 DEF Hands, Resting, Driving
  <1>7. Places'
    BY <1>1, <1>2, <1>3, <1>4 DEF Places
  <1>8. OneTurn'
    BY <1>2, <1>3 DEF IInv, OneTurn
  <1>9. Accounted'
    <2>1. Adrift = {}
      BY DEF IInv, Accounted
    <2>2. Adrift' \subseteq Some(taken) \ (A \cup R)
      BY <1>1, <1>2, <1>3, <2>1 DEF Adrift, Aside
    <2>3. CASE Some(taken) \subseteq A \cup R
      <3>1. Adrift' = {}
        BY <2>2, <2>3
      <3> QED BY <3>1 DEF Accounted
    <2>4. CASE at' = "leave" /\ fatal' \in {"interrupt", "recv", "cancel"}
               /\ (fatal' = "interrupt" => taken \in Disconnect)
      <3>1. CASE taken = NoCommand
        BY <2>2, <2>4, <3>1 DEF Accounted, Some
      <3>2. CASE taken # NoCommand
        <4>1. taken \in posted' /\ Adrift' \subseteq {taken}
          BY <1>3, <2>2, <3>2 DEF IInv, Places, Aside, Some
        <4> QED BY <2>4, <4>1 DEF Accounted
      <3> QED BY <3>1, <3>2
    <2> QED BY <2>3, <2>4
  <1> QED BY <1>5, <1>6, <1>7, <1>8, <1>9 DEF IInv

\* An exception leaves the loop.
LEMMA RaiseSafe ==
  ASSUME IInv, at \notin {"leave", "over"},
         NEW kind \in {"query", "interrupt", "recv", "cancel"},
         NEW A, NEW R, Raise(kind, A, R), UNCHANGED <<queue, posted>>,
         Some(current) \cup Some(pending) \subseteq A \cup R,
         A \cup R \subseteq Some(current) \cup Aside,
         \/ Some(taken) \subseteq A \cup R
         \/ kind \in {"interrupt", "recv", "cancel"} /\ (kind = "interrupt" => taken \in Disconnect)
  PROVE  IInv'
  BY RestSafe DEF Raise, Kinds

\* The loop turns to a command that nothing holds any more.
LEMMA HandleSafe ==
  ASSUME IInv, at \notin {"leave", "over"}, UNCHANGED <<fatal, posted>>,
         Some(current) \subseteq sent,
         queue' \in Seq(Command), Distinct',
         NEW c \in Command, c \in posted \ sent, c \notin Queued',
         Queued' \subseteq posted, Queued' \cap (sent \cup Some(current)) = {},
         Queued \cup Aside \subseteq Queued' \cup {c},
         Handle(c, Some(current))
  PROVE  IInv'
  <1>1. c # NoCommand /\ c \notin done /\ c \notin Some(current)
    BY CommandAssumption DEF IInv, TypeOK
  <1>2. Adrift = {} /\ fatal' = "none"
    BY DEF IInv, Accounted
  <1>3. CASE c \in Query
    <2>1. /\ at' = "query" /\ current' = c
          /\ taken' = NoCommand /\ pending' = NoCommand /\ stream' = "open"
          /\ sent' = sent /\ done' = done \cup Some(current) /\ refused' = refused
      BY <1>3, CommandAssumption DEF Handle
    <2>2. Some(current') = {c} /\ Aside' = {}
      BY <1>1, <2>1 DEF Some, Aside
    <2>3. TypeOK'
      BY <1>2, <1>3, <2>1 DEF IInv, TypeOK
    <2>4. Hands'
      BY <1>3, <2>1 DEF Hands, Resting, Driving
    <2>5. Places'
      BY <1>1, <2>1, <2>2 DEF Places
    <2>6. OneTurn'
      BY <2>1 DEF IInv, OneTurn
    <2>7. Adrift' = {}
      BY <1>2, <2>1, <2>2 DEF Adrift
    <2> QED BY <1>2, <2>3, <2>4, <2>5, <2>6, <2>7 DEF IInv, Accounted
  <1>4. CASE c \notin Query
    <2> DEFINE A == Some(current) \cup {c}
    <2>1. /\ at' \in {"get", "leave"}
          /\ current' = NoCommand /\ taken' = NoCommand /\ pending' = NoCommand /\ stream' = "open"
          /\ sent' = sent \cup A /\ done' = done \cup A /\ refused' = refused
      BY <1>4 DEF Handle, NoTurn, Complete
    <2>2. Some(current') = {} /\ Aside' = {}
      BY <2>1 DEF Some, Aside
    <2>3. TypeOK'
      BY <1>2, <2>1 DEF IInv, TypeOK
    <2>4. Hands'
      BY <2>1 DEF Hands, Resting, Driving
    <2>5. Places'
      BY <2>1, <2>2 DEF Places
    <2>6. OneTurn'
      BY <2>1 DEF IInv, OneTurn
    <2>7. Adrift' = {}
      BY <1>2, <2>1, <2>2 DEF Adrift
    <2> QED BY <1>2, <2>3, <2>4, <2>5, <2>6, <2>7 DEF IInv, Accounted
  <1> QED BY <1>3, <1>4

\* The end of the actor drains the queue.
LEMMA DrainSafe ==
  ASSUME IInv, at \in Resting, at' = "over", queue' = <<>>,
         NEW R, R \subseteq Queued, Queued \subseteq R \cup done, Complete({}, R),
         UNCHANGED <<turn, posted>>,
         fatal' \in Kinds \cup {"none"},
         fatal' = fatal \/ fatal' = "cancel" \/ Adrift = {}
  PROVE  IInv'
  <1>1. queue' \in Seq(Command) /\ Queued' = {} /\ Distinct'
    BY EmptyQueued, EmptyDistinct
  <1>2. /\ UNCHANGED <<current, taken, pending, stream>>
        /\ current = NoCommand /\ taken = NoCommand /\ pending = NoCommand
        /\ Some(current') = {} /\ Aside' = {}
    BY DEF turn, IInv, Hands, Some, Aside
  <1>3. /\ R \subseteq posted /\ posted' = posted
        /\ sent' = sent \cup R /\ done' = done \cup R /\ refused' = refused \cup R
    BY DEF IInv, Places, Complete
  <1>4. TypeOK'
    BY <1>1, <1>2, <1>3 DEF IInv, TypeOK
  <1>5. Hands'
    BY <1>2 DEF Hands, Driving
  <1>6. Places'
    BY <1>1, <1>2 DEF Places
  <1>7. OneTurn'
    BY <1>2, <1>3 DEF IInv, OneTurn, Some
  <1>8. Adrift' \subseteq Adrift
    BY <1>1, <1>2, <1>3 DEF Adrift, Aside, Some
  <1>9. Accounted'
    BY <1>3, <1>8, StillAccounted DEF IInv
  <1> QED BY <1>4, <1>5, <1>6, <1>7, <1>9 DEF IInv

\* The command the cmd_task took is replied to, and the driving goes on.
LEMMA RepliedSafe ==
  ASSUME IInv, at \in Driving, at' = "wait", taken # NoCommand, taken' = NoCommand,
         NEW A, NEW R, A \cup R = {taken}, Complete(A, R),
         UNCHANGED <<queue, current, pending, stream, fatal, posted>>
  PROVE  IInv'
  <1>1. queue' \in Seq(Command) /\ Queued' = Queued /\ Distinct'
    BY SameQueue DEF IInv, TypeOK, Places
  <1>2. Some(current') = Some(current) /\ Some(pending') = Some(pending)
        /\ Aside' = Some(pending) /\ Aside = {taken} \cup Some(pending)
    BY DEF Some, Aside
  <1>3. /\ taken \in posted /\ taken \notin Queued /\ taken \notin Some(pending) /\ taken # current
        /\ sent' = sent \cup {taken} /\ done' = done \cup {taken} /\ refused' = refused \cup R
        /\ R \subseteq {taken}
    BY <1>2 DEF IInv, Places, Complete, Some
  <1>4. TypeOK'
    BY <1>1, <1>3 DEF IInv, TypeOK
  <1>5. Hands'
    BY <1>3 DEF IInv, Hands, Resting, Driving
  <1>6. Places'
    BY <1>1, <1>2, <1>3 DEF IInv, Places
  <1>7. OneTurn'
    BY <1>2, <1>3 DEF IInv, OneTurn
  <1>8. Adrift' \subseteq Adrift
    BY <1>1, <1>2, <1>3 DEF Adrift
  <1>9. Accounted'
    BY <1>8, StillAccounted DEF IInv, Accounted, Driving
  <1> QED BY <1>4, <1>5, <1>6, <1>7, <1>9 DEF IInv

LEMMA ConnectSafe ==
  ASSUME IInv, Connect
  PROVE  IInv'
  <1>1. CASE at' = "get" /\ UNCHANGED <<queue, turn, fatal, replies>>
    <2>1. queue' \in Seq(Command) /\ Queued' = Queued /\ Distinct'
      BY <1>1, SameQueue DEF IInv, TypeOK, Places
    <2>2. at = "connect" /\ UNCHANGED <<current, taken, pending, stream, fatal, sent, done, refused, posted>>
      BY <1>1 DEF Connect, turn, replies
    <2> QED
      BY <1>1, <2>1, <2>2
      DEF IInv, TypeOK, Hands, Places, OneTurn, Accounted, Adrift, Aside, Some, Resting, Driving
  <1>2. CASE at' = "over" /\ fatal' = "connect" /\ queue' = <<>> /\ Complete({}, Queued) /\ UNCHANGED turn
    <2>1. at \in Resting /\ Adrift = {} /\ UNCHANGED posted
      BY DEF Connect, Resting, IInv, Accounted
    <2> QED BY <1>2, <2>1, DrainSafe DEF Kinds
  <1> QED BY <1>1, <1>2 DEF Connect

LEMMA GetSafe ==
  ASSUME IInv, Get
  PROVE  IInv'
  <1> DEFINE c == Head(queue)
  <1>1. /\ at = "get" /\ queue # <<>> /\ queue' = Tail(queue)
        /\ Handle(c, {}) /\ UNCHANGED <<fatal, posted>>
    BY DEF Get
  <1>2. /\ queue' \in Seq(Command) /\ c \in Command /\ Queued = Queued' \cup {c}
        /\ Distinct' /\ c \notin Queued'
    BY <1>1, TailQueued, TailDistinct DEF IInv, TypeOK, Places
  <1>3. Some(current) = {} /\ Aside = {}
    BY <1>1 DEF IInv, Hands, Resting, Some, Aside
  <1>4. c \in posted \ sent /\ Queued' \subseteq posted /\ Queued' \cap sent = {}
    BY <1>2 DEF IInv, Places
  <1> QED BY <1>1, <1>2, <1>3, <1>4, HandleSafe

LEMMA SendPromptSafe ==
  ASSUME IInv, SendPrompt
  PROVE  IInv'
  <1>1. at = "query" /\ current \in Query /\ taken = NoCommand /\ pending = NoCommand
    BY DEF SendPrompt, IInv, Hands
  <1>2. current # NoCommand /\ Some(current) = {current} /\ Aside = {} /\ Some(pending) = {} /\ Some(taken) = {}
    BY <1>1, CommandAssumption DEF Some, Aside, Command
  <1>3. CASE at' = "wait" /\ sent' = sent \cup {current} /\ UNCHANGED <<turn, fatal, done, refused>>
    <2>1. queue' \in Seq(Command) /\ Queued' = Queued /\ Distinct' /\ UNCHANGED posted
      BY SameQueue DEF SendPrompt, IInv, TypeOK, Places
    <2>2. UNCHANGED <<current, taken, pending, stream>>
      BY <1>3 DEF turn
    <2>3. Some(current') = {current} /\ Aside' = {}
      BY <1>2, <2>2 DEF Some, Aside
    <2>4. TypeOK'
      BY <1>2, <1>3, <2>1, <2>2 DEF IInv, TypeOK, Places
    <2>5. Hands'
      BY <1>1, <1>3, <2>2 DEF Hands, Resting
    <2>6. Places'
      BY <1>1, <1>2, <1>3, <2>1, <2>2, <2>3 DEF IInv, Places
    <2>7. OneTurn'
      BY <1>2, <1>3, <2>3 DEF IInv, OneTurn
    <2>8. Adrift' = Adrift
      BY <1>2, <1>3, <2>1, <2>3 DEF Adrift
    <2> QED
      BY <1>1, <1>3, <2>1, <2>4, <2>5, <2>6, <2>7, <2>8, StillAccounted DEF IInv, Accounted
  <1>4. CASE Raise("query", {}, {current})
    BY <1>1, <1>2, <1>4, RaiseSafe DEF SendPrompt
  <1> QED BY <1>3, <1>4 DEF SendPrompt

LEMMA LeaveSafe ==
  ASSUME IInv, Leave
  PROVE  IInv'
  BY DrainSafe DEF Leave, Resting, IInv, TypeOK

LEMMA TakeSafe ==
  ASSUME IInv, Take
  PROVE  IInv'
  <1> DEFINE c == Head(queue)
  <1>1. /\ at = "wait" /\ at' = "wait" /\ taken = NoCommand /\ taken' = c
        /\ queue # <<>> /\ queue' = Tail(queue)
        /\ UNCHANGED <<current, pending, stream, fatal, posted, sent, done, refused>>
    BY DEF Take, replies
  <1>2. /\ queue' \in Seq(Command) /\ c \in Command /\ Queued = Queued' \cup {c}
        /\ Distinct' /\ c \notin Queued'
    BY <1>1, TailQueued, TailDistinct DEF IInv, TypeOK, Places
  <1>3. Some(current') = Some(current) /\ Aside = Some(pending) /\ Aside' = Some(pending) \cup {c}
    BY <1>1, <1>2, CommandAssumption DEF Some, Aside
  <1>4. c \notin Some(current) \cup Some(pending) /\ c # current /\ c # pending
    BY <1>2, <1>3, CommandAssumption DEF IInv, Places, Some
  <1>5. TypeOK'
    BY <1>1, <1>2 DEF IInv, TypeOK
  <1>6. Hands'
    BY <1>1 DEF IInv, Hands, Resting, Driving
  <1>7. Places'
    BY <1>1, <1>2, <1>3, <1>4 DEF IInv, Places
  <1>8. OneTurn'
    BY <1>1, <1>3 DEF IInv, OneTurn
  <1>9. Adrift' = Adrift
    BY <1>1, <1>2, <1>3 DEF Adrift
  <1> QED BY <1>1, <1>5, <1>6, <1>7, <1>8, <1>9, StillAccounted DEF IInv, Accounted

LEMMA ReceiveSafe ==
  ASSUME IInv, Receive
  PROVE  IInv'
  <1>1. queue' \in Seq(Command) /\ Queued' = Queued /\ Distinct'
    BY SameQueue DEF Receive, IInv, TypeOK, Places
  <1>2. /\ UNCHANGED <<at, queue, current, taken, pending, fatal, posted, sent, done, refused>>
        /\ stream' \in {"open", "ended", "raised"}
    BY DEF Receive, replies
  <1> QED
    BY <1>1, <1>2
    DEF IInv, TypeOK, Hands, Places, OneTurn, Accounted, Adrift, Aside, Some, Resting, Driving

\* What the drive of a query knows of the command that has the turn.
LEMMA HasTurn ==
  ASSUME IInv, at \in Driving
  PROVE  /\ current \in Query /\ current \in sent /\ current # NoCommand
         /\ Some(current) = {current} /\ Abandoned = Some(current) \cup Some(pending)
  BY CommandAssumption DEF IInv, Hands, Some, Abandoned, Command

LEMMA StreamEndsSafe ==
  ASSUME IInv, StreamEnds
  PROVE  IInv'
  <1>1. at = "wait" /\ UNCHANGED <<fatal, posted>>
    BY DEF StreamEnds
  <1>2. /\ current \in Query /\ current \in sent /\ current # NoCommand /\ Some(current) = {current}
    BY <1>1, HasTurn DEF Driving
  <1>3. CASE pending # NoCommand /\ Handle(pending, {current})
             /\ queue' = queue \o (IF taken = NoCommand THEN <<>> ELSE <<taken>>)
    <2>1. queue' \in Seq(Command) /\ Queued' = Queued \cup Some(taken)
      BY <1>3, ReturnQueued DEF IInv, TypeOK
    <2>2. Distinct'
      <3>1. CASE taken = NoCommand
        <4>1. queue' = queue
          BY <1>3, <3>1 DEF IInv, TypeOK
        <4> QED BY <4>1, SameQueue DEF IInv, TypeOK, Places
      <3>2. CASE taken # NoCommand
        <4>1. taken \in Command /\ taken \notin Queued
          BY <3>2 DEF IInv, TypeOK, Places, Aside, Some
        <4>2. queue' = Append(queue, taken)
          BY <1>3, <3>2, <4>1 DEF IInv, TypeOK
        <4> QED BY <4>1, <4>2, AppendDistinct DEF IInv, TypeOK, Places
      <3> QED BY <3>1, <3>2
    <2>3. /\ pending \in Command /\ pending \in posted \ sent /\ pending \notin Queued'
          /\ Aside = Some(taken) \cup {pending}
      BY <1>3, <2>1 DEF IInv, TypeOK, Command, Places, Aside, Some
    <2>4. Queued' \subseteq posted /\ Queued' \cap (sent \cup Some(current)) = {}
      BY <1>2, <2>1, <2>3 DEF IInv, Places
    <2> QED BY <1>1, <1>2, <1>3, <2>1, <2>2, <2>3, <2>4, HandleSafe
  <1>4. CASE pending = NoCommand /\ taken # NoCommand /\ Handle(taken, {current}) /\ UNCHANGED queue
    <2>1. queue' \in Seq(Command) /\ Queued' = Queued /\ Distinct'
      BY <1>4, SameQueue DEF IInv, TypeOK, Places
    <2>2. taken \in Command /\ taken \in posted \ sent /\ taken \notin Queued' /\ Aside = {taken}
      BY <1>4, <2>1 DEF IInv, TypeOK, Places, Aside, Some
    <2>3. Queued' \subseteq posted /\ Queued' \cap (sent \cup Some(current)) = {}
      BY <1>2, <2>1, <2>2 DEF IInv, Places
    <2> QED BY <1>1, <1>2, <1>4, <2>1, <2>2, <2>3, HandleSafe
  <1>5. CASE /\ pending = NoCommand /\ taken = NoCommand /\ at' = "get" /\ NoTurn
             /\ Complete({current}, {}) /\ UNCHANGED queue
    <2>1. Some(pending) = {} /\ Some(taken) = {} /\ fatal' = "none"
      BY <1>1, <1>5 DEF Some, IInv, Accounted
    <2> QED BY <1>1, <1>2, <1>5, <2>1, RestSafe
  <1> QED BY <1>3, <1>4, <1>5 DEF StreamEnds

LEMMA StreamRaisesSafe ==
  ASSUME IInv, StreamRaises
  PROVE  IInv'
  <1>1. at = "wait" /\ Raise("recv", {}, Abandoned) /\ UNCHANGED <<queue, posted>>
    BY DEF StreamRaises
  <1>2. Abandoned = Some(current) \cup Some(pending)
    BY <1>1, HasTurn DEF Driving
  <1> QED BY <1>1, <1>2, RaiseSafe DEF Aside

LEMMA ServeSafe ==
  ASSUME IInv, Serve
  PROVE  IInv'
  <1>1. at = "wait" /\ UNCHANGED <<queue, fatal, posted>>
    BY DEF Serve
  <1>2. queue' \in Seq(Command) /\ Queued' = Queued /\ Distinct'
    BY <1>1, SameQueue DEF IInv, TypeOK, Places
  <1>3. CASE \/ taken \in Interrupt /\ at' = "interrupt" /\ UNCHANGED <<turn, replies>>
             \/ taken \in Disconnect /\ at' = "part" /\ UNCHANGED <<turn, replies>>
    <2>1. UNCHANGED <<current, taken, pending, stream, sent, done, refused>>
      BY <1>3 DEF turn, replies
    <2> QED
      BY <1>1, <1>2, <1>3, <2>1
      DEF IInv, TypeOK, Hands, Places, OneTurn, Accounted, Adrift, Aside, Some, Resting, Driving
  <1>4. CASE /\ taken \in Query /\ pending = NoCommand /\ pending' = taken /\ taken' = NoCommand
             /\ UNCHANGED <<at, current, stream, replies>>
    <2>1. taken # NoCommand /\ UNCHANGED <<sent, done, refused>>
      BY <1>4, CommandAssumption DEF replies, Command
    <2>2. Some(current') = Some(current) /\ Aside' = Aside
      BY <1>4 DEF Aside, Some
    <2>3. TypeOK'
      BY <1>1, <1>2, <1>4, <2>1 DEF IInv, TypeOK
    <2>4. Hands'
      BY <1>1, <1>4, <2>1 DEF IInv, Hands, Resting, Driving
    <2>5. Places'
      BY <1>1, <1>2, <1>4, <2>1, <2>2 DEF IInv, Places
    <2>6. OneTurn'
      BY <2>1, <2>2 DEF IInv, OneTurn
    <2>7. Adrift' = Adrift
      BY <1>1, <1>2, <2>1, <2>2 DEF Adrift
    <2> QED
      BY <1>1, <1>4, <2>3, <2>4, <2>5, <2>6, <2>7, StillAccounted DEF IInv, Accounted
  <1>5. CASE /\ taken \in Query /\ pending # NoCommand /\ Complete({}, {taken}) /\ taken' = NoCommand
             /\ UNCHANGED <<at, current, pending, stream>>
    <2>1. taken # NoCommand /\ at \in Driving /\ at' = "wait"
      BY <1>1, <1>5, CommandAssumption DEF Command, Driving
    <2> QED BY <1>1, <1>5, <2>1, RepliedSafe
  <1> QED BY <1>3, <1>4, <1>5 DEF Serve

LEMMA InterruptedSafe ==
  ASSUME IInv, Interrupted
  PROVE  IInv'
  <1>1. at = "interrupt" /\ taken \in Interrupt /\ UNCHANGED <<queue, posted>>
    BY DEF Interrupted, IInv, Hands
  <1>2. /\ taken # NoCommand /\ Some(taken) = {taken} /\ at \in Driving
        /\ Abandoned = Some(current) \cup Some(pending)
    BY <1>1, HasTurn, CommandAssumption DEF Command, Some, Driving
  <1>3. CASE /\ at' = "wait" /\ Complete({taken}, {}) /\ taken' = NoCommand
             /\ UNCHANGED <<current, pending, stream, fatal>>
    BY <1>1, <1>2, <1>3, RepliedSafe
  <1>4. CASE Raise("interrupt", {}, Abandoned \cup {taken})
    BY <1>1, <1>2, <1>4, RaiseSafe DEF Aside
  <1> QED BY <1>3, <1>4 DEF Interrupted

LEMMA PartedSafe ==
  ASSUME IInv, Parted
  PROVE  IInv'
  <1>1. at = "part" /\ taken \in Disconnect /\ UNCHANGED <<queue, posted>>
    BY DEF Parted, IInv, Hands
  <1>2. /\ Some(current) = {current} /\ Some(taken) = {taken}
        /\ Abandoned = Some(current) \cup Some(pending)
    BY <1>1, HasTurn, CommandAssumption DEF Command, Some, Driving
  <1>3. CASE at' = "leave" /\ NoTurn /\ Complete({current, taken}, Some(pending)) /\ UNCHANGED fatal
    <2>1. fatal' \in Kinds \cup {"none"}
      BY <1>3 DEF IInv, TypeOK
    <2> QED BY <1>1, <1>2, <1>3, <2>1, RestSafe DEF Aside
  <1>4. CASE Raise("interrupt", {}, Abandoned)
    BY <1>1, <1>2, <1>4, RaiseSafe DEF Aside
  <1> QED BY <1>3, <1>4 DEF Parted

LEMMA CancelSafe ==
  ASSUME IInv, Cancel
  PROVE  IInv'
  <1>1. UNCHANGED posted
    BY DEF Cancel
  <1>2. CASE /\ at \in {"connect", "leave"} /\ fatal' = "cancel" /\ at' = "over" /\ queue' = <<>>
             /\ Complete({}, Queued \ done) /\ UNCHANGED turn
    BY <1>1, <1>2, DrainSafe DEF Resting, Kinds
  <1>3. CASE /\ at \in {"get", "query", "wait", "part"}
             /\ Raise("cancel", {}, Some(current) \cup Some(pending)) /\ UNCHANGED queue
    BY <1>1, <1>3, RaiseSafe DEF Aside
  <1>4. CASE at = "interrupt" /\ Raise("cancel", {taken}, Abandoned) /\ UNCHANGED queue
    <2>1. taken # NoCommand /\ Some(taken) = {taken} /\ Abandoned = Some(current) \cup Some(pending)
      BY <1>4, HasTurn, CommandAssumption DEF IInv, Hands, Some, Driving, Command
    <2> QED BY <1>1, <1>4, <2>1, RaiseSafe DEF Aside
  <1> QED BY <1>2, <1>3, <1>4 DEF Cancel

LEMMA StepSafe ==
  ASSUME IInv, [Next]_vars
  PROVE  IInv'
  <1>1. CASE UNCHANGED vars
    <2>1. queue' \in Seq(Command) /\ Queued' = Queued /\ Distinct'
      BY <1>1, SameQueue DEF vars, IInv, TypeOK, Places
    <2> QED
      BY <1>1, <2>1
      DEF vars, turn, replies, IInv, TypeOK, Hands, Places, OneTurn, Accounted, Adrift, Aside
  <1> QED
    BY <1>1, PostSafe, ConnectSafe, GetSafe, SendPromptSafe, LeaveSafe, TakeSafe, ReceiveSafe,
       StreamEndsSafe, StreamRaisesSafe, ServeSafe, InterruptedSafe, PartedSafe, CancelSafe
    DEF Next, Actor

(***************************************************************************)
(* Theorems.                                                               *)
(***************************************************************************)

\* IInv holds in every reachable state.
THEOREM Invariance == Spec => []IInv
  <1>1. Init => IInv
    BY DEF Init, IInv, TypeOK, Hands, Places, OneTurn, Accounted, Adrift, Aside, Some, Queued,
           Distinct, Resting, Driving
  <1>2. IInv /\ [Next]_vars => IInv'
    BY StepSafe
  <1> QED BY <1>1, <1>2, PTL DEF Spec

\* Every variable keeps its type; in particular a command that is done has sent
\* set too, the contract of complete().
THEOREM ActorTyping == Spec => []TypeOK
  <1>1. IInv => TypeOK
    BY DEF IInv
  <1> QED BY <1>1, Invariance, PTL

\* When the actor is gone at most one command, of however many it was sent, is
\* left without a reply.
THEOREM ActorLosesAtMostOne == Spec => []AtMostOneLost
  <1>1. IInv => AtMostOneLost
    <2> SUFFICES ASSUME IInv, at = "over" PROVE AtMostOneLost
      BY DEF AtMostOneLost
    <2>1. Adrift = posted \ done
      BY DEF IInv, Hands, Resting, Adrift, Aside, Some, Queued
    <2>2. CASE Adrift = {}
      BY <2>1, <2>2 DEF AtMostOneLost
    <2>3. CASE Adrift # {}
      BY <2>1, <2>3 DEF AtMostOneLost, IInv, Accounted
    <2> QED BY <2>2, <2>3
  <1> QED BY <1>1, Invariance, PTL

(***************************************************************************)
(* Refinement.                                                             *)
(***************************************************************************)

\* The phase of a command, by the sets it is in.
LEMMA Phases ==
  ASSUME TypeOK, NEW c \in Command
  PROVE  /\ PhaseOf(c) = "new" <=> c \notin posted
         /\ PhaseOf(c) = "waiting" <=> c \in posted \ sent
         /\ PhaseOf(c) = "turn" <=> c \in sent \ done
  BY DEF TypeOK, PhaseOf

LEMMA SameCommands == Mailbox!Command = Command
  BY DEF Mailbox!Command, Command

\* A step that replies to commands that may be replied to is a Settle.
LEMMA SettleRefines ==
  ASSUME TypeOK, NEW A, NEW R, Complete(A, R), UNCHANGED posted,
         \A c \in A : c \in sent \ done \/ c \in (posted \ sent) \ Query,
         R \subseteq posted \ done
  PROVE  Mailbox!Next
  <1>1. A \in SUBSET Mailbox!Answerable
    BY Phases, SameCommands DEF Mailbox!Answerable, TypeOK, Command
  <1>2. R \in SUBSET Mailbox!Unsettled
    BY Phases, SameCommands DEF Mailbox!Unsettled, TypeOK
  <1>3. ASSUME NEW c \in Command
        PROVE  PhaseOf(c)' = IF c \in R THEN "refused" ELSE IF c \in A THEN "answered" ELSE PhaseOf(c)
    BY DEF PhaseOf, Complete, TypeOK
  <1>4. Mailbox!Settle(A, R)
    BY <1>3, SameCommands DEF Mailbox!Settle
  <1> QED BY <1>1, <1>2, <1>4 DEF Mailbox!Next

LEMMA StutterRefines ==
  ASSUME UNCHANGED <<posted, sent, done, refused>>
  PROVE  UNCHANGED [c \in Command |-> PhaseOf(c)]
  BY DEF PhaseOf

LEMMA PostRefines ==
  ASSUME IInv, NEW c \in Command, Post(c)
  PROVE  Mailbox!Next
  <1>1. c \notin posted /\ posted' = posted \cup {c}
    BY DEF Post
  <1>2. \/ at = "over" /\ Complete({}, {c})
        \/ UNCHANGED <<sent, done, refused>>
    BY DEF Post, replies
  <1>3. PhaseOf(c) = "new" /\ PhaseOf(c)' \in {"waiting", "refused"}
    BY <1>1, <1>2 DEF IInv, TypeOK, PhaseOf, Complete
  <1>4. \A d \in Command : d # c => PhaseOf(d)' = PhaseOf(d)
    BY <1>1, <1>2 DEF PhaseOf, Complete
  <1>5. Mailbox!Post(c)
    BY <1>3, <1>4 DEF Mailbox!Post
  <1> QED BY <1>5, SameCommands DEF Mailbox!Next

\* The loop turns to a command: what had the turn is answered, and so is the
\* command if it is no query.
LEMMA HandleRefines ==
  ASSUME IInv, NEW c \in posted \ sent, Handle(c, Some(current)), UNCHANGED posted,
         Some(current) \subseteq sent
  PROVE  [Mailbox!Next]_[x \in Command |-> PhaseOf(x)]
  <1>1. Some(current) \subseteq sent \ done
    BY DEF IInv, Places, Some
  <1>2. CASE c \in Query
    <2>1. Complete(Some(current), {})
      BY <1>2, CommandAssumption DEF Handle, Complete
    <2> QED BY <1>1, <2>1, SettleRefines DEF IInv
  <1>3. CASE c \notin Query
    <2>1. Complete(Some(current) \cup {c}, {})
      BY <1>3 DEF Handle
    <2> QED BY <1>1, <1>3, <2>1, SettleRefines DEF IInv
  <1> QED BY <1>2, <1>3

LEMMA ActorRefines ==
  ASSUME IInv, Actor
  PROVE  [Mailbox!Next]_[c \in Command |-> PhaseOf(c)]
  <1> USE DEF replies
  <1>1. Queued \cup Aside \subseteq posted \ sent /\ Some(current) \subseteq posted \ done
    BY DEF IInv, Places, Some
  <1>2. TypeOK /\ done \subseteq sent
    BY DEF IInv, TypeOK
  <1>3. CASE Connect
    BY <1>1, <1>2, <1>3, SettleRefines, StutterRefines DEF Connect
  <1>4. CASE Get
    <2>1. Head(queue) \in posted \ sent
      BY <1>1, <1>4, TailQueued DEF Get, TypeOK, IInv
    <2>2. Some(current) = {}
      BY <1>4 DEF Get, IInv, Hands, Resting, Some
    <2> QED BY <1>4, <2>1, <2>2, HandleRefines DEF Get
  <1>5. CASE SendPrompt
    <2>1. at = "query" /\ current \in Query \ sent /\ current \in posted
      BY <1>5, CommandAssumption DEF SendPrompt, IInv, Hands, Places, Some, Command
    <2>2. CASE sent' = sent \cup {current} /\ UNCHANGED <<turn, done, refused>>
      <3>1. UNCHANGED <<posted, current>>
        BY <1>5, <2>2 DEF SendPrompt, turn
      <3>2. \A q \in Query : q \notin sent \ done
        BY <2>1 DEF IInv, OneTurn, Some
      <3>3. \A q \in Query : PhaseOf(q) # "turn"
        BY <1>2, <3>2, Phases DEF Command
      <3>4. current \in Command /\ PhaseOf(current) = "waiting"
        BY <1>2, <2>1, Phases DEF Command
      <3>5. PhaseOf(current)' = "turn"
        BY <1>2, <2>1, <2>2, <3>1 DEF PhaseOf, TypeOK
      <3>6. \A d \in Command : d # current => PhaseOf(d)' = PhaseOf(d)
        BY <2>2, <3>1 DEF PhaseOf
      <3>7. Mailbox!Begin(current)
        BY <2>1, <3>1, <3>3, <3>4, <3>5, <3>6 DEF Mailbox!Begin, Command
      <3> QED BY <3>4, <3>7, SameCommands DEF Mailbox!Next
    <2>3. CASE Raise("query", {}, {current})
      BY <1>2, <1>5, <2>1, <2>3, SettleRefines DEF SendPrompt, Raise
    <2> QED BY <1>5, <2>2, <2>3 DEF SendPrompt
  <1>6. CASE Leave
    BY <1>1, <1>2, <1>6, SettleRefines DEF Leave
  <1>7. CASE StreamEnds
    <2>1. Some(current) = {current} /\ current \in sent /\ at = "wait"
      BY <1>7, HasTurn DEF StreamEnds, Driving
    <2>2. CASE pending # NoCommand /\ Handle(pending, {current})
      <3>1. pending \in posted \ sent
        BY <1>1, <2>2 DEF Aside, Some
      <3> QED BY <1>7, <2>1, <2>2, <3>1, HandleRefines DEF StreamEnds
    <2>3. CASE taken # NoCommand /\ Handle(taken, {current})
      <3>1. taken \in posted \ sent
        BY <1>1, <2>3 DEF Aside, Some
      <3> QED BY <1>7, <2>1, <2>3, <3>1, HandleRefines DEF StreamEnds
    <2>4. CASE Complete({current}, {})
      BY <1>1, <1>2, <1>7, <2>1, <2>4, SettleRefines DEF StreamEnds
    <2> QED BY <1>7, <2>2, <2>3, <2>4 DEF StreamEnds
  <1>8. CASE StreamRaises
    <2>1. at = "wait" /\ Complete({}, Abandoned) /\ UNCHANGED posted
      BY <1>8 DEF StreamRaises, Raise
    <2>2. Abandoned \subseteq posted \ done
      BY <1>1, <1>2, <2>1, HasTurn DEF Driving, Aside
    <2> QED BY <1>2, <2>1, <2>2, SettleRefines
  <1>9. CASE Serve
    <2>1. UNCHANGED posted
      BY <1>9 DEF Serve
    <2>2. CASE UNCHANGED replies
      BY <2>1, <2>2, StutterRefines
    <2>3. CASE taken \in Query /\ Complete({}, {taken})
      <3>1. taken \in posted \ done
        BY <1>1, <1>2, <2>3, CommandAssumption DEF Aside, Some, Command
      <3> QED BY <1>2, <2>1, <2>3, <3>1, SettleRefines
    <2> QED BY <1>9, <2>2, <2>3 DEF Serve
  <1>10. CASE Interrupted
    <2>1. taken \in Interrupt /\ at \in Driving /\ UNCHANGED posted
      BY <1>10 DEF Interrupted, IInv, Hands, Driving
    <2>2. taken \in posted \ sent /\ taken \notin Query
      BY <1>1, <2>1, CommandAssumption DEF Aside, Some, Command
    <2>3. Abandoned \subseteq posted \ done
      BY <1>1, <1>2, <2>1, HasTurn DEF Aside
    <2>4. CASE Complete({taken}, {})
      BY <1>2, <2>1, <2>2, <2>4, SettleRefines
    <2>5. CASE Complete({}, Abandoned \cup {taken})
      BY <1>2, <2>1, <2>2, <2>3, <2>5, SettleRefines
    <2> QED BY <1>10, <2>4, <2>5 DEF Interrupted, Raise
  <1>11. CASE Parted
    <2>1. taken \in Disconnect /\ at \in Driving /\ UNCHANGED posted
      BY <1>11 DEF Parted, IInv, Hands, Driving
    <2>2. taken \in posted \ sent /\ taken \notin Query
      BY <1>1, <2>1, CommandAssumption DEF Aside, Some, Command
    <2>3. Abandoned \subseteq posted \ done /\ current \in sent \ done /\ Some(pending) \subseteq posted \ done
      BY <1>1, <1>2, <2>1, HasTurn DEF Aside
    <2>4. CASE Complete({current, taken}, Some(pending))
      BY <1>2, <2>1, <2>2, <2>3, <2>4, SettleRefines
    <2>5. CASE Complete({}, Abandoned)
      BY <1>2, <2>1, <2>3, <2>5, SettleRefines
    <2> QED BY <1>11, <2>4, <2>5 DEF Parted, Raise
  <1> QED BY <1>3, <1>4, <1>5, <1>6, <1>7, <1>8, <1>9, <1>10, <1>11 DEF Actor

LEMMA CancelRefines ==
  ASSUME IInv, Cancel
  PROVE  Mailbox!Next
  <1>1. Queued \cup Aside \subseteq posted \ sent /\ Some(current) \subseteq posted \ done
    BY DEF IInv, Places, Some
  <1>2. TypeOK /\ done \subseteq sent /\ UNCHANGED posted
    BY DEF IInv, TypeOK, Cancel
  <1>3. CASE Complete({}, Queued \ done)
    BY <1>1, <1>2, <1>3, SettleRefines
  <1>4. CASE Complete({}, Some(current) \cup Some(pending))
    BY <1>1, <1>2, <1>4, SettleRefines DEF Aside
  <1>5. CASE at = "interrupt" /\ Complete({taken}, Abandoned)
    <2>1. taken \in Interrupt /\ at \in Driving
      BY <1>5 DEF IInv, Hands, Driving
    <2>2. taken \in posted \ sent /\ taken \notin Query
      BY <1>1, <2>1, CommandAssumption DEF Aside, Some, Command
    <2>3. Abandoned \subseteq posted \ done
      BY <1>1, <1>2, <2>1, HasTurn DEF Aside
    <2> QED BY <1>2, <1>5, <2>2, <2>3, SettleRefines
  <1> QED BY <1>3, <1>4, <1>5 DEF Cancel, Raise

LEMMA StepRefines ==
  ASSUME IInv, [Next]_vars
  PROVE  [Mailbox!Next]_[c \in Command |-> PhaseOf(c)]
  <1>1. CASE Take \/ Receive \/ UNCHANGED vars
    BY <1>1, StutterRefines DEF Take, Receive, vars, replies
  <1> QED BY <1>1, PostRefines, ActorRefines, CancelRefines DEF Next

\* The actor is a mailbox, whichever command races with the end of the stream
\* and whatever raises: a reply is final and a query is answered after its turn.
THEOREM ActorIsMailbox == Spec => MailboxSpec
  <1>1. Init => Mailbox!Init
    BY SameCommands DEF Init, Mailbox!Init, PhaseOf
  <1>2. IInv /\ [Next]_vars => [Mailbox!Next]_[c \in Command |-> PhaseOf(c)]
    BY StepRefines
  <1> QED BY <1>1, <1>2, Invariance, PTL DEF Spec, MailboxSpec, Mailbox!Spec
=============================================================================
