-------------------------- MODULE ConnectionProofs --------------------------
(* Proofs about Connection.  The invariant IInv says what the two queues    *)
(* may hold and in which order, where each message is, what the counters    *)
(* count, and which step of closing a connection is still to come.  A lemma *)
(* for each handler shows that it keeps the nine parts of IInv, one step    *)
(* for each; the properties of Connection follow from IInv at the end.      *)
EXTENDS Connection, FiniteSetTheorems, SequenceTheorems, TLAPS

-----------------------------------------------------------------------------
(* Sequences, as far as their ranges and the order of their elements go.    *)

(* Nothing of B comes after something of A in s: a task or a handler of one *)
(* kind does not follow one of another (with A = B: there is one at most).   *)
After(s, A, B) == \A i, j \in DOMAIN s : i < j /\ s[i] \in A => s[j] \notin B

(* What addTask and the completion of an operation do to a queue.           *)
LEMMA AppendFacts ==
  ASSUME NEW S, NEW s \in Seq(S), NEW x \in S
  PROVE  /\ Append(s, x) \in Seq(S)
         /\ Range(Append(s, x)) = Range(s) \cup {x}
<1>1. /\ Append(s, x) \in Seq(S)
      /\ Len(Append(s, x)) = Len(s) + 1
      /\ \A i \in 1 .. Len(s) : Append(s, x)[i] = s[i]
      /\ Append(s, x)[Len(s) + 1] = x
  BY AppendProperties
<1>2. Len(s) \in Nat /\ DOMAIN s = 1 .. Len(s)
      /\ DOMAIN Append(s, x) = 1 .. Len(Append(s, x))
  BY <1>1, LenProperties
<1> QED BY <1>1, <1>2 DEF Range

(* An element that must not come after what is queued is not appended.      *)
LEMMA AppendAfter ==
  ASSUME NEW S, NEW s \in Seq(S), NEW x \in S, NEW A, NEW B,
         After(s, A, B), x \notin B \/ Range(s) \cap A = {}
  PROVE  After(Append(s, x), A, B)
<1>1. /\ Append(s, x) \in Seq(S)
      /\ Len(Append(s, x)) = Len(s) + 1
      /\ \A i \in 1 .. Len(s) : Append(s, x)[i] = s[i]
      /\ Append(s, x)[Len(s) + 1] = x
  BY AppendProperties
<1>2. Len(s) \in Nat /\ DOMAIN s = 1 .. Len(s)
      /\ DOMAIN Append(s, x) = 1 .. Len(Append(s, x))
  BY <1>1, LenProperties
<1> QED BY <1>1, <1>2 DEF Range, After

(* What a thread that takes the first element of its queue finds and leaves.*)
LEMMA TailFacts ==
  ASSUME NEW S, NEW s \in Seq(S), s # <<>>
  PROVE  /\ Head(s) \in S
         /\ Tail(s) \in Seq(S)
         /\ Range(s) = {Head(s)} \cup Range(Tail(s))
<1>1. /\ Head(s) \in S
      /\ Tail(s) \in Seq(S)
      /\ Len(Tail(s)) = Len(s) - 1
      /\ \A i \in 1 .. Len(Tail(s)) : Tail(s)[i] = s[i + 1]
  BY HeadTailProperties
<1>2. /\ Len(s) \in Nat \ {0} /\ DOMAIN s = 1 .. Len(s)
      /\ DOMAIN Tail(s) = 1 .. Len(Tail(s))
      /\ Head(s) = s[1]
  BY <1>1, LenProperties, EmptySeq
<1>3. ASSUME NEW i \in DOMAIN s  PROVE  s[i] \in {Head(s)} \cup Range(Tail(s))
  <2>1. CASE i = 1
    BY <2>1, <1>2
  <2>2. CASE i # 1
    <3>1. i - 1 \in DOMAIN Tail(s) /\ Tail(s)[i - 1] = s[i]
      BY <1>1, <1>2, <2>2
    <3> QED BY <3>1 DEF Range
  <2> QED BY <2>1, <2>2
<1>4. ASSUME NEW i \in DOMAIN Tail(s)  PROVE  Tail(s)[i] \in Range(s)
  BY <1>1, <1>2 DEF Range
<1>5. Head(s) \in Range(s)
  BY <1>2 DEF Range
<1> QED BY <1>1, <1>3, <1>4, <1>5 DEF Range

(* The order of what stays in the queue is kept, and nothing of B is behind *)
(* an element of A that was taken.                                          *)
LEMMA TailAfter ==
  ASSUME NEW S, NEW s \in Seq(S), s # <<>>, NEW A, NEW B, After(s, A, B)
  PROVE  /\ After(Tail(s), A, B)
         /\ Head(s) \in A => Range(Tail(s)) \cap B = {}
<1>1. /\ Tail(s) \in Seq(S)
      /\ Len(Tail(s)) = Len(s) - 1
      /\ \A i \in 1 .. Len(Tail(s)) : Tail(s)[i] = s[i + 1]
  BY HeadTailProperties
<1>2. /\ Len(s) \in Nat \ {0} /\ DOMAIN s = 1 .. Len(s)
      /\ DOMAIN Tail(s) = 1 .. Len(Tail(s))
      /\ Head(s) = s[1]
  BY <1>1, LenProperties, EmptySeq
<1>3. After(Tail(s), A, B)
  BY <1>1, <1>2 DEF After
<1>4. ASSUME Head(s) \in A, NEW i \in DOMAIN Tail(s)  PROVE  Tail(s)[i] \notin B
  <2>1. 1 \in DOMAIN s /\ i + 1 \in DOMAIN s /\ 1 < i + 1 /\ Tail(s)[i] = s[i + 1]
    BY <1>1, <1>2
  <2> QED BY <2>1, <1>2, <1>4 DEF After
<1> QED BY <1>3, <1>4 DEF Range

(* What several operations that fail at once, or several messages that are  *)
(* dropped at once, do to a queue.                                          *)
LEMMA ConcatAfter ==
  ASSUME NEW S, NEW s \in Seq(S), NEW t \in Seq(S), NEW A, NEW B,
         After(s, A, B), After(t, A, B),
         Range(s) \cap A = {} \/ Range(t) \cap B = {}
  PROVE  After(s \o t, A, B)
<1>1. /\ s \o t \in Seq(S)
      /\ Len(s \o t) = Len(s) + Len(t)
      /\ \A i \in 1 .. Len(s) + Len(t) :
           (s \o t)[i] = IF i <= Len(s) THEN s[i] ELSE t[i - Len(s)]
  BY ConcatProperties
<1>2. /\ Len(s) \in Nat /\ DOMAIN s = 1 .. Len(s)
      /\ Len(t) \in Nat /\ DOMAIN t = 1 .. Len(t)
      /\ DOMAIN (s \o t) = 1 .. Len(s) + Len(t)
  BY <1>1, LenProperties
<1>3. SUFFICES ASSUME NEW i \in DOMAIN (s \o t), NEW j \in DOMAIN (s \o t), i < j,
                      (s \o t)[i] \in A
               PROVE  (s \o t)[j] \notin B
  BY DEF After
<1>4. CASE j <= Len(s)
  <2>1. i \in DOMAIN s /\ j \in DOMAIN s /\ (s \o t)[i] = s[i] /\ (s \o t)[j] = s[j]
    BY <1>1, <1>2, <1>3, <1>4
  <2> QED BY <2>1, <1>3 DEF After
<1>5. CASE i <= Len(s) /\ ~(j <= Len(s))
  <2>1. /\ i \in DOMAIN s /\ (s \o t)[i] = s[i]
        /\ j - Len(s) \in DOMAIN t /\ (s \o t)[j] = t[j - Len(s)]
    BY <1>1, <1>2, <1>3, <1>5
  <2> QED BY <2>1, <1>3 DEF Range
<1>6. CASE ~(i <= Len(s))
  <2>1. /\ i - Len(s) \in DOMAIN t /\ (s \o t)[i] = t[i - Len(s)]
        /\ j - Len(s) \in DOMAIN t /\ (s \o t)[j] = t[j - Len(s)]
        /\ i - Len(s) < j - Len(s)
    BY <1>1, <1>2, <1>3, <1>6
  <2> QED BY <2>1, <1>3 DEF After
<1> QED BY <1>2, <1>4, <1>5, <1>6

(* A list of distinct messages stays one: at its end, at its front, joined. *)
LEMMA AppendOnce ==
  ASSUME NEW S, NEW s \in Seq(S), NEW x \in S, IsInjective(s), x \notin Range(s)
  PROVE  IsInjective(Append(s, x))
<1>1. /\ Append(s, x) \in Seq(S)
      /\ Len(Append(s, x)) = Len(s) + 1
      /\ \A i \in 1 .. Len(s) : Append(s, x)[i] = s[i]
      /\ Append(s, x)[Len(s) + 1] = x
  BY AppendProperties
<1>2. Len(s) \in Nat /\ DOMAIN s = 1 .. Len(s)
      /\ DOMAIN Append(s, x) = 1 .. Len(Append(s, x))
  BY <1>1, LenProperties
<1> QED BY <1>1, <1>2 DEF Range, IsInjective

(* What is left of a list of distinct messages when its first one is sent.  *)
LEMMA TailOnce ==
  ASSUME NEW S, NEW s \in Seq(S), s # <<>>, IsInjective(s)
  PROVE  IsInjective(Tail(s)) /\ Head(s) \notin Range(Tail(s))
<1>1. /\ Tail(s) \in Seq(S)
      /\ Len(Tail(s)) = Len(s) - 1
      /\ \A i \in 1 .. Len(Tail(s)) : Tail(s)[i] = s[i + 1]
  BY HeadTailProperties
<1>2. /\ Len(s) \in Nat \ {0} /\ DOMAIN s = 1 .. Len(s)
      /\ DOMAIN Tail(s) = 1 .. Len(Tail(s))
      /\ Head(s) = s[1]
  BY <1>1, LenProperties, EmptySeq
<1>3. IsInjective(Tail(s))
  <2>1. SUFFICES ASSUME NEW i \in DOMAIN Tail(s), NEW j \in DOMAIN Tail(s),
                        Tail(s)[i] = Tail(s)[j]
                 PROVE  i = j
    BY DEF IsInjective
  <2>2. i + 1 \in DOMAIN s /\ j + 1 \in DOMAIN s /\ s[i + 1] = s[j + 1]
    BY <1>1, <1>2, <2>1
  <2>3. i + 1 = j + 1
    BY <2>2 DEF IsInjective
  <2> QED BY <2>3, <1>2
<1>4. ASSUME NEW i \in DOMAIN Tail(s)  PROVE  Tail(s)[i] # Head(s)
  <2>1. 1 \in DOMAIN s /\ i + 1 \in DOMAIN s /\ i + 1 # 1 /\ Tail(s)[i] = s[i + 1]
    BY <1>1, <1>2
  <2> QED BY <2>1, <1>2 DEF IsInjective
<1> QED BY <1>3, <1>4 DEF Range

(* Two lists of distinct messages that share none, joined (sendAll).        *)
LEMMA ConcatOnce ==
  ASSUME NEW S, NEW s \in Seq(S), NEW t \in Seq(S), IsInjective(s), IsInjective(t),
         Range(s) \cap Range(t) = {}
  PROVE  IsInjective(s \o t)
<1>1. /\ s \o t \in Seq(S)
      /\ Len(s \o t) = Len(s) + Len(t)
      /\ \A i \in 1 .. Len(s) + Len(t) :
           (s \o t)[i] = IF i <= Len(s) THEN s[i] ELSE t[i - Len(s)]
  BY ConcatProperties
<1>2. /\ Len(s) \in Nat /\ DOMAIN s = 1 .. Len(s)
      /\ Len(t) \in Nat /\ DOMAIN t = 1 .. Len(t)
      /\ DOMAIN (s \o t) = 1 .. Len(s) + Len(t)
  BY <1>1, LenProperties
<1>3. SUFFICES ASSUME NEW i \in DOMAIN (s \o t), NEW j \in DOMAIN (s \o t), i < j,
                      (s \o t)[i] = (s \o t)[j]
               PROVE  FALSE
  BY <1>2 DEF IsInjective
<1>4. CASE j <= Len(s)
  <2>1. i \in DOMAIN s /\ j \in DOMAIN s /\ (s \o t)[i] = s[i] /\ (s \o t)[j] = s[j]
    BY <1>1, <1>2, <1>3, <1>4
  <2> QED BY <2>1, <1>2, <1>3 DEF IsInjective
<1>5. CASE i <= Len(s) /\ ~(j <= Len(s))
  <2>1. /\ i \in DOMAIN s /\ (s \o t)[i] = s[i]
        /\ j - Len(s) \in DOMAIN t /\ (s \o t)[j] = t[j - Len(s)]
    BY <1>1, <1>2, <1>3, <1>5
  <2> QED BY <2>1, <1>3 DEF Range
<1>6. CASE ~(i <= Len(s))
  <2>1. /\ i - Len(s) \in DOMAIN t /\ (s \o t)[i] = t[i - Len(s)]
        /\ j - Len(s) \in DOMAIN t /\ (s \o t)[j] = t[j - Len(s)]
        /\ i - Len(s) # j - Len(s)
    BY <1>1, <1>2, <1>3, <1>6
  <2> QED BY <2>1, <1>3 DEF IsInjective
<1> QED BY <1>2, <1>4, <1>5, <1>6

(* push_front, one message after the other, turns them round.               *)
LEMMA ReverseFacts ==
  ASSUME NEW S, NEW s \in Seq(S)
  PROVE  /\ Reverse(s) \in Seq(S)
         /\ Range(Reverse(s)) = Range(s)
         /\ IsInjective(s) => IsInjective(Reverse(s))
<1>1. Len(s) \in Nat /\ s \in [1 .. Len(s) -> S] /\ DOMAIN s = 1 .. Len(s)
  BY LenProperties
<1>2. /\ Reverse(s) \in [1 .. Len(s) -> S]
      /\ DOMAIN Reverse(s) = 1 .. Len(s)
      /\ \A i \in 1 .. Len(s) : Reverse(s)[i] = s[(Len(s) - i) + 1]
  BY <1>1 DEF Reverse
<1>3. Reverse(s) \in Seq(S)
  BY <1>1, <1>2, SeqDef
<1>4. ASSUME NEW i \in 1 .. Len(s)
      PROVE  /\ (Len(s) - i) + 1 \in 1 .. Len(s)
             /\ Reverse(s)[(Len(s) - i) + 1] = s[i]
  <2>1. (Len(s) - i) + 1 \in 1 .. Len(s) /\ (Len(s) - ((Len(s) - i) + 1)) + 1 = i
    BY <1>1
  <2> QED BY <2>1, <1>2
<1>5. Range(Reverse(s)) = Range(s)
  BY <1>1, <1>2, <1>4 DEF Range
<1>6. ASSUME IsInjective(s), NEW i \in 1 .. Len(s), NEW j \in 1 .. Len(s),
             Reverse(s)[i] = Reverse(s)[j]
      PROVE  i = j
  <2>1. (Len(s) - i) + 1 = (Len(s) - j) + 1
    BY <1>1, <1>2, <1>4, <1>6 DEF IsInjective
  <2> QED BY <2>1, <1>1
<1> QED BY <1>2, <1>3, <1>5, <1>6 DEF IsInjective

(* A queue of one element.                                                  *)
LEMMA SingleFacts ==
  ASSUME NEW S, NEW x \in S
  PROVE  <<x>> \in Seq(S) /\ Range(<<x>>) = {x}
<1>1. DOMAIN <<x>> = {1} /\ <<x>>[1] = x
  OBVIOUS
<1> QED BY <1>1 DEF Range

(* A finite set can be listed: SetToSeq does, in some order.                *)
LEMMA SetToSeqFacts ==
  ASSUME NEW S, IsFiniteSet(S)
  PROVE  /\ SetToSeq(S) \in Seq(S)
         /\ Range(SetToSeq(S)) = S
         /\ IsInjective(SetToSeq(S))
<1> DEFINE n == Cardinality(S)
           f == SetToSeq(S)
<1>1. n \in Nat /\ ExistsBijection(1 .. n, S)
  BY FS_CardinalityType
<1>2. \E g \in [1 .. n -> S] : IsInjective(g)
  BY <1>1 DEF ExistsBijection, Bijection, Injection
<1>3. f \in [1 .. n -> S] /\ IsInjective(f)
  BY <1>2 DEF SetToSeq
<1>4. IsFiniteSet(1 .. n) /\ Cardinality(1 .. n) = n
  BY <1>1, FS_Interval
<1>5. f \in Surjection(1 .. n, S)
  BY <1>3, <1>4, FS_Injection DEF Injection
<1>6. Range(f) = S
  BY <1>5, <1>3 DEF Surjection, Range
<1> QED BY <1>1, <1>3, <1>6, SeqDef

(* So do the sequences of SetToSeqs.                                        *)
LEMMA SetToSeqsFacts ==
  ASSUME NEW S, IsFiniteSet(S), NEW f \in SetToSeqs(S)
  PROVE  /\ f \in Seq(S)
         /\ Range(f) = S
         /\ IsInjective(f)
<1> DEFINE n == Cardinality(S)
<1>1. n \in Nat
  BY FS_CardinalityType
<1>2. f \in [1 .. n -> S] /\ IsInjective(f)
  BY DEF SetToSeqs, IsInjective
<1>3. IsFiniteSet(1 .. n) /\ Cardinality(1 .. n) = n
  BY <1>1, FS_Interval
<1>4. f \in Surjection(1 .. n, S)
  BY <1>2, <1>3, FS_Injection DEF Injection
<1>5. Range(f) = S
  BY <1>4, <1>2 DEF Surjection, Range
<1> QED BY <1>1, <1>2, <1>5, SeqDef

(* Only one element of one kind: counted by its positions in the queue.     *)
LEMMA OnceCardinality ==
  ASSUME NEW S, NEW s \in Seq(S), NEW x, After(s, {x}, {x})
  PROVE  /\ Cardinality({i \in DOMAIN s : s[i] = x}) <= 1
         /\ Cardinality({i \in DOMAIN s : s[i] = x}) = 1 <=> x \in Range(s)
<1> DEFINE P == {i \in DOMAIN s : s[i] = x}
<1>1. DOMAIN s = 1 .. Len(s) /\ Len(s) \in Nat
  BY LenProperties
<1>2. \A i, j \in P : i = j
  BY <1>1 DEF After
<1>3. ASSUME P = {}  PROVE  Cardinality(P) = 0 /\ x \notin Range(s)
  <2> HIDE DEF P
  <2>1. Cardinality(P) = 0
    BY <1>3, FS_EmptySet
  <2> QED BY <2>1, <1>3 DEF P, Range
<1>4. ASSUME NEW k \in P  PROVE  Cardinality(P) = 1 /\ x \in Range(s)
  <2>1. P = {k}
    BY <1>2
  <2> HIDE DEF P
  <2>2. Cardinality(P) = 1
    BY <2>1, FS_Singleton
  <2> QED BY <2>2 DEF P, Range
<1>5. CASE P = {}
  BY <1>3, <1>5
<1>6. CASE P # {}
  BY <1>4, <1>6
<1> QED BY <1>5, <1>6

-----------------------------------------------------------------------------
(* The inductive invariant.                                                 *)

Done(names) == {c \in Completions : c.op \in names}

(* The types that hold by themselves: that pendingWrite and the counters    *)
(* are natural numbers follows from what they count.                        *)
Types ==
  /\ conn \in ConnectionState
  /\ socket \in {"open", "closed", "deleted"}
  /\ registered \in BOOLEAN /\ receivedFirst \in BOOLEAN
  /\ readError \in BOOLEAN /\ writeError \in BOOLEAN
  /\ bound \in BOOLEAN /\ protoConn \in BOOLEAN /\ client \in BOOLEAN
  /\ readTimer \in BOOLEAN /\ writeTimer \in BOOLEAN
  /\ pendingRead \in {0, 1}
  /\ pendingWrite \in Int /\ refC \in Int /\ refP \in Int
  /\ proto \in {"none", "alive", "releasing", "deleted"}
  /\ buffer \in Messages \cup {NoMsg} /\ dropping \in Messages \cup {NoMsg}
  /\ autoSend \in Seq(Messages) /\ toAdd \in Seq(Messages)
  /\ reading \in {"none", "header", "body"}
  /\ writing \in SUBSET Messages
  /\ ioQueue \in Seq(Completions)
  /\ tasks \in Seq(Tasks)
  /\ running \in {"none", "game", "login", "proto", "connect", "done"}
  /\ events \in SUBSET {"connect", "releaseConnection", "releaseProtocol"}

(* The order of the dispatcher's queue: of each of these tasks there is one *)
(* at most, and nothing of the protocol is behind closeConnectionTask.      *)
TaskOrder ==
  /\ \A m \in Messages : After(tasks, {m}, {m})
  /\ After(tasks, {"connect"}, {"connect"})
  /\ After(tasks, {"close"}, {"close", "login", "proto"})
  /\ After(tasks, {"releaseProtocol"}, {"releaseProtocol"})
  /\ After(tasks, {"releaseConnection"}, {"releaseConnection"})

(* The order of the io queue: one write at most, and the handlers that need *)
(* the socket before onStopOperation.                                       *)
IoOrder ==
  /\ After(ioQueue, Done({"write"}), Done({"write"}))
  /\ After(ioQueue, Done({"stop"}), Done({"header", "body", "write", "stop"}))

(* m_pendingWrite keeps the writes apart.                                   *)
Writes ==
  /\ \A m, n \in writing : m = n
  /\ writing # {} => Written = {}
  /\ pendingWrite \in {0, 1}
  /\ conn = "OPEN" => (pendingWrite = 0 <=> writing \cup Written = {})

(* Every message is in one place, the one that a handler drops included.    *)
Returning == QueuedFree \cup ({dropping} \cap Messages)

Placed ==
  /\ IsInjective(autoSend)
  /\ IsInjective(toAdd)
  /\ Range(autoSend) \cap Range(toAdd) = {}
  /\ (Range(autoSend) \cup Range(toAdd)) \cap (writing \cup Written \cup Returning) = {}
  /\ (writing \cup Written) \cap Returning = {}
  /\ dropping \notin QueuedFree

(* The counters count.                                                      *)
Counted ==
  /\ IsFiniteSet(Used)
  /\ refC = Cardinality(Used)
  /\ refP = refC + (IF Appointed THEN 1 ELSE 0)
  /\ "connect" \in events => "connect" \notin Range(tasks)

(* Until closeConnectionTask has run the connection and its protocol are    *)
(* bound to each other.                                                     *)
Requested ==
  /\ conn = "REQUEST_CLOSE" <=> "close" \in Range(tasks)
  /\ bound <=> proto = "alive"
  /\ protoConn <=> bound
  /\ conn \in {"CLOSING", "CLOSED"} => ~bound
  /\ conn \in {"OPEN", "REQUEST_CLOSE"} => proto \in {"none", "alive"}
  /\ conn = "OPEN" /\ receivedFirst => bound
  /\ {"login", "proto"} \cap (Range(tasks) \cup {running}) # {} => bound

(* One event or task releases the protocol again, while something refers to *)
(* it, and nothing does that is not counted.                                *)
ProtocolLives ==
  /\ "releaseProtocol" \in events \cup Range(tasks) <=> proto = "releasing"
  /\ "releaseProtocol" \in events => "releaseProtocol" \notin Range(tasks)
  /\ proto \in {"none", "deleted"} => refP = 0 /\ ~client /\ running # "connect"
  /\ buffer # NoMsg => buffer \in Range(autoSend) \cup Range(toAdd)

(* The socket is closed before the connection is released; then one event,  *)
(* task or operation is on its way to delete it, and it is the operation    *)
(* only when no message is left.                                            *)
Released ==
  /\ conn = "CLOSED" => socket # "open"
  /\ socket # "open" => conn # "OPEN" /\ reading = "none" /\ writing = {}
  /\ registered <=> socket # "deleted"
  /\ Range(ioQueue) \cap Done({"stop"}) # {} \/ socket = "deleted" =>
       /\ conn = "CLOSED"
       /\ Used = {}
       /\ "releaseConnection" \notin events \cup Range(tasks)
  /\ socket = "deleted" =>
       Range(ioQueue) \cap Done({"header", "body", "write", "stop"}) = {}
  /\ "releaseConnection" \in events \cup Range(tasks) => conn = "CLOSED"
  /\ "releaseConnection" \in events => "releaseConnection" \notin Range(tasks)

IInv == /\ Types /\ TaskOrder /\ IoOrder /\ Writes /\ Placed /\ Counted
        /\ Requested /\ ProtocolLives /\ Released

-----------------------------------------------------------------------------
(* What the steps do to the two queues.                                     *)

MessagesOf(q) == {c.msg : c \in {d \in Range(q) : d.op = "write"}}

(* Written depends on what is queued only, not on where.                    *)
LEMMA WrittenIs ==
  /\ Written = MessagesOf(ioQueue)
  /\ Written' = MessagesOf(ioQueue')
<1>1. Written = MessagesOf(ioQueue)
  BY DEF Written, MessagesOf, Range
<1>2. Written' = MessagesOf(ioQueue')
  BY DEF Written, MessagesOf, Range
<1> QED BY <1>1, <1>2

(* A message is Written when the handler of its write is to run.            *)
LEMMA WrittenEmpty ==
  ASSUME ioQueue \in Seq(Completions)
  PROVE  Written = {} <=> Range(ioQueue) \cap Done({"write"}) = {}
<1>1. Range(ioQueue) \subseteq Completions
  BY RangeOfSeq
<1> QED BY <1>1, WrittenIs DEF MessagesOf, Done

(* An operation completes: its handler is queued.                           *)
IoAdded(c) ==
  /\ ioQueue' \in Seq(Completions)
  /\ Range(ioQueue') = Range(ioQueue) \cup {c}
  /\ Written' = Written \cup (IF c.op = "write" THEN {c.msg} ELSE {})

(* A read, a write or a timer completes: its handler goes behind the others.*)
LEMMA OperationCompletes ==
  ASSUME Types, NEW c \in Completions, ioQueue' = Append(ioQueue, c)
  PROVE  IoAdded(c)
<1>1. ioQueue' \in Seq(Completions) /\ Range(ioQueue') = Range(ioQueue) \cup {c}
  BY AppendFacts DEF Types
<1>2. Written' = Written \cup (IF c.op = "write" THEN {c.msg} ELSE {})
  BY <1>1, WrittenIs DEF MessagesOf
<1> QED BY <1>1, <1>2 DEF IoAdded

(* A handler runs: it takes its operation from the queue, and the order of  *)
(* the queue says what is not behind it.                                    *)
IoTaken(c, rest) ==
  /\ c \in Completions
  /\ rest \in Seq(Completions)
  /\ Range(ioQueue) = {c} \cup Range(rest)
  /\ Written = MessagesOf(rest) \cup (IF c.op = "write" THEN {c.msg} ELSE {})
  /\ c.op = "write" => c.msg \in Messages /\ MessagesOf(rest) = {}
  /\ c.op = "stop" =>
       Range(rest) \cap Done({"header", "body", "write", "stop"}) = {}
  /\ ioQueue' = rest => Written' = MessagesOf(rest)

(* The io thread takes the first operation; no second write and, behind     *)
(* onStopOperation, nothing that needs the socket is queued.                *)
LEMMA HandlerRuns ==
  ASSUME Types, IoOrder, NEW name, Runs(name)
  PROVE  IoTaken(Head(ioQueue), Tail(ioQueue)) /\ Head(ioQueue).op = name
<1> DEFINE c == Head(ioQueue)
           rest == Tail(ioQueue)
<1>1. ioQueue \in Seq(Completions) /\ ioQueue # <<>> /\ c.op = name
  BY DEF Types, Runs
<1>2. c \in Completions /\ rest \in Seq(Completions) /\ Range(ioQueue) = {c} \cup Range(rest)
  BY <1>1, TailFacts
<1>3. /\ c \in Done({"write"}) => Range(rest) \cap Done({"write"}) = {}
      /\ c \in Done({"stop"}) => Range(rest) \cap Done({"header", "body", "write", "stop"}) = {}
  BY <1>1, TailAfter DEF IoOrder
<1> HIDE DEF c, rest
<1>4. Written = MessagesOf(rest) \cup (IF c.op = "write" THEN {c.msg} ELSE {})
  BY <1>2, WrittenIs DEF MessagesOf
<1>5. Range(rest) \subseteq Completions
  BY <1>2, RangeOfSeq
<1>6. c.op = "write" => c.msg \in Messages /\ MessagesOf(rest) = {}
  BY <1>2, <1>3, <1>5 DEF MessagesOf, Done, Completions
<1>7. c.op = "stop" => Range(rest) \cap Done({"header", "body", "write", "stop"}) = {}
  BY <1>2, <1>3 DEF Done
<1>8. IoTaken(c, rest)
  BY <1>2, <1>4, <1>6, <1>7, WrittenIs DEF IoTaken
<1> QED BY <1>1, <1>8 DEF c, rest

(* The handler of anything but a write.                                     *)
IoRest(name) ==
  /\ ioQueue' \in Seq(Completions)
  /\ Head(ioQueue) \in Completions
  /\ Head(ioQueue).op = name
  /\ Range(ioQueue) = {Head(ioQueue)} \cup Range(ioQueue')
  /\ Written' = Written
  /\ name = "stop" =>
       Range(ioQueue') \cap Done({"header", "body", "write", "stop"}) = {}

(* The same for the handlers that hold no message.                          *)
LEMMA HandlerRests ==
  ASSUME Types, IoOrder, NEW name, Runs(name), name # "write", ioQueue' = Tail(ioQueue)
  PROVE  IoRest(name)
<1>1. IoTaken(Head(ioQueue), ioQueue') /\ Head(ioQueue).op = name
  BY HandlerRuns
<1> QED BY <1>1 DEF IoTaken, IoRest

(* A task is added.                                                         *)
TaskAdded(x) ==
  /\ tasks' \in Seq(Tasks)
  /\ Range(tasks') = Range(tasks) \cup {x}
  /\ x \in Messages => QueuedFree' = QueuedFree \cup {x}
  /\ x \in OtherTasks => QueuedFree' = QueuedFree

(* addTask of one task, a message to release or another.                    *)
LEMMA AddTask ==
  ASSUME Types, NEW x \in Tasks, tasks' = Append(tasks, x)
  PROVE  TaskAdded(x)
<1>1. tasks' \in Seq(Tasks) /\ Range(tasks') = Range(tasks) \cup {x}
  BY AppendFacts DEF Types
<1> QED BY <1>1, MessageAssumption DEF TaskAdded, QueuedFree

(* A task is taken; of the tasks that are there once none is left.          *)
TaskTaken(x) ==
  /\ x \in Tasks
  /\ tasks' \in Seq(Tasks)
  /\ Range(tasks) = {x} \cup Range(tasks')
  /\ x \in Messages => QueuedFree' = QueuedFree \ {x} /\ x \in QueuedFree
  /\ x \in OtherTasks => QueuedFree' = QueuedFree
  /\ x \in Messages \cup {"connect", "releaseConnection", "releaseProtocol"} =>
       x \notin Range(tasks')
  /\ x = "close" => Range(tasks') \cap {"close", "login", "proto"} = {}

(* The dispatcher takes a task: where TaskOrder says so it was the only one,*)
(* and behind closeConnectionTask there is no login.                        *)
LEMMA TakeTaskFacts ==
  ASSUME Types, TaskOrder, NEW x, Takes(x), tasks' = Tail(tasks)
  PROVE  TaskTaken(x)
<1>1. tasks \in Seq(Tasks) /\ tasks # <<>> /\ Head(tasks) = x
  BY DEF Types, Takes
<1>2. x \in Tasks /\ tasks' \in Seq(Tasks) /\ Range(tasks) = {x} \cup Range(tasks')
  BY <1>1, TailFacts
<1>3. ASSUME x \in Messages \cup {"connect", "releaseConnection", "releaseProtocol"}
      PROVE  x \notin Range(tasks')
  <2>1. After(tasks, {x}, {x})
    BY <1>3 DEF TaskOrder
  <2> QED BY <1>1, <2>1, TailAfter
<1>4. x = "close" => Range(tasks') \cap {"close", "login", "proto"} = {}
  BY <1>1, TailAfter DEF TaskOrder
<1>5. x \in Messages => QueuedFree' = QueuedFree \ {x} /\ x \in QueuedFree
  BY <1>2, <1>3 DEF QueuedFree
<1>6. x \in OtherTasks => QueuedFree' = QueuedFree
  BY <1>2, MessageAssumption DEF QueuedFree
<1> QED BY <1>2, <1>3, <1>4, <1>5, <1>6 DEF TaskTaken

(* closeConnection() asks for closeConnectionTask once.                     *)
Closes ==
  /\ tasks' \in Seq(Tasks)
  /\ QueuedFree' = QueuedFree
  /\ conn' = (IF conn = "OPEN" THEN "REQUEST_CLOSE" ELSE conn)
  /\ Range(tasks') = Range(tasks) \cup (IF conn = "OPEN" THEN {"close"} ELSE {})
  /\ tasks' = (IF conn = "OPEN" THEN Append(tasks, "close") ELSE tasks)

(* closeConnection adds closeConnectionTask only to a connection that is    *)
(* OPEN.                                                                    *)
LEMMA CloseConnectionFacts ==
  ASSUME Types, CloseConnection(<<>>)
  PROVE  Closes
<1>1. tasks \in Seq(Tasks) /\ "close" \in Tasks /\ "close" \in OtherTasks
  BY DEF Types, Tasks, OtherTasks
<1>2. tasks \o <<>> = tasks /\ tasks \o <<"close">> = Append(tasks, "close")
  BY <1>1, ConcatEmptySeq, AppendIsConcat
<1>3. CASE conn = "OPEN"
  <2>1. conn' = "REQUEST_CLOSE" /\ tasks' = Append(tasks, "close")
    BY <1>2, <1>3 DEF CloseConnection
  <2>2. TaskAdded("close")
    BY <1>1, <2>1, AddTask
  <2> QED BY <1>1, <1>3, <2>1, <2>2 DEF Closes, TaskAdded
<1>4. CASE conn # "OPEN"
  BY <1>1, <1>2, <1>4 DEF CloseConnection, Closes, QueuedFree
<1> QED BY <1>3, <1>4

(* closeSocket() lets fail what has not completed.                          *)
FailedOps ==
  (IF reading = "none" THEN {} ELSE {[op |-> reading, ok |-> FALSE]})
    \cup {[op |-> "write", msg |-> m, ok |-> FALSE] : m \in writing}

(* What closeSocket lets fail: the read that waits and the write that is    *)
(* under way, one at most each, and never onStopOperation.                  *)
LEMMA FailedFacts ==
  ASSUME Types, Writes
  PROVE  /\ Failed \in Seq(Completions)
         /\ Range(Failed) = FailedOps
         /\ FailedOps \subseteq Done({"header", "body", "write"})
         /\ MessagesOf(Failed) = writing
         /\ After(Failed, Done({"write"}), Done({"write"}))
         /\ After(Failed, Done({"stop"}), Done({"header", "body", "write", "stop"}))
<1> DEFINE R == IF reading = "none" THEN <<>> ELSE <<[op |-> reading, ok |-> FALSE]>>
           W == {[op |-> "write", msg |-> m, ok |-> FALSE] : m \in writing}
<1>1. W \subseteq Completions /\ W \subseteq Done({"write"})
  <2>1. ASSUME NEW m \in writing
        PROVE  [op |-> "write", msg |-> m, ok |-> FALSE] \in Done({"write"})
    <3>1. m \in Messages
      BY DEF Types
    <3> QED BY <3>1 DEF Completions, Done
  <2> QED BY <2>1 DEF Done
<1>2. IsFiniteSet(W) /\ \A c, d \in W : c = d
  <2>1. CASE writing = {}
    BY <2>1, FS_EmptySet
  <2>2. ASSUME NEW m \in writing  PROVE  IsFiniteSet(W) /\ \A c, d \in W : c = d
    <3>1. writing = {m}
      BY DEF Writes
    <3>2. W = {[op |-> "write", msg |-> m, ok |-> FALSE]}
      BY <3>1
    <3> HIDE DEF W
    <3> QED BY <3>2, FS_Singleton
  <2> QED BY <2>1, <2>2
<1>3. SetToSeq(W) \in Seq(W) /\ Range(SetToSeq(W)) = W /\ IsInjective(SetToSeq(W))
  BY <1>2, SetToSeqFacts
<1>4. SetToSeq(W) \in Seq(Completions)
  BY <1>1, <1>3, SeqMonotonic
<1>5. /\ R \in Seq(Completions)
      /\ Range(R) = (IF reading = "none" THEN {} ELSE {[op |-> reading, ok |-> FALSE]})
      /\ Range(R) \subseteq Done({"header", "body"})
  <2>1. CASE reading = "none"
    BY <2>1 DEF Range
  <2>2. CASE reading # "none"
    <3>1. [op |-> reading, ok |-> FALSE] \in Done({"header", "body"})
      BY <2>2 DEF Types, Done, Completions
    <3>2. [op |-> reading, ok |-> FALSE] \in Completions
      BY <3>1 DEF Done
    <3> DEFINE r == [op |-> reading, ok |-> FALSE]
    <3>3. R = <<r>>
      BY <2>2
    <3> HIDE DEF R, r
    <3>4. R \in Seq(Completions) /\ Range(R) = {r}
      BY <3>2, <3>3, SingleFacts DEF r
    <3> QED BY <3>1, <3>4, <2>2 DEF r
  <2> QED BY <2>1, <2>2
<1>6. Failed = R \o SetToSeq(W)
  BY DEF Failed
<1> HIDE DEF R, W
<1>7. Failed \in Seq(Completions) /\ Range(Failed) = Range(R) \cup W
  BY <1>3, <1>4, <1>5, <1>6, ConcatProperties, RangeConcatenation
<1>8. Range(Failed) = FailedOps
  BY <1>5, <1>7 DEF FailedOps, W
<1>9. FailedOps \subseteq Done({"header", "body", "write"})
  BY <1>1, <1>5, <1>7, <1>8 DEF Done
<1>10. MessagesOf(Failed) = writing
  <2>1. ASSUME NEW c \in FailedOps, c.op = "write"  PROVE  c.msg \in writing
    BY <2>1 DEF FailedOps, Types
  <2>2. ASSUME NEW m \in writing
        PROVE  \E c \in FailedOps : c.op = "write" /\ c.msg = m
    <3> DEFINE c == [op |-> "write", msg |-> m, ok |-> FALSE]
    <3>1. c \in FailedOps /\ c.op = "write" /\ c.msg = m
      BY DEF FailedOps
    <3> QED BY <3>1
  <2> QED BY <1>8, <2>1, <2>2 DEF MessagesOf
<1>11. After(Failed, Done({"write"}), Done({"write"}))
  <2>1. After(R, Done({"write"}), Done({"write"}))
    BY <1>5 DEF After, Range, Done
  <2>2. After(SetToSeq(W), Done({"write"}), Done({"write"}))
    <3>1. DOMAIN SetToSeq(W) = 1 .. Len(SetToSeq(W)) /\ Len(SetToSeq(W)) \in Nat
      BY <1>3, LenProperties
    <3>2. \A i, j \in DOMAIN SetToSeq(W) : i = j
      BY <1>2, <1>3 DEF IsInjective, Range
    <3> QED BY <3>1, <3>2 DEF After
  <2>3. Range(R) \cap Done({"write"}) = {}
    BY <1>5 DEF Done
  <2> QED BY <1>4, <1>5, <1>6, <2>1, <2>2, <2>3, ConcatAfter
<1>12. After(Failed, Done({"stop"}), Done({"header", "body", "write", "stop"}))
  <2>1. Range(Failed) \cap Done({"stop"}) = {}
    BY <1>8, <1>9 DEF Done
  <2> QED BY <2>1 DEF After, Range
<1> QED BY <1>7, <1>8, <1>9, <1>10, <1>11, <1>12

SocketClosed(before, after) ==
  /\ ioQueue' \in Seq(Completions)
  /\ socket' # "open" /\ pendingRead' \in {0, pendingRead}
  /\ \/ /\ socket = "open"
        /\ socket' = "closed"
        /\ pendingWrite' = 0 /\ reading' = "none" /\ writing' = {}
        /\ Range(ioQueue') = Range(before) \cup FailedOps \cup Range(after)
        /\ FailedOps \subseteq Done({"header", "body", "write"})
        /\ Written' = MessagesOf(before) \cup writing \cup MessagesOf(after)
     \/ /\ socket # "open"
        /\ UNCHANGED <<socket, pendingWrite, reading, writing>>
        /\ Range(ioQueue') = Range(before) \cup Range(after)
        /\ Written' = MessagesOf(before) \cup MessagesOf(after)

(* closeSocket of an open socket, and of one that was closed before.        *)
LEMMA CloseSocketFacts ==
  ASSUME Types, Writes, NEW before \in Seq(Completions), NEW after \in Seq(Completions),
         CloseSocket(before, after)
  PROVE  SocketClosed(before, after)
<1>1. CASE socket = "open"
  <2>1. /\ socket' = "closed" /\ pendingRead' = 0 /\ pendingWrite' = 0
        /\ reading' = "none" /\ writing' = {}
        /\ ioQueue' = before \o Failed \o after
    BY <1>1 DEF CloseSocket
  <2>2. /\ Failed \in Seq(Completions) /\ Range(Failed) = FailedOps
        /\ FailedOps \subseteq Done({"header", "body", "write"})
        /\ MessagesOf(Failed) = writing
    BY FailedFacts
  <2>3. before \o Failed \in Seq(Completions)
        /\ Range(before \o Failed) = Range(before) \cup FailedOps
    BY <2>2, ConcatProperties, RangeConcatenation
  <2>4. ioQueue' \in Seq(Completions)
        /\ Range(ioQueue') = Range(before) \cup FailedOps \cup Range(after)
    <3> DEFINE s == before \o Failed
    <3> HIDE DEF s
    <3>1. s \in Seq(Completions)
      BY <2>3 DEF s
    <3>2. s \o after \in Seq(Completions)
      BY <3>1, ConcatProperties
    <3>3. Range(s \o after) = Range(s) \cup Range(after)
      BY <3>1, RangeConcatenation
    <3> QED BY <2>1, <2>3, <3>2, <3>3 DEF s
  <2>5. Written' = MessagesOf(before) \cup writing \cup MessagesOf(after)
    BY <2>2, <2>4, WrittenIs DEF MessagesOf
  <2> QED BY <1>1, <2>1, <2>2, <2>4, <2>5 DEF SocketClosed
<1>2. CASE socket # "open"
  <2>1. ioQueue' = before \o after /\ UNCHANGED <<socket, pendingRead, pendingWrite, reading, writing>>
    BY <1>2 DEF CloseSocket, sock, pending, ops
  <2>2. ioQueue' \in Seq(Completions) /\ Range(ioQueue') = Range(before) \cup Range(after)
    BY <2>1, ConcatProperties, RangeConcatenation
  <2>3. Written' = MessagesOf(before) \cup MessagesOf(after)
    BY <2>2, WrittenIs DEF MessagesOf
  <2> QED BY <1>2, <2>1, <2>2, <2>3 DEF SocketClosed
<1> QED BY <1>1, <1>2

(* TaskOrder, step by step.                                                 *)
MayAdd(x) ==
  /\ x \in Tasks
  /\ x \in Messages \cup {"connect", "close", "releaseConnection", "releaseProtocol"} =>
       x \notin Range(tasks)
  /\ x \in {"login", "proto"} => "close" \notin Range(tasks)

(* A task that MayAdd allows goes to the end of the queue.                  *)
LEMMA TaskOrderAdd ==
  ASSUME Types, TaskOrder, NEW x, MayAdd(x), tasks' = Append(tasks, x)
  PROVE  TaskOrder'
<1>1. tasks \in Seq(Tasks) /\ x \in Tasks
  BY DEF Types, MayAdd
<1>2. ASSUME NEW A, NEW B, After(tasks, A, B), x \notin B \/ Range(tasks) \cap A = {}
      PROVE  After(tasks', A, B)
  BY <1>1, <1>2, AppendAfter
<1>3. ASSUME NEW y \in Messages \cup {"connect", "releaseConnection", "releaseProtocol"}
      PROVE  After(tasks', {y}, {y})
  <2>1. After(tasks, {y}, {y})
    BY DEF TaskOrder
  <2>2. x \notin {y} \/ Range(tasks) \cap {y} = {}
    BY DEF MayAdd
  <2> QED BY <1>2, <2>1, <2>2
<1>4. After(tasks', {"close"}, {"close", "login", "proto"})
  <2>1. After(tasks, {"close"}, {"close", "login", "proto"})
    BY DEF TaskOrder
  <2>2. x \notin {"close", "login", "proto"} \/ Range(tasks) \cap {"close"} = {}
    BY DEF MayAdd
  <2> QED BY <1>2, <2>1, <2>2
<1> QED BY <1>3, <1>4 DEF TaskOrder

(* Taking the first task keeps the order of the others.                     *)
LEMMA TaskOrderTake ==
  ASSUME Types, TaskOrder, NEW x, Takes(x), tasks' = Tail(tasks)
  PROVE  TaskOrder'
<1>1. tasks \in Seq(Tasks) /\ tasks # <<>>
  BY DEF Types, Takes
<1>2. ASSUME NEW A, NEW B, After(tasks, A, B)
      PROVE  After(tasks', A, B)
  BY <1>1, <1>2, TailAfter
<1> QED BY <1>2 DEF TaskOrder

(* closeConnection keeps the order: the first request of an OPEN connection *)
(* is the only one.                                                         *)
LEMMA TaskOrderClose ==
  ASSUME Types, TaskOrder, Requested, CloseConnection(<<>>)
  PROVE  TaskOrder'
<1>1. Closes
  BY CloseConnectionFacts
<1>2. CASE conn = "OPEN"
  <2>1. MayAdd("close")
    BY <1>2, MessageAssumption DEF MayAdd, Requested, Tasks, OtherTasks
  <2> QED BY <1>1, <1>2, <2>1, TaskOrderAdd DEF Closes
<1>3. CASE conn # "OPEN"
  BY <1>1, <1>3 DEF Closes, TaskOrder
<1> QED BY <1>2, <1>3

(* IoOrder, step by step.                                                   *)
LEMMA IoOrderTake ==
  ASSUME Types, IoOrder, ioQueue # <<>>, ioQueue' = Tail(ioQueue)
  PROVE  IoOrder'
  BY TailAfter DEF Types, IoOrder

(* What completes goes behind the others.                                   *)
LEMMA IoOrderAdd ==
  ASSUME Types, IoOrder, NEW c \in Completions, ioQueue' = Append(ioQueue, c),
         c.op = "write" => Written = {},
         c.op \in {"header", "body", "write", "stop"} => Range(ioQueue) \cap Done({"stop"}) = {}
  PROVE  IoOrder'
<1>1. ioQueue \in Seq(Completions)
  BY DEF Types
<1>2. ASSUME NEW A, NEW B, After(ioQueue, A, B), c \notin B \/ Range(ioQueue) \cap A = {}
      PROVE  After(ioQueue', A, B)
  BY <1>1, <1>2, AppendAfter
<1>3. c \notin Done({"write"}) \/ Range(ioQueue) \cap Done({"write"}) = {}
  BY <1>1, WrittenEmpty DEF Done
<1>4. \/ c \notin Done({"header", "body", "write", "stop"})
      \/ Range(ioQueue) \cap Done({"stop"}) = {}
  BY DEF Done
<1> QED BY <1>2, <1>3, <1>4 DEF IoOrder

(* What closeSocket() does to a queue that is in order: when the socket is  *)
(* open, onStopOperation was not posted, and what is written is not queued. *)
LEMMA IoOrderClose ==
  ASSUME Types, Writes, NEW before \in Seq(Completions), NEW after,
         CloseSocket(before, after),
         After(before, Done({"write"}), Done({"write"})),
         After(before, Done({"stop"}), Done({"header", "body", "write", "stop"})),
         after \in {<<>>, <<[op |-> "stop"]>>},
         socket = "open" \/ after # <<>> => Range(before) \cap Done({"stop"}) = {},
         writing # {} => Range(before) \cap Done({"write"}) = {}
  PROVE  IoOrder'
<1> DEFINE W == Done({"write"})
           S == Done({"stop"})
           B == Done({"header", "body", "write", "stop"})
<1>1. /\ after \in Seq(Completions)
      /\ Range(after) \cap W = {}
      /\ After(after, W, W) /\ After(after, S, B)
      /\ Range(after) # {} => after # <<>>
  <2>1. CASE after = <<>>
    BY <2>1 DEF After, Range
  <2>2. CASE after = <<[op |-> "stop"]>>
    <3> DEFINE stop == [op |-> "stop"]
    <3>1. stop \in Completions /\ stop \notin W
      BY DEF Completions, Done
    <3> HIDE DEF stop
    <3>2. after \in Seq(Completions) /\ Range(after) = {stop}
      BY <2>2, <3>1, SingleFacts DEF stop
    <3>3. DOMAIN after = {1}
      BY <2>2
    <3>4. After(after, W, W) /\ After(after, S, B)
      BY <3>3 DEF After
    <3> QED BY <2>2, <3>1, <3>2, <3>4
  <2> QED BY <2>1, <2>2
<1>2. CASE socket = "open"
  <2> DEFINE s == before \o Failed
  <2>1. /\ Failed \in Seq(Completions) /\ Range(Failed) = FailedOps
        /\ FailedOps \subseteq Done({"header", "body", "write"})
        /\ After(Failed, W, W) /\ After(Failed, S, B)
    BY FailedFacts
  <2>2. Range(before) \cap W = {} \/ Range(Failed) \cap W = {}
    BY <2>1 DEF FailedOps, Done, Types
  <2>3. /\ s \in Seq(Completions)
        /\ Range(s) = Range(before) \cup Range(Failed)
        /\ After(s, W, W)
    BY <2>1, <2>2, ConcatProperties, RangeConcatenation, ConcatAfter
  <2>4. Range(before) \cap S = {} /\ Range(Failed) \cap S = {}
    BY <1>2, <2>1 DEF Done
  <2>5. After(s, S, B)
    BY <2>1, <2>4, ConcatAfter
  <2>6. Range(s) \cap S = {}
    BY <2>3, <2>4
  <2>7. ioQueue' = s \o after
    BY <1>2 DEF CloseSocket
  <2> HIDE DEF s
  <2>8. After(ioQueue', W, W)
    BY <1>1, <2>3, <2>7, ConcatAfter
  <2>9. After(ioQueue', S, B)
    BY <1>1, <2>3, <2>5, <2>6, <2>7, ConcatAfter
  <2> QED BY <2>8, <2>9 DEF IoOrder
<1>3. CASE socket # "open"
  <2>1. ioQueue' = before \o after
    BY <1>3 DEF CloseSocket
  <2>2. After(ioQueue', W, W)
    BY <1>1, <2>1, ConcatAfter
  <2>3. Range(before) \cap S = {} \/ Range(after) \cap B = {}
    BY <1>1
  <2>4. After(ioQueue', S, B)
    BY <1>1, <2>1, <2>3, ConcatAfter
  <2> QED BY <2>2, <2>4 DEF IoOrder
<1> QED BY <1>2, <1>3

(* What onStopOperation is posted for, and what is counted then.            *)
LEMMA PostStopFacts ==
  ASSUME IInv
  PROVE  /\ refC \in Nat /\ refP \in Nat
         /\ refC = 0 => Used = {}
         /\ PostStop \in {<<>>, <<[op |-> "stop"]>>}
         /\ PostStop \in Seq(Completions)
         /\ Range(PostStop) = (IF refC > 0 THEN {} ELSE {[op |-> "stop"]})
         /\ MessagesOf(PostStop) = {}
<1>1. refC \in Nat /\ refP \in Nat
  BY FS_CardinalityType DEF IInv, Counted
<1>2. refC = 0 => Used = {}
  BY FS_EmptySet DEF IInv, Counted
<1> DEFINE stop == [op |-> "stop"]
<1>3. stop \in Completions /\ stop.op = "stop"
  BY DEF Completions
<1> HIDE DEF stop
<1>4. <<stop>> \in Seq(Completions) /\ Range(<<stop>>) = {stop}
  BY <1>3, SingleFacts
<1>5. <<>> \in Seq(Completions) /\ Range(<<>>) = {}
  BY DEF Range
<1>6. PostStop = IF refC > 0 THEN <<>> ELSE <<stop>>
  BY DEF PostStop, stop
<1>7. PostStop \in Seq(Completions) /\ Range(PostStop) = (IF refC > 0 THEN {} ELSE {stop})
  BY <1>4, <1>5, <1>6
<1>8. MessagesOf(PostStop) = {}
  BY <1>3, <1>7 DEF MessagesOf
<1>9. PostStop \in {<<>>, <<stop>>}
  BY <1>6
<1> QED BY <1>1, <1>2, <1>7, <1>8, <1>9 DEF stop

(* closeSocket whose caller posts nothing behind it.                        *)
LEMMA NothingPosted ==
  <<>> \in Seq(Completions) /\ Range(<<>>) = {} /\ MessagesOf(<<>>) = {}
<1>1. Range(<<>>) = {}
  BY DEF Range
<1> QED BY <1>1 DEF MessagesOf

(* parseHeader or parsePacket gives up and requests to close.               *)
LEMMA AbandonReadStep ==
  ASSUME IInv, NEW op \in {"header", "body"}, AbandonRead(op)
  PROVE  IInv'
<1>1. /\ readError' \in {readError, ~Head(ioQueue).ok, TRUE}
      /\ readTimer' = FALSE
      /\ UNCHANGED <<registered, socket, receivedFirst, writeError,
         pendingRead, pendingWrite, refC, bound, proto, protoConn, refP,
         client, buffer, autoSend, toAdd, reading, writing, writeTimer,
         dropping, running, events>>
  BY DEF AbandonRead, flags, pending, ops, sock, timers, io, counts, owner,
     pool, objects, thread
<1>2. IoRest(op)
  BY HandlerRests DEF IInv, AbandonRead
<1>3. Closes
  BY CloseConnectionFacts DEF IInv, AbandonRead
<1>4. Types'
  <2>1. ioQueue' \in Seq(Completions) /\ tasks' \in Seq(Tasks) /\ conn' \in ConnectionState
    BY <1>1, <1>2, <1>3 DEF IInv, Types, ConnectionState, Closes, IoRest
  <2>2. Head(ioQueue).ok \in BOOLEAN
    BY <1>2 DEF IoRest, Completions
  <2>3. readError' \in BOOLEAN /\ readTimer' \in BOOLEAN
    BY <1>1, <2>2 DEF IInv, Types
  <2> QED BY <1>1, <2>1, <2>3 DEF IInv, Types
<1>5. TaskOrder'
  BY TaskOrderClose DEF IInv, AbandonRead
<1>6. IoOrder'
  BY IoOrderTake DEF IInv, AbandonRead, Runs
<1>7. Writes'
  BY <1>1, <1>2, <1>3 DEF IInv, Writes, Closes, IoRest
<1>8. Placed'
  BY <1>1, <1>2, <1>3 DEF IInv, Placed, Returning, Closes, IoRest
<1>9. Used' = Used
  BY <1>1, <1>2, <1>3 DEF IInv, Used, Closes, IoRest
<1>10. Counted'
  BY <1>1, <1>2, <1>3, <1>9 DEF IInv, Counted, Appointed, Closes, IoRest
<1>11. Requested'
  BY <1>1, <1>2, <1>3 DEF IInv, Requested, Closes, IoRest
<1>12. ProtocolLives'
  BY <1>1, <1>2, <1>3 DEF IInv, ProtocolLives, Closes, IoRest
<1>13. Released'
  BY <1>1, <1>2, <1>3, <1>9 DEF IInv, Released, Done, Closes, IoRest
<1> QED BY <1>4, <1>5, <1>6, <1>7, <1>8, <1>10, <1>11, <1>12, <1>13 DEF IInv

(* parseHeader asks for the body.                                           *)
LEMMA ParseHeaderStep ==
  ASSUME IInv, ParseHeader
  PROVE  IInv'
<1>1. /\ conn = "OPEN"
      /\ reading' = "body"
      /\ readTimer' = TRUE
      /\ UNCHANGED <<conn, registered, socket, receivedFirst, readError,
         writeError, pendingRead, pendingWrite, refC, bound, proto, protoConn,
         refP, client, buffer, autoSend, toAdd, writing, writeTimer, dropping,
         tasks, running, events>>
  BY DEF ParseHeader, ReadFailed, flags, pending, ops, sock, timers, io,
     counts, owner, pool, objects, thread
<1>2. IoRest("header")
  BY HandlerRests DEF IInv, ParseHeader
<1>3. QueuedFree' = QueuedFree
  BY <1>1 DEF QueuedFree
<1>4. Types'
  <2>1. readTimer' \in BOOLEAN /\ ioQueue' \in Seq(Completions)
    BY <1>1, <1>2, <1>3 DEF IInv, Types, ConnectionState, IoRest
  <2> QED BY <1>1, <2>1 DEF IInv, Types
<1>5. TaskOrder'
  BY <1>1, <1>2, <1>3 DEF IInv, TaskOrder, IoRest
<1>6. IoOrder'
  BY IoOrderTake DEF IInv, ParseHeader, Runs
<1>7. Writes'
  BY <1>1, <1>2, <1>3 DEF IInv, Writes, IoRest
<1>8. Placed'
  BY <1>1, <1>2, <1>3 DEF IInv, Placed, Returning, IoRest
<1>9. Used' = Used
  BY <1>1, <1>2, <1>3 DEF IInv, Used, IoRest
<1>10. Counted'
  BY <1>1, <1>2, <1>3, <1>9 DEF IInv, Counted, Appointed, IoRest
<1>11. Requested'
  BY <1>1, <1>2, <1>3 DEF IInv, Requested, IoRest
<1>12. ProtocolLives'
  BY <1>1, <1>2, <1>3 DEF IInv, ProtocolLives, IoRest
<1>13. Released'
  BY <1>1, <1>2, <1>3, <1>9 DEF IInv, Released, Done, IoRest
<1> QED BY <1>4, <1>5, <1>6, <1>7, <1>8, <1>10, <1>11, <1>12, <1>13 DEF IInv

(* parsePacket finds no service for the first packet.                       *)
LEMMA NoProtocolStep ==
  ASSUME IInv, NoProtocol
  PROVE  IInv'
<1>1. /\ conn = "OPEN"
      /\ receivedFirst' = TRUE
      /\ readTimer' = FALSE
      /\ UNCHANGED <<registered, socket, readError, writeError, pendingRead,
         pendingWrite, refC, bound, proto, protoConn, refP, client, buffer,
         autoSend, toAdd, reading, writing, writeTimer, dropping, running,
         events>>
  BY DEF NoProtocol, ReadFailed, flags, pending, ops, sock, timers, io, counts,
     owner, pool, objects, thread
<1>2. IoRest("body")
  BY HandlerRests DEF IInv, NoProtocol
<1>3. Closes
  BY CloseConnectionFacts DEF IInv, NoProtocol
<1>4. Types'
  <2>1. receivedFirst' \in BOOLEAN /\ readTimer' \in BOOLEAN /\ ioQueue' \in Seq(Completions) /\ tasks' \in Seq(Tasks) /\ conn' \in ConnectionState
    BY <1>1, <1>2, <1>3 DEF IInv, Types, ConnectionState, Closes, IoRest
  <2> QED BY <1>1, <2>1 DEF IInv, Types
<1>5. TaskOrder'
  BY TaskOrderClose DEF IInv, NoProtocol
<1>6. IoOrder'
  BY IoOrderTake DEF IInv, NoProtocol, Runs
<1>7. Writes'
  BY <1>1, <1>2, <1>3 DEF IInv, Writes, Closes, IoRest
<1>8. Placed'
  BY <1>1, <1>2, <1>3 DEF IInv, Placed, Returning, Closes, IoRest
<1>9. Used' = Used
  BY <1>1, <1>2, <1>3 DEF IInv, Used, Closes, IoRest
<1>10. Counted'
  BY <1>1, <1>2, <1>3, <1>9 DEF IInv, Counted, Appointed, Closes, IoRest
<1>11. Requested'
  BY <1>1, <1>2, <1>3 DEF IInv, Requested, Closes, IoRest
<1>12. ProtocolLives'
  BY <1>1, <1>2, <1>3 DEF IInv, ProtocolLives, Closes, IoRest
<1>13. Released'
  BY <1>1, <1>2, <1>3, <1>9 DEF IInv, Released, Done, Closes, IoRest
<1> QED BY <1>4, <1>5, <1>6, <1>7, <1>8, <1>10, <1>11, <1>12, <1>13 DEF IInv

(* The handler of a write drops its message: internalReleaseMessage is      *)
(* queued for it; it is nowhere else, so the order of the tasks is kept.    *)
LEMMA DropMessageStep ==
  ASSUME IInv, DropMessage
  PROVE  IInv'
<1>1. /\ dropping # NoMsg
      /\ dropping' = NoMsg
      /\ tasks' = Append(tasks, dropping)
      /\ UNCHANGED <<conn, registered, socket, receivedFirst, readError,
         writeError, pendingRead, pendingWrite, refC, bound, proto, protoConn,
         refP, client, buffer, autoSend, toAdd, reading, writing, readTimer,
         writeTimer, ioQueue, running, events>>
  BY DEF DropMessage, flags, pending, ops, sock, timers, io, counts, owner,
     pool, objects, thread
<1>2. dropping \in Messages /\ dropping \notin OtherTasks /\ NoMsg \notin Messages
  BY <1>1, MessageAssumption DEF IInv, Types
<1>3. TaskAdded(dropping)
  BY <1>1, <1>2, AddTask DEF IInv, Tasks
<1>4. Written' = Written
  BY <1>1 DEF Written
<1>5. Types'
  <2>1. tasks' \in Seq(Tasks)
    BY <1>1, <1>2, <1>3, <1>4 DEF IInv, Types, ConnectionState, TaskAdded
  <2> QED BY <1>1, <2>1 DEF IInv, Types
<1>6. TaskOrder'
  <2>1. MayAdd(dropping)
    BY <1>2 DEF IInv, Placed, QueuedFree, MayAdd, Tasks, OtherTasks
  <2> QED BY <1>1, <2>1, TaskOrderAdd DEF IInv
<1>7. IoOrder'
  BY <1>1, <1>2, <1>3, <1>4 DEF IInv, IoOrder, TaskAdded
<1>8. Writes'
  BY <1>1, <1>2, <1>3, <1>4 DEF IInv, Writes, TaskAdded
<1>9. Placed'
  <2>1. Returning' = Returning
    BY <1>1, <1>2, <1>3, <1>4 DEF Returning, TaskAdded
  <2>2. dropping' \notin QueuedFree'
    BY <1>1, <1>2, MessageAssumption DEF QueuedFree
  <2> QED BY <1>1, <1>2, <1>3, <1>4, <2>1, <2>2 DEF IInv, Placed
<1>10. Used' = Used
  BY <1>1, <1>2, <1>3, <1>4 DEF IInv, Used, TaskAdded
<1>11. Counted'
  BY <1>1, <1>2, <1>3, <1>4, <1>10 DEF IInv, Counted, Appointed, TaskAdded,
     OtherTasks
<1>12. Requested'
  BY <1>1, <1>2, <1>3, <1>4 DEF IInv, Requested, TaskAdded, OtherTasks
<1>13. ProtocolLives'
  BY <1>1, <1>2, <1>3, <1>4 DEF IInv, ProtocolLives, TaskAdded, OtherTasks
<1>14. Released'
  BY <1>1, <1>2, <1>3, <1>4, <1>10 DEF IInv, Released, TaskAdded, OtherTasks
<1> QED BY <1>5, <1>6, <1>7, <1>8, <1>9, <1>11, <1>12, <1>13, <1>14 DEF IInv

(* onStopOperation deletes the socket and leaves the manager: nothing behind*)
(* it in the io queue needs either.                                         *)
LEMMA OnStopOperationStep ==
  ASSUME IInv, OnStopOperation
  PROVE  IInv'
<1>1. /\ readTimer' = FALSE /\ writeTimer' = FALSE
      /\ socket' = "deleted" /\ registered' = FALSE
      /\ UNCHANGED <<conn, receivedFirst, readError, writeError, pendingRead,
         pendingWrite, refC, bound, proto, protoConn, refP, client, buffer,
         autoSend, toAdd, reading, writing, dropping, tasks, running, events>>
  BY DEF OnStopOperation, flags, pending, ops, sock, timers, io, counts, owner,
     pool, objects, thread
<1>2. IoRest("stop")
  BY HandlerRests DEF IInv, OnStopOperation
<1>3. QueuedFree' = QueuedFree
  BY <1>1 DEF QueuedFree
<1>4. Types'
  <2>1. registered' \in BOOLEAN /\ readTimer' \in BOOLEAN /\ writeTimer' \in BOOLEAN /\ ioQueue' \in Seq(Completions)
    BY <1>1, <1>2, <1>3 DEF IInv, Types, ConnectionState, IoRest
  <2> QED BY <1>1, <2>1 DEF IInv, Types
<1>5. TaskOrder'
  BY <1>1, <1>2, <1>3 DEF IInv, TaskOrder, IoRest
<1>6. IoOrder'
  BY IoOrderTake DEF IInv, OnStopOperation, Runs
<1>7. Writes'
  BY <1>1, <1>2, <1>3 DEF IInv, Writes, IoRest
<1>8. Placed'
  BY <1>1, <1>2, <1>3 DEF IInv, Placed, Returning, IoRest
<1>9. Used' = Used
  BY <1>1, <1>2, <1>3 DEF IInv, Used, IoRest
<1>10. Counted'
  BY <1>1, <1>2, <1>3, <1>9 DEF IInv, Counted, Appointed, IoRest
<1>11. Requested'
  BY <1>1, <1>2, <1>3 DEF IInv, Requested, IoRest
<1>12. ProtocolLives'
  BY <1>1, <1>2, <1>3 DEF IInv, ProtocolLives, IoRest
<1>13. Released'
  BY <1>1, <1>2, <1>3, <1>9 DEF IInv, Released, Done, IoRest
<1> QED BY <1>4, <1>5, <1>6, <1>7, <1>8, <1>10, <1>11, <1>12, <1>13 DEF IInv

(* login or another task of the protocol starts; it is bound until then.    *)
LEMMA StartTaskStep ==
  ASSUME IInv, NEW task \in {"login", "proto"}, StartTask(task)
  PROVE  IInv'
<1>1. /\ running = "none"
      /\ running' = task
      /\ UNCHANGED <<conn, registered, socket, receivedFirst, readError,
         writeError, pendingRead, pendingWrite, refC, bound, proto, protoConn,
         refP, client, buffer, autoSend, toAdd, reading, writing, readTimer,
         writeTimer, ioQueue, dropping, events>>
  BY DEF StartTask, Takes, flags, pending, ops, sock, timers, io, counts,
     owner, pool, objects, thread
<1>2. TaskTaken(task) /\ task \in OtherTasks
  BY TakeTaskFacts DEF IInv, StartTask, OtherTasks
<1>3. Written' = Written
  BY <1>1 DEF Written
<1>4. Types'
  <2>1. tasks' \in Seq(Tasks)
    BY <1>1, <1>2, <1>3 DEF IInv, Types, ConnectionState, TaskTaken
  <2> QED BY <1>1, <2>1 DEF IInv, Types
<1>5. TaskOrder'
  BY TaskOrderTake DEF IInv, StartTask
<1>6. IoOrder'
  BY <1>1, <1>2, <1>3 DEF IInv, IoOrder, TaskTaken
<1>7. Writes'
  BY <1>1, <1>2, <1>3 DEF IInv, Writes, TaskTaken
<1>8. Placed'
  BY <1>1, <1>2, <1>3 DEF IInv, Placed, Returning, TaskTaken
<1>9. Used' = Used
  BY <1>1, <1>2, <1>3 DEF IInv, Used, TaskTaken
<1>10. Counted'
  BY <1>1, <1>2, <1>3, <1>9 DEF IInv, Counted, Appointed, TaskTaken
<1>11. Requested'
  BY <1>1, <1>2, <1>3 DEF IInv, Requested, TaskTaken
<1>12. ProtocolLives'
  BY <1>1, <1>2, <1>3 DEF IInv, ProtocolLives, TaskTaken
<1>13. Released'
  BY <1>1, <1>2, <1>3, <1>9 DEF IInv, Released, Done, TaskTaken
<1> QED BY <1>4, <1>5, <1>6, <1>7, <1>8, <1>10, <1>11, <1>12, <1>13 DEF IInv

(* A task of Game starts.                                                   *)
LEMMA StartGameTaskStep ==
  ASSUME IInv, StartGameTask
  PROVE  IInv'
<1>1. /\ running = "none"
      /\ running' = "game"
      /\ UNCHANGED <<conn, registered, socket, receivedFirst, readError,
         writeError, pendingRead, pendingWrite, refC, bound, proto, protoConn,
         refP, client, buffer, autoSend, toAdd, reading, writing, readTimer,
         writeTimer, ioQueue, dropping, tasks, events>>
  BY DEF StartGameTask, flags, pending, ops, sock, timers, io, counts, owner,
     pool, objects, thread
<1>2. Written' = Written /\ QueuedFree' = QueuedFree
  BY <1>1 DEF Written, QueuedFree
<1>3. Types'
  BY <1>1, <1>2 DEF IInv, Types
<1>4. TaskOrder'
  BY <1>1, <1>2 DEF IInv, TaskOrder
<1>5. IoOrder'
  BY <1>1, <1>2 DEF IInv, IoOrder
<1>6. Writes'
  BY <1>1, <1>2 DEF IInv, Writes
<1>7. Placed'
  BY <1>1, <1>2 DEF IInv, Placed, Returning
<1>8. Used' = Used
  BY <1>1, <1>2 DEF IInv, Used
<1>9. Counted'
  BY <1>1, <1>2, <1>8 DEF IInv, Counted, Appointed
<1>10. Requested'
  BY <1>1, <1>2 DEF IInv, Requested
<1>11. ProtocolLives'
  BY <1>1, <1>2 DEF IInv, ProtocolLives
<1>12. Released'
  BY <1>1, <1>2, <1>8 DEF IInv, Released, Done
<1> QED BY <1>3, <1>4, <1>5, <1>6, <1>7, <1>9, <1>10, <1>11, <1>12 DEF IInv

(* ProtocolGame::connect gives back the reference of its appointment.       *)
LEMMA ConnectStep ==
  ASSUME IInv, Connect
  PROVE  IInv'
<1>1. /\ running = "none" /\ running' = "connect"
      /\ refP' = refP - 1 /\ client' \in BOOLEAN
      /\ UNCHANGED <<conn, registered, socket, receivedFirst, readError,
         writeError, pendingRead, pendingWrite, refC, bound, proto, protoConn,
         buffer, autoSend, toAdd, reading, writing, readTimer, writeTimer,
         ioQueue, dropping, events>>
  BY DEF Connect, Takes, flags, pending, ops, sock, timers, io, counts, owner,
     pool, objects, thread
<1>2. TaskTaken("connect") /\ "connect" \in OtherTasks
  BY TakeTaskFacts DEF IInv, Connect, OtherTasks
<1>3. Cardinality(Used) \in Nat
  BY FS_CardinalityType DEF IInv, Counted
<1>4. refP > 0
  BY <1>2, <1>3 DEF IInv, Counted, Appointed, TaskTaken
<1>5. Written' = Written
  BY <1>1 DEF Written
<1>6. Types'
  <2>1. client' \in BOOLEAN /\ tasks' \in Seq(Tasks)
    BY <1>1, <1>2, <1>3, <1>4, <1>5 DEF IInv, Types, ConnectionState, TaskTaken
  <2> QED BY <1>1, <2>1 DEF IInv, Types
<1>7. TaskOrder'
  BY TaskOrderTake DEF IInv, Connect
<1>8. IoOrder'
  BY <1>1, <1>2, <1>3, <1>4, <1>5 DEF IInv, IoOrder, TaskTaken
<1>9. Writes'
  BY <1>1, <1>2, <1>3, <1>4, <1>5 DEF IInv, Writes, TaskTaken
<1>10. Placed'
  BY <1>1, <1>2, <1>3, <1>4, <1>5 DEF IInv, Placed, Returning, TaskTaken
<1>11. Used' = Used
  BY <1>1, <1>2, <1>3, <1>4, <1>5 DEF IInv, Used, TaskTaken
<1>12. Counted'
  BY <1>1, <1>2, <1>3, <1>4, <1>5, <1>11 DEF IInv, Counted, Appointed, TaskTaken
<1>13. Requested'
  BY <1>1, <1>2, <1>3, <1>4, <1>5 DEF IInv, Requested, TaskTaken
<1>14. ProtocolLives'
  BY <1>1, <1>2, <1>3, <1>4, <1>5 DEF IInv, ProtocolLives, TaskTaken
<1>15. Released'
  BY <1>1, <1>2, <1>3, <1>4, <1>5, <1>11 DEF IInv, Released, Done, TaskTaken
<1> QED BY <1>6, <1>7, <1>8, <1>9, <1>10, <1>12, <1>13, <1>14, <1>15 DEF IInv

(* login finds no player, or one without a client: the protocol is alive.   *)
LEMMA NewPlayerStep ==
  ASSUME IInv, NewPlayer
  PROVE  IInv'
<1>1. /\ running = "login" /\ client' = TRUE
      /\ UNCHANGED <<conn, registered, socket, receivedFirst, readError,
         writeError, pendingRead, pendingWrite, refC, bound, proto, protoConn,
         refP, buffer, autoSend, toAdd, reading, writing, readTimer,
         writeTimer, ioQueue, dropping, tasks, running, events>>
  BY DEF NewPlayer, flags, pending, ops, sock, timers, io, counts, owner, pool,
     objects, thread
<1>2. proto = "alive"
  BY <1>1 DEF IInv, Requested
<1>3. Written' = Written /\ QueuedFree' = QueuedFree
  BY <1>1 DEF Written, QueuedFree
<1>4. Types'
  BY <1>1, <1>2, <1>3 DEF IInv, Types
<1>5. TaskOrder'
  BY <1>1, <1>2, <1>3 DEF IInv, TaskOrder
<1>6. IoOrder'
  BY <1>1, <1>2, <1>3 DEF IInv, IoOrder
<1>7. Writes'
  BY <1>1, <1>2, <1>3 DEF IInv, Writes
<1>8. Placed'
  BY <1>1, <1>2, <1>3 DEF IInv, Placed, Returning
<1>9. Used' = Used
  BY <1>1, <1>2, <1>3 DEF IInv, Used
<1>10. Counted'
  BY <1>1, <1>2, <1>3, <1>9 DEF IInv, Counted, Appointed
<1>11. Requested'
  BY <1>1, <1>2, <1>3 DEF IInv, Requested
<1>12. ProtocolLives'
  BY <1>1, <1>2, <1>3 DEF IInv, ProtocolLives
<1>13. Released'
  BY <1>1, <1>2, <1>3, <1>9 DEF IInv, Released, Done
<1> QED BY <1>4, <1>5, <1>6, <1>7, <1>8, <1>10, <1>11, <1>12, <1>13 DEF IInv

(* login appoints connect, which refers to the protocol until it has run.   *)
LEMMA ConnectLaterStep ==
  ASSUME IInv, ConnectLater
  PROVE  IInv'
<1>1. /\ running = "login" /\ ~Appointed
      /\ refP' = refP + 1 /\ events' = events \cup {"connect"}
      /\ UNCHANGED <<conn, registered, socket, receivedFirst, readError,
         writeError, pendingRead, pendingWrite, refC, bound, proto, protoConn,
         client, buffer, autoSend, toAdd, reading, writing, readTimer,
         writeTimer, ioQueue, dropping, tasks, running>>
  BY DEF ConnectLater, flags, pending, ops, sock, timers, io, counts, owner,
     pool, objects, thread
<1>2. proto = "alive"
  BY <1>1 DEF IInv, Requested
<1>3. Written' = Written /\ QueuedFree' = QueuedFree
  BY <1>1 DEF Written, QueuedFree
<1>4. Types'
  BY <1>1, <1>2, <1>3 DEF IInv, Types
<1>5. TaskOrder'
  BY <1>1, <1>2, <1>3 DEF IInv, TaskOrder
<1>6. IoOrder'
  BY <1>1, <1>2, <1>3 DEF IInv, IoOrder
<1>7. Writes'
  BY <1>1, <1>2, <1>3 DEF IInv, Writes
<1>8. Placed'
  BY <1>1, <1>2, <1>3 DEF IInv, Placed, Returning
<1>9. Used' = Used
  BY <1>1, <1>2, <1>3 DEF IInv, Used
<1>10. Counted'
  BY <1>1, <1>2, <1>3, <1>9 DEF IInv, Types, Counted, Appointed
<1>11. Requested'
  BY <1>1, <1>2, <1>3 DEF IInv, Requested
<1>12. ProtocolLives'
  BY <1>1, <1>2, <1>3 DEF IInv, ProtocolLives
<1>13. Released'
  BY <1>1, <1>2, <1>3, <1>9 DEF IInv, Released, Done
<1> QED BY <1>4, <1>5, <1>6, <1>7, <1>8, <1>10, <1>11, <1>12, <1>13 DEF IInv

(* disconnect, logout or a kick requests to close.                          *)
LEMMA DisconnectStep ==
  ASSUME IInv, Disconnect
  PROVE  IInv'
<1>1. /\ protoConn
      /\ UNCHANGED <<registered, socket, receivedFirst, readError, writeError,
         pendingRead, pendingWrite, refC, bound, proto, protoConn, refP,
         client, buffer, autoSend, toAdd, reading, writing, readTimer,
         writeTimer, ioQueue, dropping, running, events>>
  BY DEF Disconnect, flags, pending, ops, sock, timers, io, counts, owner,
     pool, objects, thread
<1>2. Closes
  BY CloseConnectionFacts DEF IInv, Disconnect
<1>3. Written' = Written
  BY <1>1 DEF Written
<1>4. Types'
  <2>1. tasks' \in Seq(Tasks) /\ conn' \in ConnectionState
    BY <1>1, <1>2, <1>3 DEF IInv, Types, ConnectionState, Closes
  <2> QED BY <1>1, <2>1 DEF IInv, Types
<1>5. TaskOrder'
  BY TaskOrderClose DEF IInv, Disconnect
<1>6. IoOrder'
  BY <1>1, <1>2, <1>3 DEF IInv, IoOrder, Closes
<1>7. Writes'
  BY <1>1, <1>2, <1>3 DEF IInv, Writes, Closes
<1>8. Placed'
  BY <1>1, <1>2, <1>3 DEF IInv, Placed, Returning, Closes
<1>9. Used' = Used
  BY <1>1, <1>2, <1>3 DEF IInv, Used, Closes
<1>10. Counted'
  BY <1>1, <1>2, <1>3, <1>9 DEF IInv, Counted, Appointed, Closes
<1>11. Requested'
  BY <1>1, <1>2, <1>3 DEF IInv, Requested, Closes
<1>12. ProtocolLives'
  BY <1>1, <1>2, <1>3 DEF IInv, ProtocolLives, Closes
<1>13. Released'
  BY <1>1, <1>2, <1>3, <1>9 DEF IInv, Released, Done, Closes
<1> QED BY <1>4, <1>5, <1>6, <1>7, <1>8, <1>10, <1>11, <1>12, <1>13 DEF IInv

(* getOutputBuffer takes a free message into the list of the pool: both     *)
(* counters go up with it.                                                  *)
LEMMA GetOutputBufferStep ==
  ASSUME IInv, NEW m \in Messages, GetOutputBuffer(m)
  PROVE  IInv'
<1>1. /\ protoConn /\ refC' = refC + 1 /\ refP' = refP + 1
      /\ autoSend' = Append(autoSend, m) /\ buffer' = m
      /\ UNCHANGED <<conn, registered, socket, receivedFirst, readError,
         writeError, pendingRead, pendingWrite, bound, proto, protoConn,
         client, toAdd, reading, writing, readTimer, writeTimer, ioQueue,
         dropping, tasks, running, events>>
  BY DEF GetOutputBuffer, NewBuffer, Configure, flags, pending, ops, sock,
     timers, io, counts, owner, pool, objects, thread
<1>2. m \in Messages /\ m \notin Used
  BY DEF GetOutputBuffer, NewBuffer, Configure, Free
<1>3. autoSend' \in Seq(Messages) /\ Range(autoSend') = Range(autoSend) \cup {m}
  BY <1>1, <1>2, AppendFacts DEF IInv, Types
<1>4. IsInjective(autoSend')
  BY <1>1, <1>2, AppendOnce DEF IInv, Types, Placed, Used
<1>5. proto = "alive" /\ conn # "CLOSED"
  BY <1>1 DEF IInv, Requested, Types, ConnectionState
<1>6. Written' = Written /\ QueuedFree' = QueuedFree
  BY <1>1 DEF Written, QueuedFree
<1>7. Types'
  BY <1>1, <1>2, <1>3, <1>4, <1>5, <1>6 DEF IInv, Types
<1>8. TaskOrder'
  BY <1>1, <1>2, <1>3, <1>4, <1>5, <1>6 DEF IInv, TaskOrder
<1>9. IoOrder'
  BY <1>1, <1>2, <1>3, <1>4, <1>5, <1>6 DEF IInv, IoOrder
<1>10. Writes'
  BY <1>1, <1>2, <1>3, <1>4, <1>5, <1>6 DEF IInv, Writes
<1>11. Placed'
  BY <1>1, <1>2, <1>3, <1>4, <1>5, <1>6 DEF IInv, Placed, Returning, Used
<1>12. Used' = Used \cup {m}
  BY <1>1, <1>2, <1>3, <1>4, <1>5, <1>6 DEF IInv, Used
<1>13. Counted'
  <2>1. IsFiniteSet(Used') /\ Cardinality(Used') = Cardinality(Used) + 1
    BY <1>2, <1>12, FS_AddElement DEF IInv, Counted
  <2> QED BY <1>1, <1>2, <1>3, <1>4, <1>5, <1>6, <2>1 DEF IInv, Types, Counted, Appointed
<1>14. Requested'
  BY <1>1, <1>2, <1>3, <1>4, <1>5, <1>6 DEF IInv, Requested
<1>15. ProtocolLives'
  BY <1>1, <1>2, <1>3, <1>4, <1>5, <1>6 DEF IInv, ProtocolLives
<1>16. Released'
  BY <1>1, <1>2, <1>3, <1>4, <1>5, <1>6, <1>12 DEF IInv, Released, Done
<1> QED BY <1>7, <1>8, <1>9, <1>10, <1>11, <1>13, <1>14, <1>15, <1>16 DEF IInv

(* internalReleaseMessage: the message is free, both counters go down.      *)
LEMMA InternalReleaseMessageStep ==
  ASSUME IInv, NEW m \in Messages, InternalReleaseMessage(m)
  PROVE  IInv'
<1>1. /\ refC' = refC - 1 /\ refP' = refP - 1
      /\ running' = "done"
      /\ UNCHANGED <<conn, registered, socket, receivedFirst, readError,
         writeError, pendingRead, pendingWrite, bound, proto, protoConn,
         client, buffer, autoSend, toAdd, reading, writing, readTimer,
         writeTimer, ioQueue, dropping, events>>
  BY DEF InternalReleaseMessage, Takes, flags, pending, ops, sock, timers, io,
     counts, owner, pool, objects, thread, Retry
<1>2. TaskTaken(m) /\ m \notin OtherTasks
  BY TakeTaskFacts, MessageAssumption DEF IInv, InternalReleaseMessage
<1>3. m \in Used
  BY <1>2 DEF Used, TaskTaken
<1>4. Written' = Written
  BY <1>1 DEF Written
<1>5. Types'
  <2>1. tasks' \in Seq(Tasks)
    BY <1>1, <1>2, <1>3, <1>4 DEF IInv, Types, ConnectionState, TaskTaken
  <2> QED BY <1>1, <2>1 DEF IInv, Types
<1>6. TaskOrder'
  BY TaskOrderTake DEF IInv, InternalReleaseMessage
<1>7. IoOrder'
  BY <1>1, <1>2, <1>3, <1>4 DEF IInv, IoOrder, TaskTaken
<1>8. Writes'
  BY <1>1, <1>2, <1>3, <1>4 DEF IInv, Writes, TaskTaken
<1>9. Placed'
  BY <1>1, <1>2, <1>3, <1>4 DEF IInv, Placed, Returning, TaskTaken
<1>10. Used' = Used \ {m}
  BY <1>1, <1>2, <1>3, <1>4 DEF IInv, Used, Placed, Returning, TaskTaken
<1>11. Counted'
  <2>1. IsFiniteSet(Used') /\ Cardinality(Used') = Cardinality(Used) - 1
    BY <1>3, <1>10, FS_RemoveElement DEF IInv, Counted
  <2> QED BY <1>1, <1>2, <1>3, <1>4, <2>1 DEF IInv, Types, Counted, Appointed, TaskTaken, OtherTasks
<1>12. Requested'
  BY <1>1, <1>2, <1>3, <1>4 DEF IInv, Requested, TaskTaken, OtherTasks
<1>13. ProtocolLives'
  <2>1. refP > 0
    <3>1. Used # {} /\ Cardinality(Used) \in Nat
      BY <1>3, FS_CardinalityType DEF IInv, Counted
    <3>2. Cardinality(Used) # 0
      BY <3>1, FS_EmptySet DEF IInv, Counted
    <3> QED BY <3>1, <3>2 DEF IInv, Counted
  <2> QED BY <1>1, <1>2, <1>3, <1>4, <2>1 DEF IInv, ProtocolLives, TaskTaken, OtherTasks
<1>14. Released'
  BY <1>1, <1>2, <1>3, <1>4, <1>10 DEF IInv, Released, Done, TaskTaken, OtherTasks
<1> QED BY <1>5, <1>6, <1>7, <1>8, <1>9, <1>11, <1>12, <1>13, <1>14 DEF IInv

(* The scheduler's event becomes a task: still one of its kind.             *)
LEMMA EventFiresStep ==
  ASSUME IInv, NEW e \in events, EventFires(e)
  PROVE  IInv'
<1>1. /\ events' = events \ {e} /\ tasks' = Append(tasks, e)
      /\ UNCHANGED <<conn, registered, socket, receivedFirst, readError,
         writeError, pendingRead, pendingWrite, refC, bound, proto, protoConn,
         refP, client, buffer, autoSend, toAdd, reading, writing, readTimer,
         writeTimer, ioQueue, dropping, running>>
  BY DEF EventFires, flags, pending, ops, sock, timers, io, counts, owner,
     pool, objects, thread
<1>2. e \in {"connect", "releaseConnection", "releaseProtocol"} /\ e \in OtherTasks /\ e \notin Messages
  BY MessageAssumption DEF IInv, Types, OtherTasks
<1>3. TaskAdded(e)
  BY <1>1, <1>2, AddTask DEF IInv, Tasks
<1>4. Written' = Written
  BY <1>1 DEF Written
<1>5. Types'
  <2>1. tasks' \in Seq(Tasks)
    BY <1>1, <1>2, <1>3, <1>4 DEF IInv, Types, ConnectionState, TaskAdded
  <2> QED BY <1>1, <2>1 DEF IInv, Types
<1>6. TaskOrder'
  <2>1. MayAdd(e)
    BY <1>2 DEF IInv, Counted, ProtocolLives, Released, MayAdd, Tasks
  <2> QED BY <1>1, <2>1, TaskOrderAdd DEF IInv
<1>7. IoOrder'
  BY <1>1, <1>2, <1>3, <1>4 DEF IInv, IoOrder, TaskAdded
<1>8. Writes'
  BY <1>1, <1>2, <1>3, <1>4 DEF IInv, Writes, TaskAdded
<1>9. Placed'
  BY <1>1, <1>2, <1>3, <1>4 DEF IInv, Placed, Returning, TaskAdded
<1>10. Used' = Used
  BY <1>1, <1>2, <1>3, <1>4 DEF IInv, Used, TaskAdded
<1>11. Counted'
  BY <1>1, <1>2, <1>3, <1>4, <1>10 DEF IInv, Counted, Appointed, TaskAdded
<1>12. Requested'
  BY <1>1, <1>2, <1>3, <1>4 DEF IInv, Requested, TaskAdded
<1>13. ProtocolLives'
  BY <1>1, <1>2, <1>3, <1>4 DEF IInv, ProtocolLives, TaskAdded
<1>14. Released'
  BY <1>1, <1>2, <1>3, <1>4, <1>10 DEF IInv, Released, Done, TaskAdded
<1> QED BY <1>5, <1>6, <1>7, <1>8, <1>9, <1>11, <1>12, <1>13, <1>14 DEF IInv

(* A read completes or fails: it was asked of an open socket.               *)
LEMMA ReadCompletesStep ==
  ASSUME IInv, NEW ok \in BOOLEAN, ReadCompletes(ok)
  PROVE  IInv'
<1>1. /\ reading # "none" /\ reading' = "none"
      /\ ioQueue' = Append(ioQueue, [op |-> reading, ok |-> ok])
      /\ UNCHANGED <<conn, registered, socket, receivedFirst, readError,
         writeError, pendingRead, pendingWrite, refC, bound, proto, protoConn,
         refP, client, buffer, autoSend, toAdd, writing, readTimer, writeTimer,
         dropping, tasks, running, events>>
  BY DEF ReadCompletes, flags, pending, ops, sock, timers, io, counts, owner,
     pool, objects, thread
<1>2. [op |-> reading, ok |-> ok] \in Completions /\ reading \in {"header", "body"}
  BY <1>1 DEF IInv, Types, Completions
<1>3. IoAdded([op |-> reading, ok |-> ok])
  BY <1>1, <1>2, OperationCompletes DEF IInv
<1>4. Written' = Written /\ ioQueue' \in Seq(Completions)
  BY <1>2, <1>3 DEF IoAdded
<1>5. QueuedFree' = QueuedFree
  BY <1>1 DEF QueuedFree
<1>6. Types'
  <2>1. ioQueue' \in Seq(Completions)
    BY <1>1, <1>2, <1>3, <1>4, <1>5 DEF IInv, Types, ConnectionState, IoAdded
  <2> QED BY <1>1, <2>1 DEF IInv, Types
<1>7. TaskOrder'
  BY <1>1, <1>2, <1>3, <1>4, <1>5 DEF IInv, TaskOrder, IoAdded
<1>8. IoOrder'
  <2>1. Range(ioQueue) \cap Done({"stop"}) = {}
    BY <1>1 DEF IInv, Released
  <2> QED BY <1>1, <1>2, <2>1, IoOrderAdd DEF IInv, Released, Writes
<1>9. Writes'
  BY <1>1, <1>2, <1>3, <1>4, <1>5 DEF IInv, Writes, IoAdded
<1>10. Placed'
  BY <1>1, <1>2, <1>3, <1>4, <1>5 DEF IInv, Placed, Returning, IoAdded
<1>11. Used' = Used
  BY <1>1, <1>2, <1>3, <1>4, <1>5 DEF IInv, Used, IoAdded
<1>12. Counted'
  BY <1>1, <1>2, <1>3, <1>4, <1>5, <1>11 DEF IInv, Counted, Appointed, IoAdded
<1>13. Requested'
  BY <1>1, <1>2, <1>3, <1>4, <1>5 DEF IInv, Requested, IoAdded
<1>14. ProtocolLives'
  BY <1>1, <1>2, <1>3, <1>4, <1>5 DEF IInv, ProtocolLives, IoAdded
<1>15. Released'
  BY <1>1, <1>2, <1>3, <1>4, <1>5, <1>11 DEF IInv, Released, Done, IoAdded
<1> QED BY <1>6, <1>7, <1>8, <1>9, <1>10, <1>12, <1>13, <1>14, <1>15 DEF IInv

(* A write completes or fails: its message moves from the socket to the     *)
(* handler.                                                                 *)
LEMMA WriteCompletesStep ==
  ASSUME IInv, NEW m \in Messages, NEW ok \in BOOLEAN, WriteCompletes(m, ok)
  PROVE  IInv'
<1>1. /\ m \in writing /\ writing' = writing \ {m}
      /\ ioQueue' = Append(ioQueue, [op |-> "write", msg |-> m, ok |-> ok])
      /\ UNCHANGED <<conn, registered, socket, receivedFirst, readError,
         writeError, pendingRead, pendingWrite, refC, bound, proto, protoConn,
         refP, client, buffer, autoSend, toAdd, reading, readTimer, writeTimer,
         dropping, tasks, running, events>>
  BY DEF WriteCompletes, flags, pending, ops, sock, timers, io, counts, owner,
     pool, objects, thread
<1>2. [op |-> "write", msg |-> m, ok |-> ok] \in Completions
  BY DEF Completions
<1>3. IoAdded([op |-> "write", msg |-> m, ok |-> ok])
  BY <1>1, <1>2, OperationCompletes DEF IInv
<1>4. Written' = Written \cup {m} /\ ioQueue' \in Seq(Completions)
  BY <1>2, <1>3 DEF IoAdded
<1>5. QueuedFree' = QueuedFree
  BY <1>1 DEF QueuedFree
<1>6. Types'
  <2>1. ioQueue' \in Seq(Completions)
    BY <1>1, <1>2, <1>3, <1>4, <1>5 DEF IInv, Types, ConnectionState, IoAdded
  <2> QED BY <1>1, <2>1 DEF IInv, Types
<1>7. TaskOrder'
  BY <1>1, <1>2, <1>3, <1>4, <1>5 DEF IInv, TaskOrder, IoAdded
<1>8. IoOrder'
  <2>1. Range(ioQueue) \cap Done({"stop"}) = {}
    BY <1>1 DEF IInv, Released
  <2> QED BY <1>1, <1>2, <2>1, IoOrderAdd DEF IInv, Released, Writes
<1>9. Writes'
  BY <1>1, <1>2, <1>3, <1>4, <1>5 DEF IInv, Writes, IoAdded
<1>10. Placed'
  BY <1>1, <1>2, <1>3, <1>4, <1>5 DEF IInv, Placed, Returning, IoAdded
<1>11. Used' = Used
  BY <1>1, <1>2, <1>3, <1>4, <1>5 DEF IInv, Used, IoAdded
<1>12. Counted'
  BY <1>1, <1>2, <1>3, <1>4, <1>5, <1>11 DEF IInv, Counted, Appointed, IoAdded
<1>13. Requested'
  BY <1>1, <1>2, <1>3, <1>4, <1>5 DEF IInv, Requested, IoAdded
<1>14. ProtocolLives'
  BY <1>1, <1>2, <1>3, <1>4, <1>5 DEF IInv, ProtocolLives, IoAdded
<1>15. Released'
  BY <1>1, <1>2, <1>3, <1>4, <1>5, <1>11 DEF IInv, Released, Done, IoAdded
<1> QED BY <1>6, <1>7, <1>8, <1>9, <1>10, <1>12, <1>13, <1>14, <1>15 DEF IInv

(* m_readTimer expires.                                                     *)
LEMMA ReadTimerExpiresStep ==
  ASSUME IInv, ReadTimerExpires
  PROVE  IInv'
<1>1. /\ readTimer' = FALSE /\ ioQueue' = Append(ioQueue, [op |-> "readTimer"])
      /\ UNCHANGED <<conn, registered, socket, receivedFirst, readError,
         writeError, pendingRead, pendingWrite, refC, bound, proto, protoConn,
         refP, client, buffer, autoSend, toAdd, reading, writing, writeTimer,
         dropping, tasks, running, events>>
  BY DEF ReadTimerExpires, flags, pending, ops, sock, timers, io, counts,
     owner, pool, objects, thread
<1>2. [op |-> "readTimer"] \in Completions
  BY DEF Completions
<1>3. IoAdded([op |-> "readTimer"])
  BY <1>1, <1>2, OperationCompletes DEF IInv
<1>4. Written' = Written /\ ioQueue' \in Seq(Completions)
  BY <1>2, <1>3 DEF IoAdded
<1>5. QueuedFree' = QueuedFree
  BY <1>1 DEF QueuedFree
<1>6. Types'
  <2>1. readTimer' \in BOOLEAN /\ ioQueue' \in Seq(Completions)
    BY <1>1, <1>2, <1>3, <1>4, <1>5 DEF IInv, Types, ConnectionState, IoAdded
  <2> QED BY <1>1, <2>1 DEF IInv, Types
<1>7. TaskOrder'
  BY <1>1, <1>2, <1>3, <1>4, <1>5 DEF IInv, TaskOrder, IoAdded
<1>8. IoOrder'
  BY <1>1, <1>2, IoOrderAdd DEF IInv
<1>9. Writes'
  BY <1>1, <1>2, <1>3, <1>4, <1>5 DEF IInv, Writes, IoAdded
<1>10. Placed'
  BY <1>1, <1>2, <1>3, <1>4, <1>5 DEF IInv, Placed, Returning, IoAdded
<1>11. Used' = Used
  BY <1>1, <1>2, <1>3, <1>4, <1>5 DEF IInv, Used, IoAdded
<1>12. Counted'
  BY <1>1, <1>2, <1>3, <1>4, <1>5, <1>11 DEF IInv, Counted, Appointed, IoAdded
<1>13. Requested'
  BY <1>1, <1>2, <1>3, <1>4, <1>5 DEF IInv, Requested, IoAdded
<1>14. ProtocolLives'
  BY <1>1, <1>2, <1>3, <1>4, <1>5 DEF IInv, ProtocolLives, IoAdded
<1>15. Released'
  BY <1>1, <1>2, <1>3, <1>4, <1>5, <1>11 DEF IInv, Released, Done, IoAdded
<1> QED BY <1>6, <1>7, <1>8, <1>9, <1>10, <1>12, <1>13, <1>14, <1>15 DEF IInv

(* m_writeTimer expires.                                                    *)
LEMMA WriteTimerExpiresStep ==
  ASSUME IInv, WriteTimerExpires
  PROVE  IInv'
<1>1. /\ writeTimer' = FALSE /\ ioQueue' = Append(ioQueue, [op |-> "writeTimer"])
      /\ UNCHANGED <<conn, registered, socket, receivedFirst, readError,
         writeError, pendingRead, pendingWrite, refC, bound, proto, protoConn,
         refP, client, buffer, autoSend, toAdd, reading, writing, readTimer,
         dropping, tasks, running, events>>
  BY DEF WriteTimerExpires, flags, pending, ops, sock, timers, io, counts,
     owner, pool, objects, thread
<1>2. [op |-> "writeTimer"] \in Completions
  BY DEF Completions
<1>3. IoAdded([op |-> "writeTimer"])
  BY <1>1, <1>2, OperationCompletes DEF IInv
<1>4. Written' = Written /\ ioQueue' \in Seq(Completions)
  BY <1>2, <1>3 DEF IoAdded
<1>5. QueuedFree' = QueuedFree
  BY <1>1 DEF QueuedFree
<1>6. Types'
  <2>1. writeTimer' \in BOOLEAN /\ ioQueue' \in Seq(Completions)
    BY <1>1, <1>2, <1>3, <1>4, <1>5 DEF IInv, Types, ConnectionState, IoAdded
  <2> QED BY <1>1, <2>1 DEF IInv, Types
<1>7. TaskOrder'
  BY <1>1, <1>2, <1>3, <1>4, <1>5 DEF IInv, TaskOrder, IoAdded
<1>8. IoOrder'
  BY <1>1, <1>2, IoOrderAdd DEF IInv
<1>9. Writes'
  BY <1>1, <1>2, <1>3, <1>4, <1>5 DEF IInv, Writes, IoAdded
<1>10. Placed'
  BY <1>1, <1>2, <1>3, <1>4, <1>5 DEF IInv, Placed, Returning, IoAdded
<1>11. Used' = Used
  BY <1>1, <1>2, <1>3, <1>4, <1>5 DEF IInv, Used, IoAdded
<1>12. Counted'
  BY <1>1, <1>2, <1>3, <1>4, <1>5, <1>11 DEF IInv, Counted, Appointed, IoAdded
<1>13. Requested'
  BY <1>1, <1>2, <1>3, <1>4, <1>5 DEF IInv, Requested, IoAdded
<1>14. ProtocolLives'
  BY <1>1, <1>2, <1>3, <1>4, <1>5 DEF IInv, ProtocolLives, IoAdded
<1>15. Released'
  BY <1>1, <1>2, <1>3, <1>4, <1>5, <1>11 DEF IInv, Released, Done, IoAdded
<1> QED BY <1>6, <1>7, <1>8, <1>9, <1>10, <1>12, <1>13, <1>14, <1>15 DEF IInv

(* releaseProtocol, once more: it is deleted when nothing refers to it, and *)
(* otherwise an event tries again.                                          *)
LEMMA ReleaseProtocolAgainStep ==
  ASSUME IInv, ReleaseProtocolAgain
  PROVE  IInv'
<1>1. /\ running' = "done" /\ client' = FALSE
      /\ proto' = (IF refP > 0 THEN "releasing" ELSE "deleted")
      /\ events' = events \cup (IF refP > 0 THEN {"releaseProtocol"} ELSE {})
      /\ UNCHANGED <<conn, registered, socket, receivedFirst, readError,
         writeError, pendingRead, pendingWrite, refC, bound, protoConn, refP,
         buffer, autoSend, toAdd, reading, writing, readTimer, writeTimer,
         ioQueue, dropping>>
  BY DEF ReleaseProtocolAgain, ReleaseProtocol, Takes, flags, pending, ops,
     sock, timers, io, counts, owner, pool, objects, thread, Retry
<1>2. TaskTaken("releaseProtocol") /\ "releaseProtocol" \in OtherTasks
  BY TakeTaskFacts DEF IInv, ReleaseProtocolAgain, OtherTasks
<1>3. Cardinality(Used) \in Nat
  BY FS_CardinalityType DEF IInv, Counted
<1>4. refP \in Nat /\ proto = "releasing"
  BY <1>2, <1>3 DEF IInv, Counted, ProtocolLives, TaskTaken
<1>5. Written' = Written
  BY <1>1 DEF Written
<1>6. Types'
  <2>1. client' \in BOOLEAN /\ tasks' \in Seq(Tasks)
    BY <1>1, <1>2, <1>3, <1>4, <1>5 DEF IInv, Types, ConnectionState, TaskTaken
  <2> QED BY <1>1, <2>1 DEF IInv, Types
<1>7. TaskOrder'
  BY TaskOrderTake DEF IInv, ReleaseProtocolAgain
<1>8. IoOrder'
  BY <1>1, <1>2, <1>3, <1>4, <1>5 DEF IInv, IoOrder, TaskTaken
<1>9. Writes'
  BY <1>1, <1>2, <1>3, <1>4, <1>5 DEF IInv, Writes, TaskTaken
<1>10. Placed'
  BY <1>1, <1>2, <1>3, <1>4, <1>5 DEF IInv, Placed, Returning, TaskTaken
<1>11. Used' = Used
  BY <1>1, <1>2, <1>3, <1>4, <1>5 DEF IInv, Used, TaskTaken
<1>12. Counted'
  BY <1>1, <1>2, <1>3, <1>4, <1>5, <1>11 DEF IInv, Counted, Appointed, TaskTaken
<1>13. Requested'
  BY <1>1, <1>2, <1>3, <1>4, <1>5 DEF IInv, Requested, TaskTaken
<1>14. ProtocolLives'
  BY <1>1, <1>2, <1>3, <1>4, <1>5 DEF IInv, ProtocolLives, TaskTaken
<1>15. Released'
  BY <1>1, <1>2, <1>3, <1>4, <1>5, <1>11 DEF IInv, Released, Done, TaskTaken
<1> QED BY <1>6, <1>7, <1>8, <1>9, <1>10, <1>12, <1>13, <1>14, <1>15 DEF IInv

(* onReadTimeout and onWriteTimeout, of a connection that waits or does not. *)
TimeoutCloses(timer) ==
  /\ Runs(timer)
  /\ CloseSocket(Tail(ioQueue), <<>>) /\ CloseConnection(<<>>)
  /\ UNCHANGED <<flags, timers, dropping, objects, thread>>

TimeoutIgnored(timer) ==
  /\ Runs(timer)
  /\ ioQueue' = Tail(ioQueue)
  /\ UNCHANGED <<conn, sock, tasks, flags, timers, dropping, objects, thread>>

(* onReadTimeout or onWriteTimeout closes the socket of an unanswered       *)
(* operation.                                                               *)
LEMMA TimeoutClosesStep ==
  ASSUME IInv, NEW timer \in {"readTimer", "writeTimer"},
         TimeoutCloses(timer)
  PROVE  IInv'
<1>1. /\ UNCHANGED <<registered, receivedFirst, readError, writeError, refC, bound, proto, protoConn, refP, client, buffer, autoSend, toAdd, readTimer, writeTimer, dropping, running, events>>
  BY DEF TimeoutCloses, flags, pending, ops, sock, timers, io, counts, owner,
     pool, objects, thread
<1>2. IoTaken(Head(ioQueue), Tail(ioQueue)) /\ Head(ioQueue).op = timer
  BY HandlerRuns DEF IInv, TimeoutCloses
<1>3. SocketClosed(Tail(ioQueue), <<>>)
  BY <1>2, NothingPosted, CloseSocketFacts DEF IInv, IoTaken, TimeoutCloses
<1>4. Closes
  BY CloseConnectionFacts DEF IInv, TimeoutCloses
<1>5. Written' \cup writing' = Written \cup writing /\ (writing' # {} => writing' = writing /\ Written' = Written)
  BY <1>2, <1>3, NothingPosted DEF IoTaken, SocketClosed
<1>6. /\ Range(ioQueue') \subseteq Range(ioQueue) \cup FailedOps
      /\ socket # "open" => Range(ioQueue') \subseteq Range(ioQueue)
  BY <1>2, <1>3, NothingPosted DEF IoTaken, SocketClosed
<1>7. Types'
  <2>1. ioQueue' \in Seq(Completions) /\ tasks' \in Seq(Tasks) /\ conn' \in ConnectionState
    BY <1>3, <1>4 DEF IInv, Types, ConnectionState, Closes, SocketClosed
  <2>2. /\ socket' \in {"open", "closed", "deleted"} /\ pendingRead' \in {0, 1}
        /\ pendingWrite' \in Int /\ reading' \in {"none", "header", "body"}
        /\ writing' \in SUBSET Messages
    BY <1>3 DEF IInv, Types, SocketClosed
  <2> QED BY <1>1, <2>1, <2>2 DEF IInv, Types
<1>8. TaskOrder'
  BY TaskOrderClose DEF IInv, TimeoutCloses
<1>9. IoOrder'
  <2>1. ioQueue \in Seq(Completions) /\ ioQueue # <<>> /\ Tail(ioQueue) \in Seq(Completions)
    BY <1>2 DEF IInv, Types, IoTaken, Runs, TimeoutCloses
  <2>2. /\ After(Tail(ioQueue), Done({"write"}), Done({"write"}))
        /\ After(Tail(ioQueue), Done({"stop"}), Done({"header", "body", "write", "stop"}))
    BY <2>1, TailAfter DEF IInv, IoOrder
  <2>3. socket = "open" => Range(Tail(ioQueue)) \cap Done({"stop"}) = {}
    BY <1>2 DEF IInv, Released, IoTaken
  <2>4. writing # {} => Range(Tail(ioQueue)) \cap Done({"write"}) = {}
    BY <1>2, <2>1, WrittenEmpty DEF IInv, Writes, IoTaken
  <2> QED BY <2>1, <2>2, <2>3, <2>4, IoOrderClose DEF IInv, TimeoutCloses
<1>10. Writes'
  <2>1. conn' # "OPEN"
    BY <1>4 DEF Closes
  <2>2. pendingWrite' \in {0, 1} /\ \A m, n \in writing' : m = n
    BY <1>3 DEF IInv, Writes, SocketClosed
  <2> QED BY <1>5, <2>1, <2>2 DEF IInv, Writes
<1>11. Placed'
  BY <1>1, <1>4, <1>5 DEF IInv, Placed, Returning, Closes
<1>12. Used' = Used
  BY <1>1, <1>4, <1>5 DEF Used, Closes
<1>13. Counted'
  BY <1>1, <1>4, <1>12 DEF IInv, Counted, Appointed, Closes
<1>14. Requested'
  BY <1>1, <1>4 DEF IInv, Requested, Closes
<1>15. ProtocolLives'
  BY <1>1, <1>4 DEF IInv, ProtocolLives, Closes
<1>16. Released'
  <2>1. socket # "open" => Range(ioQueue') \subseteq Range(ioQueue) /\ conn' = conn
    BY <1>4, <1>6 DEF IInv, Released, Closes
  <2>2. socket = "open" => socket' = "closed" /\ Range(ioQueue') \cap Done({"stop"}) = {}
    BY <1>3, <1>6 DEF IInv, Released, SocketClosed, Done
  <2>3. conn' # "OPEN" /\ (conn' = "CLOSED" <=> conn = "CLOSED")
    BY <1>4 DEF Closes
  <2>4. socket' # "open" => reading' = "none" /\ writing' = {}
    BY <1>3 DEF IInv, Released, SocketClosed
  <2>5. socket' # "open" /\ (socket # "open" => socket' = socket)
    BY <1>3 DEF SocketClosed
  <2> QED BY <1>1, <1>4, <1>12, <2>1, <2>2, <2>3, <2>4, <2>5 DEF IInv, Released, Closes
<1> QED BY <1>7, <1>8, <1>9, <1>10, <1>11, <1>13, <1>14, <1>15, <1>16 DEF IInv

(* A timeout that is not due, or finds no connection.                       *)
LEMMA TimeoutIgnoredStep ==
  ASSUME IInv, NEW timer \in {"readTimer", "writeTimer"},
         TimeoutIgnored(timer)
  PROVE  IInv'
<1>1. /\ UNCHANGED <<conn, registered, socket, receivedFirst, readError, writeError, pendingRead, pendingWrite, refC, bound, proto, protoConn, refP, client, buffer, autoSend, toAdd, reading, writing, readTimer, writeTimer, dropping, tasks, running, events>>
  BY DEF TimeoutIgnored, flags, pending, ops, sock, timers, io, counts, owner,
     pool, objects, thread
<1>2. IoRest(timer)
  BY HandlerRests DEF IInv, TimeoutIgnored
<1>3. QueuedFree' = QueuedFree
  BY <1>1 DEF QueuedFree
<1>4. Types'
  <2>1. ioQueue' \in Seq(Completions)
    BY <1>1, <1>2, <1>3 DEF IInv, Types, ConnectionState, IoRest
  <2> QED BY <1>1, <2>1 DEF IInv, Types
<1>5. TaskOrder'
  BY <1>1, <1>2, <1>3 DEF IInv, TaskOrder, IoRest
<1>6. IoOrder'
  BY IoOrderTake DEF IInv, TimeoutIgnored, Runs
<1>7. Writes'
  BY <1>1, <1>2, <1>3 DEF IInv, Writes, IoRest
<1>8. Placed'
  BY <1>1, <1>2, <1>3 DEF IInv, Placed, Returning, IoRest
<1>9. Used' = Used
  BY <1>1, <1>2, <1>3 DEF IInv, Used, IoRest
<1>10. Counted'
  BY <1>1, <1>2, <1>3, <1>9 DEF IInv, Counted, Appointed, IoRest
<1>11. Requested'
  BY <1>1, <1>2, <1>3 DEF IInv, Requested, IoRest
<1>12. ProtocolLives'
  BY <1>1, <1>2, <1>3 DEF IInv, ProtocolLives, IoRest
<1>13. Released'
  BY <1>1, <1>2, <1>3, <1>9 DEF IInv, Released, Done, IoRest
<1> QED BY <1>4, <1>5, <1>6, <1>7, <1>8, <1>10, <1>11, <1>12, <1>13 DEF IInv

(* onWriteOperation: the connection is closed, or the next write may start.  *)
WriteFails ==
  /\ OnWriteOperation
  /\ conn # "OPEN" \/ writeError'

WriteDone ==
  /\ OnWriteOperation
  /\ ~(conn # "OPEN" \/ writeError')

(* onWriteOperation of a write that failed or of a closing connection: the  *)
(* socket is closed; no other write was under way that could be queued      *)
(* twice.                                                                   *)
LEMMA WriteFailsStep ==
  ASSUME IInv, WriteFails
  PROVE  IInv'
<1>1. /\ writeTimer' = FALSE /\ dropping' = Head(ioQueue).msg
      /\ writeError' = (writeError \/ ~Head(ioQueue).ok)
      /\ UNCHANGED <<registered, receivedFirst, readError, refC, bound, proto,
         protoConn, refP, client, buffer, autoSend, toAdd, readTimer, running,
         events>>
  BY DEF WriteFails, OnWriteOperation, flags, pending, ops, sock, timers, io,
     counts, owner, pool, objects, thread
<1>2. /\ IoTaken(Head(ioQueue), Tail(ioQueue))
      /\ Head(ioQueue).op = "write" /\ dropping = NoMsg
  BY HandlerRuns DEF IInv, Runs, WriteFails, OnWriteOperation
<1>3. /\ dropping' \in Messages /\ dropping' # NoMsg
      /\ Written = {dropping'} /\ writing = {}
      /\ MessagesOf(Tail(ioQueue)) = {}
      /\ Head(ioQueue).ok \in BOOLEAN
  BY <1>1, <1>2, MessageAssumption DEF IInv, Writes, IoTaken, Completions
<1>4. SocketClosed(Tail(ioQueue), <<>>)
  BY <1>2, NothingPosted, CloseSocketFacts DEF IInv, IoTaken, WriteFails,
     OnWriteOperation
<1>5. Closes
  BY CloseConnectionFacts DEF IInv, WriteFails, OnWriteOperation
<1>6. Written' = {} /\ writing' = {}
  BY <1>3, <1>4, NothingPosted DEF SocketClosed
<1>7. /\ Range(ioQueue') \subseteq Range(ioQueue) \cup FailedOps
      /\ socket # "open" => Range(ioQueue') \subseteq Range(ioQueue)
  BY <1>2, <1>4, NothingPosted DEF IoTaken, SocketClosed
<1>8. Types'
  <2>1. ioQueue' \in Seq(Completions) /\ tasks' \in Seq(Tasks) /\ conn' \in ConnectionState
    BY <1>4, <1>5 DEF IInv, Types, ConnectionState, Closes, SocketClosed
  <2>2. /\ socket' \in {"open", "closed", "deleted"} /\ pendingRead' \in {0, 1}
        /\ pendingWrite' \in Int /\ reading' \in {"none", "header", "body"}
        /\ writing' \in SUBSET Messages
    BY <1>4 DEF IInv, Types, SocketClosed
  <2>3. writeError' \in BOOLEAN /\ writeTimer' \in BOOLEAN
    BY <1>1, <1>3 DEF IInv, Types
  <2> QED BY <1>1, <1>3, <2>1, <2>2, <2>3 DEF IInv, Types
<1>9. TaskOrder'
  BY TaskOrderClose DEF IInv, WriteFails, OnWriteOperation
<1>10. IoOrder'
  <2>1. ioQueue \in Seq(Completions) /\ ioQueue # <<>> /\ Tail(ioQueue) \in Seq(Completions)
    BY <1>2 DEF IInv, Types, IoTaken, Runs, WriteFails, OnWriteOperation
  <2>2. /\ After(Tail(ioQueue), Done({"write"}), Done({"write"}))
        /\ After(Tail(ioQueue), Done({"stop"}), Done({"header", "body", "write", "stop"}))
    BY <2>1, TailAfter DEF IInv, IoOrder
  <2>3. socket = "open" => Range(Tail(ioQueue)) \cap Done({"stop"}) = {}
    BY <1>2 DEF IInv, Released, IoTaken
  <2>4. writing # {} => Range(Tail(ioQueue)) \cap Done({"write"}) = {}
    BY <1>2, <2>1, WrittenEmpty DEF IInv, Writes, IoTaken
  <2> QED BY <2>1, <2>2, <2>3, <2>4, IoOrderClose DEF IInv, WriteFails, OnWriteOperation
<1>11. Writes'
  <2>1. conn' # "OPEN"
    BY <1>5 DEF Closes
  <2>2. pendingWrite' \in {0, 1}
    BY <1>4 DEF IInv, Writes, SocketClosed
  <2> QED BY <1>6, <2>1, <2>2 DEF Writes
<1>12. Placed'
  <2>1. Returning' = Returning \cup {dropping'} /\ dropping' \notin QueuedFree'
    BY <1>2, <1>3, <1>5, MessageAssumption DEF IInv, Placed, Returning, Closes
  <2> QED BY <1>1, <1>3, <1>6, <2>1 DEF IInv, Placed
<1>13. Used' = Used
  BY <1>1, <1>2, <1>3, <1>5, <1>6, MessageAssumption DEF Used, Closes
<1>14. Counted'
  BY <1>1, <1>5, <1>13 DEF IInv, Counted, Appointed, Closes
<1>15. Requested'
  BY <1>1, <1>5 DEF IInv, Requested, Closes
<1>16. ProtocolLives'
  BY <1>1, <1>5 DEF IInv, ProtocolLives, Closes
<1>17. Released'
  <2>1. socket # "open" => Range(ioQueue') \subseteq Range(ioQueue) /\ conn' = conn
    BY <1>5, <1>7 DEF IInv, Released, Closes
  <2>2. socket = "open" => socket' = "closed" /\ Range(ioQueue') \cap Done({"stop"}) = {}
    BY <1>4, <1>7 DEF IInv, Released, SocketClosed, Done
  <2>3. conn' # "OPEN" /\ (conn' = "CLOSED" <=> conn = "CLOSED")
    BY <1>5 DEF Closes
  <2>4. socket' # "open" => reading' = "none" /\ writing' = {}
    BY <1>4 DEF IInv, Released, SocketClosed
  <2>5. socket' # "open" /\ (socket # "open" => socket' = socket)
    BY <1>4 DEF SocketClosed
  <2> QED BY <1>1, <1>5, <1>13, <2>1, <2>2, <2>3, <2>4, <2>5 DEF IInv, Released, Closes
<1> QED BY <1>8, <1>9, <1>10, <1>11, <1>12, <1>14, <1>15, <1>16, <1>17 DEF IInv

(* onWriteOperation of an open connection: m_pendingWrite goes down to zero.*)
LEMMA WriteDoneStep ==
  ASSUME IInv, WriteDone
  PROVE  IInv'
<1>1. /\ writeTimer' = FALSE /\ dropping' = Head(ioQueue).msg
      /\ writeError' = (writeError \/ ~Head(ioQueue).ok)
      /\ conn = "OPEN" /\ pendingWrite' = pendingWrite - 1
      /\ ioQueue' = Tail(ioQueue)
      /\ UNCHANGED <<conn, registered, socket, receivedFirst, readError,
         pendingRead, refC, bound, proto, protoConn, refP, client, buffer,
         autoSend, toAdd, reading, writing, readTimer, tasks, running, events>>
  BY DEF WriteDone, OnWriteOperation, flags, pending, ops, sock, timers, io,
     counts, owner, pool, objects, thread
<1>2. /\ IoTaken(Head(ioQueue), Tail(ioQueue))
      /\ Head(ioQueue).op = "write" /\ dropping = NoMsg
  BY HandlerRuns DEF IInv, Runs, WriteDone, OnWriteOperation
<1>3. /\ dropping' \in Messages /\ dropping' # NoMsg
      /\ Written = {dropping'} /\ writing = {}
      /\ MessagesOf(Tail(ioQueue)) = {}
      /\ Head(ioQueue).ok \in BOOLEAN
  BY <1>1, <1>2, MessageAssumption DEF IInv, Writes, IoTaken, Completions
<1>4. /\ Written' = {} /\ ioQueue' \in Seq(Completions)
      /\ Range(ioQueue') \subseteq Range(ioQueue)
  BY <1>1, <1>2, <1>3 DEF IoTaken
<1>5. QueuedFree' = QueuedFree
  BY <1>1 DEF QueuedFree
<1>6. Types'
  <2>1. writeError' \in BOOLEAN /\ writeTimer' \in BOOLEAN
    BY <1>1, <1>3 DEF IInv, Types
  <2> QED BY <1>1, <1>2, <1>3, <1>4, <1>5, <2>1 DEF IInv, Types
<1>7. TaskOrder'
  BY <1>1, <1>2, <1>3, <1>4, <1>5 DEF IInv, TaskOrder, IoTaken
<1>8. IoOrder'
  BY <1>1, IoOrderTake DEF IInv, Runs, WriteDone, OnWriteOperation
<1>9. Writes'
  BY <1>1, <1>2, <1>3, <1>4, <1>5 DEF IInv, Writes, IoTaken
<1>10. Placed'
  <2>1. Returning' = Returning \cup {dropping'} /\ dropping' \notin QueuedFree'
    BY <1>1, <1>2, <1>3, <1>4, <1>5, MessageAssumption DEF IInv, Placed, Returning
  <2> QED BY <1>1, <1>2, <1>3, <1>4, <1>5, <2>1 DEF IInv, Placed
<1>11. Used' = Used
  BY <1>1, <1>2, <1>3, <1>4, <1>5, MessageAssumption DEF Used
<1>12. Counted'
  BY <1>1, <1>2, <1>3, <1>4, <1>5, <1>11 DEF IInv, Counted, Appointed, IoTaken
<1>13. Requested'
  BY <1>1, <1>2, <1>3, <1>4, <1>5 DEF IInv, Requested, IoTaken
<1>14. ProtocolLives'
  BY <1>1, <1>2, <1>3, <1>4, <1>5 DEF IInv, ProtocolLives, IoTaken
<1>15. Released'
  BY <1>1, <1>2, <1>3, <1>4, <1>5, <1>11 DEF IInv, Released, Done, IoTaken
<1> QED BY <1>6, <1>7, <1>8, <1>9, <1>10, <1>12, <1>13, <1>14, <1>15 DEF IInv

(* What a packet asks the dispatcher for.                                    *)
Asks(more) ==
  /\ tasks' \in Seq(Tasks)
  /\ QueuedFree' = QueuedFree
  /\ conn' = (IF "close" \in more THEN "REQUEST_CLOSE" ELSE conn)
  /\ Range(tasks') = Range(tasks) \cup more

(* onRecvMessage: logout or disconnectClient is queued for a bound protocol *)
(* only, before any closeConnectionTask.                                    *)
LEMMA NextPacketStep ==
  ASSUME IInv, NextPacket
  PROVE  IInv'
<1>1. /\ conn = "OPEN" /\ receivedFirst
      /\ reading' = "header" /\ readTimer' = TRUE
      /\ ioQueue' = Tail(ioQueue)
      /\ UNCHANGED <<registered, socket, receivedFirst, readError, writeError,
         pendingRead, pendingWrite, refC, bound, proto, protoConn, refP,
         client, buffer, autoSend, toAdd, writing, writeTimer, dropping,
         running, events>>
  BY DEF NextPacket, ParsePacket, ReadFailed, flags, pending, ops, sock,
     timers, io, counts, owner, pool, objects, thread
<1>2. IoRest("body")
  BY <1>1, HandlerRests DEF IInv, NextPacket, ParsePacket
<1>3. PICK more \in SUBSET {"close", "login", "proto"} : Asks(more)
  <2>1. CASE CloseConnection(<<>>)
    <3>1. Asks({"close"})
      BY <1>1, <2>1, CloseConnectionFacts DEF IInv, Closes, Asks
    <3> QED BY <3>1
  <2>2. ASSUME NEW task \in {"login", "proto"}, tasks' = Append(tasks, task), conn' = conn
        PROVE  \E more \in SUBSET {"close", "login", "proto"} : Asks(more)
    <3>1. TaskAdded(task) /\ task \in OtherTasks
      BY <2>2, AddTask DEF IInv, Tasks, OtherTasks
    <3>2. Asks({task})
      BY <2>2, <3>1 DEF TaskAdded, Asks
    <3> QED BY <3>2
  <2>3. CASE UNCHANGED <<conn, tasks>>
    <3>1. Asks({})
      BY <2>3 DEF IInv, Types, Asks, QueuedFree
    <3> QED BY <3>1
  <2> QED BY <2>1, <2>2, <2>3 DEF NextPacket
<1>4. Types'
  <2>1. ioQueue' \in Seq(Completions) /\ tasks' \in Seq(Tasks) /\ conn' \in ConnectionState
    BY <1>1, <1>2, <1>3 DEF IInv, Types, ConnectionState, Asks, IoRest
  <2>2. readTimer' \in BOOLEAN
    BY <1>1, <1>2, <1>3
  <2> QED BY <1>1, <1>2, <1>3, <2>1, <2>2 DEF IInv, Types
<1>5. TaskOrder'
  <2>1. CASE CloseConnection(<<>>)
    BY <2>1, TaskOrderClose DEF IInv
  <2>2. ASSUME NEW task \in {"login", "proto"}, tasks' = Append(tasks, task)
        PROVE  TaskOrder'
    <3>1. MayAdd(task)
      BY <1>1, MessageAssumption DEF IInv, Requested, MayAdd, Tasks, OtherTasks
    <3> QED BY <2>2, <3>1, TaskOrderAdd DEF IInv
  <2>3. CASE UNCHANGED <<conn, tasks>>
    BY <2>3 DEF IInv, TaskOrder
  <2> QED BY <2>1, <2>2, <2>3 DEF NextPacket
<1>6. IoOrder'
  BY <1>1, IoOrderTake DEF IInv, Runs, NextPacket, ParsePacket
<1>7. Writes'
  BY <1>1, <1>2, <1>3 DEF IInv, Writes, TaskAdded, Closes, IoRest, Asks
<1>8. Placed'
  BY <1>1, <1>2, <1>3 DEF IInv, Placed, Returning, TaskAdded, Closes, IoRest, Asks
<1>9. Used' = Used
  BY <1>1, <1>2, <1>3 DEF IInv, Used, TaskAdded, Closes, IoRest, Asks
<1>10. Counted'
  BY <1>1, <1>2, <1>3, <1>9 DEF IInv, Counted, Appointed, TaskAdded, Closes,
     IoRest, Asks
<1>11. Requested'
  BY <1>1, <1>2, <1>3 DEF IInv, Requested, Asks
<1>12. ProtocolLives'
  BY <1>1, <1>2, <1>3 DEF IInv, ProtocolLives, TaskAdded, Closes, IoRest, Asks
<1>13. Released'
  BY <1>1, <1>2, <1>3, <1>9 DEF IInv, Released, Done, TaskAdded, Closes,
     IoRest, Asks
<1> QED BY <1>4, <1>5, <1>6, <1>7, <1>8, <1>10, <1>11, <1>12, <1>13 DEF IInv

(* The greeting that the first packet may be answered with.                  *)
Configured(new) ==
  /\ new \cap Used = {}
  /\ autoSend' \in Seq(Messages)
  /\ IsInjective(autoSend')
  /\ Range(autoSend') = Range(autoSend) \cup new
  /\ \/ new = {} /\ refC' = refC /\ refP' = refP /\ buffer' = buffer
     \/ \E m \in Messages : /\ new = {m}
                           /\ refC' = refC + 1 /\ refP' = refP + 1 /\ buffer' = m

(* onRecvFirstMessage: the protocol exists from here on, and its login is   *)
(* queued before any closeConnectionTask.                                   *)
LEMMA FirstPacketStep ==
  ASSUME IInv, FirstPacket
  PROVE  IInv'
<1>1. /\ conn = "OPEN" /\ receivedFirst' = TRUE /\ bound' = TRUE
      /\ proto' = (IF bound THEN proto ELSE "alive")
      /\ protoConn' = (bound => protoConn)
      /\ reading' = "header" /\ readTimer' = TRUE
      /\ ioQueue' = Tail(ioQueue)
      /\ UNCHANGED <<registered, socket, readError, writeError, pendingRead,
         pendingWrite, client, toAdd, writing, writeTimer, dropping, running,
         events>>
  BY DEF FirstPacket, ParsePacket, ReadFailed, flags, pending, ops, sock,
     timers, io, counts, owner, pool, objects, thread
<1>2. IoRest("body")
  BY <1>1, HandlerRests DEF IInv, FirstPacket, ParsePacket
<1>3. proto \in {"none", "alive"} /\ proto' = "alive" /\ protoConn' = TRUE
  BY <1>1 DEF IInv, Requested, Types
<1>4. PICK more \in SUBSET {"close", "login", "proto"} : Asks(more)
  <2>1. CASE CloseConnection(<<>>)
    <3>1. Asks({"close"})
      BY <1>1, <2>1, CloseConnectionFacts DEF IInv, Closes, Asks
    <3> QED BY <3>1
  <2>2. ASSUME NEW task \in {"login", "proto"}, tasks' = Append(tasks, task), conn' = conn
        PROVE  \E more \in SUBSET {"close", "login", "proto"} : Asks(more)
    <3>1. TaskAdded(task) /\ task \in OtherTasks
      BY <2>2, AddTask DEF IInv, Tasks, OtherTasks
    <3>2. Asks({task})
      BY <2>2, <3>1 DEF TaskAdded, Asks
    <3> QED BY <3>2
  <2> QED BY <2>1, <2>2 DEF FirstPacket
<1>5. PICK new \in SUBSET Messages : Configured(new)
  <2>1. CASE \E m \in Free : NewBuffer(m)
    <3>1. PICK m \in Free : NewBuffer(m)
      BY <2>1
    <3>2. m \in Messages /\ m \notin Used
      BY DEF Free
    <3>3. autoSend' \in Seq(Messages) /\ Range(autoSend') = Range(autoSend) \cup {m}
      BY <3>1, <3>2, AppendFacts DEF IInv, Types, NewBuffer
    <3>4. IsInjective(autoSend')
      BY <3>1, <3>2, AppendOnce DEF IInv, Types, Placed, Used, NewBuffer
    <3>5. Configured({m})
      BY <3>1, <3>2, <3>3, <3>4 DEF Configured, NewBuffer, Configure
    <3> QED BY <3>2, <3>5
  <2>2. CASE UNCHANGED <<counts, buffer, autoSend>>
    <3>1. Configured({})
      BY <2>2 DEF IInv, Types, Placed, Configured, counts
    <3> QED BY <3>1
  <2> QED BY <2>1, <2>2 DEF FirstPacket
<1>6. Types'
  <2>1. ioQueue' \in Seq(Completions) /\ tasks' \in Seq(Tasks) /\ conn' \in ConnectionState
    BY <1>1, <1>2, <1>3, <1>4, <1>5 DEF IInv, Types, ConnectionState, Asks, IoRest
  <2>2. readTimer' \in BOOLEAN /\ receivedFirst' \in BOOLEAN /\ bound' \in BOOLEAN /\ protoConn' \in BOOLEAN
    BY <1>1, <1>2, <1>3, <1>4, <1>5
  <2>3. /\ refC' \in Int /\ refP' \in Int /\ buffer' \in Messages \cup {NoMsg}
        /\ autoSend' \in Seq(Messages)
    BY <1>5 DEF IInv, Types, Configured
  <2> QED BY <1>1, <1>3, <2>1, <2>2, <2>3 DEF IInv, Types
<1>7. TaskOrder'
  <2>1. CASE CloseConnection(<<>>)
    BY <2>1, TaskOrderClose DEF IInv
  <2>2. ASSUME NEW task \in {"login", "proto"}, tasks' = Append(tasks, task)
        PROVE  TaskOrder'
    <3>1. MayAdd(task)
      BY <1>1, MessageAssumption DEF IInv, Requested, MayAdd, Tasks, OtherTasks
    <3> QED BY <2>2, <3>1, TaskOrderAdd DEF IInv
  <2> QED BY <2>1, <2>2 DEF FirstPacket
<1>8. IoOrder'
  BY <1>1, IoOrderTake DEF IInv, Runs, FirstPacket, ParsePacket
<1>9. Writes'
  BY <1>1, <1>2, <1>3, <1>4, <1>5 DEF IInv, Writes, TaskAdded, Closes, IoRest,
     Asks
<1>10. Placed'
  BY <1>1, <1>2, <1>3, <1>4, <1>5 DEF IInv, Placed, Returning, IoRest, Asks,
     Configured, Used
<1>11. Used' = Used \cup new
  BY <1>1, <1>2, <1>3, <1>4, <1>5 DEF Used, IoRest, Asks, Configured
<1>12. Counted'
  <2>1. Appointed' <=> Appointed
    BY <1>1, <1>4 DEF Appointed, Asks
  <2>2. ASSUME NEW m \in Messages, new = {m}
        PROVE  IsFiniteSet(Used') /\ Cardinality(Used') = Cardinality(Used) + 1
    BY <1>5, <2>2, <1>11, FS_AddElement DEF IInv, Counted, Configured
  <2>3. new = {} => Used' = Used
    BY <1>11
  <2>4. IsFiniteSet(Used') /\ refC' = Cardinality(Used') /\ refP' - refC' = refP - refC
    BY <1>5, <2>2, <2>3 DEF IInv, Types, Counted, Configured
  <2>5. "connect" \in events' => "connect" \notin Range(tasks')
    BY <1>1, <1>4 DEF IInv, Counted, Asks
  <2>6. refP' \in Int /\ refC' \in Int
    BY <1>5 DEF IInv, Types, Configured
  <2> QED BY <2>1, <2>4, <2>5, <2>6 DEF IInv, Types, Counted
<1>13. Requested'
  BY <1>1, <1>2, <1>3, <1>4, <1>5 DEF IInv, Requested, Asks
<1>14. ProtocolLives'
  BY <1>1, <1>2, <1>3, <1>4, <1>5 DEF IInv, ProtocolLives, Asks, Configured
<1>15. Released'
  BY <1>1, <1>2, <1>3, <1>4, <1>5, <1>11 DEF IInv, Released, Done, IoRest, Asks
<1> QED BY <1>6, <1>7, <1>8, <1>9, <1>10, <1>12, <1>13, <1>14, <1>15 DEF IInv

(* Where a message goes that is sent: to the socket (w), to the messages    *)
(* that wait (q), or back to the pool (t).                                   *)
SentTo(m, w, q, t) ==
  /\ w \cup q \cup t = {m}
  /\ w \cap q = {} /\ w \cap t = {} /\ q \cap t = {}
  /\ writing' = writing \cup w
  /\ writeTimer' \in BOOLEAN
  /\ toAdd' \in Seq(Messages) /\ IsInjective(toAdd') /\ Range(toAdd') = Range(toAdd) \cup q
  /\ tasks' \in Seq(Tasks) /\ TaskOrder'
  /\ Range(tasks') = Range(tasks) \cup t /\ QueuedFree' = QueuedFree \cup t
  /\ \/ w = {} /\ pendingWrite' = pendingWrite
     \/ w = {m} /\ conn = "OPEN" /\ pendingWrite = 0 /\ pendingWrite' = 1
  /\ buffer' \in {buffer, NoMsg}
  /\ q = {} => buffer' # m

(* What Connection::send does with a message that was in no place.          *)
LEMMA SendFacts ==
  ASSUME IInv, NEW m \in Messages, m \notin Range(toAdd) \cup writing \cup Written \cup Returning,
         Send(m)
  PROVE  \E w, q, t \in SUBSET Messages : SentTo(m, w, q, t)
<1>1. m \in Tasks /\ m \notin OtherTasks /\ m # NoMsg
  BY MessageAssumption DEF Tasks
<1>2. CASE /\ conn = "OPEN" /\ pendingWrite = 0 /\ OnSendMessage(m)
           /\ pendingWrite' = pendingWrite + 1 /\ writeTimer' = TRUE
           /\ writing' = writing \cup {m} /\ UNCHANGED <<toAdd, tasks>>
  <2>1. TaskOrder' /\ QueuedFree' = QueuedFree
    BY <1>2 DEF IInv, TaskOrder, QueuedFree
  <2>2. SentTo(m, {m}, {}, {})
    BY <1>1, <1>2, <2>1 DEF IInv, Types, Placed, SentTo, OnSendMessage
  <2> QED BY <2>2
<1>3. CASE toAdd' = Append(toAdd, m)
           /\ UNCHANGED <<pendingWrite, writing, writeTimer, buffer, tasks>>
  <2>1. /\ toAdd' \in Seq(Messages) /\ IsInjective(toAdd')
        /\ Range(toAdd') = Range(toAdd) \cup {m}
    BY <1>3, AppendFacts, AppendOnce DEF IInv, Types, Placed
  <2>2. TaskOrder' /\ QueuedFree' = QueuedFree
    BY <1>3 DEF IInv, TaskOrder, QueuedFree
  <2>3. SentTo(m, {}, {m}, {})
    BY <1>1, <1>3, <2>1, <2>2 DEF IInv, Types, SentTo
  <2> QED BY <2>3
<1>4. CASE /\ OnSendMessage(m) /\ tasks' = Append(tasks, m)
           /\ UNCHANGED <<pendingWrite, writing, writeTimer, toAdd>>
  <2>1. TaskAdded(m)
    BY <1>1, <1>4, AddTask DEF IInv
  <2>2. MayAdd(m)
    BY <1>1 DEF Returning, QueuedFree, MayAdd, OtherTasks
  <2>3. TaskOrder'
    BY <1>4, <2>2, TaskOrderAdd DEF IInv
  <2>4. SentTo(m, {}, {}, {m})
    BY <1>1, <1>4, <2>1, <2>3 DEF IInv, Types, Placed, SentTo, OnSendMessage, TaskAdded
  <2> QED BY <2>4
<1> QED BY <1>2, <1>3, <1>4 DEF Send, CanSend

(* A message is sent, by SendAtOnce before it was in the list or by SendNext  *)
(* from its head.                                                           *)
Sends(m) ==
  /\ m \in Messages
  /\ m \notin Range(toAdd) \cup writing \cup Written \cup Returning
  /\ autoSend' \in Seq(Messages) /\ IsInjective(autoSend')
  /\ Range(autoSend') = Range(autoSend) \ {m}
  /\ Send(m)
  /\ \/ m \in Range(autoSend) /\ UNCHANGED counts
     \/ /\ m \notin Range(autoSend) /\ proto = "alive"
        /\ conn # "CLOSED" /\ refC' = refC + 1 /\ refP' = refP + 1
  /\ UNCHANGED <<conn, flags, socket, pendingRead, reading, readTimer, ioQueue,
                 dropping, owner, thread>>

(* Connection::send keeps the invariant, called by sendAll or for a message *)
(* of a task's own.                                                         *)
LEMMA SendStep ==
  ASSUME IInv, NEW m, Sends(m)
  PROVE  IInv'
<1>1. /\ m \in Messages
      /\ m \notin Range(toAdd) \cup writing \cup Written \cup Returning
      /\ autoSend' \in Seq(Messages) /\ IsInjective(autoSend')
      /\ Range(autoSend') = Range(autoSend) \ {m}
      /\ \/ m \in Range(autoSend) /\ refC' = refC /\ refP' = refP
         \/ /\ m \notin Range(autoSend) /\ proto = "alive" /\ conn # "CLOSED"
            /\ refC' = refC + 1 /\ refP' = refP + 1
      /\ UNCHANGED <<conn, registered, socket, receivedFirst, readError,
         writeError, pendingRead, bound, proto, protoConn, client, reading,
         readTimer, ioQueue, dropping, running, events>>
  BY DEF Sends, flags, pending, ops, sock, timers, io, counts, owner, pool,
     objects, thread
<1>2. PICK w \in SUBSET Messages, q \in SUBSET Messages, t \in SUBSET Messages :
        SentTo(m, w, q, t)
  BY <1>1, SendFacts DEF Sends
<1>3. m \notin OtherTasks /\ NoMsg \notin Messages
  BY <1>1, MessageAssumption
<1>4. Written' = Written
  BY <1>1 DEF Written
<1>5. Types'
  <2>1. refC' \in Int /\ refP' \in Int
    BY <1>1 DEF IInv, Types
  <2>2. /\ writing' \in SUBSET Messages /\ buffer' \in Messages \cup {NoMsg}
        /\ pendingWrite' \in Int
    BY <1>2 DEF IInv, Types, SentTo
  <2> QED BY <1>1, <1>2, <2>1, <2>2 DEF IInv, Types, SentTo
<1>6. TaskOrder'
  BY <1>2 DEF SentTo
<1>7. IoOrder'
  BY <1>1 DEF IInv, IoOrder
<1>8. Writes'
  BY <1>1, <1>2, <1>3, <1>4 DEF IInv, Writes, SentTo
<1>9. Placed'
  <2>1. Returning' = Returning \cup t
    BY <1>1, <1>2, <1>3, <1>4 DEF Returning, SentTo
  <2> QED BY <1>1, <1>2, <1>3, <1>4, <2>1 DEF IInv, Placed, SentTo, Returning
<1>10. Used' = Used \cup {m}
  BY <1>1, <1>2, <1>3, <1>4 DEF Used, SentTo
<1>11. Counted'
  <2>1. Appointed' <=> Appointed
    BY <1>1, <1>2, <1>3 DEF Appointed, SentTo, OtherTasks
  <2>2. IsFiniteSet(Used') /\ refC' = Cardinality(Used') /\ refP' - refC' = refP - refC
    <3>1. CASE m \in Range(autoSend)
      <4>1. Used' = Used
        BY <3>1, <1>10 DEF Used
      <4> QED BY <1>1, <3>1, <4>1 DEF IInv, Types, Counted
    <3>2. CASE m \notin Range(autoSend)
      <4>1. m \notin Used
        BY <1>1, <3>2 DEF Used, Returning
      <4>2. IsFiniteSet(Used') /\ Cardinality(Used') = Cardinality(Used) + 1
        BY <4>1, <1>10, FS_AddElement DEF IInv, Counted
      <4> QED BY <1>1, <3>2, <4>2 DEF IInv, Types, Counted
    <3> QED BY <3>1, <3>2
  <2>3. "connect" \in events' => "connect" \notin Range(tasks')
    BY <1>1, <1>2, <1>3 DEF IInv, Counted, SentTo, OtherTasks
  <2>4. refP' \in Int /\ refC' \in Int
    BY <1>1 DEF IInv, Types
  <2> QED BY <2>1, <2>2, <2>3, <2>4 DEF IInv, Types, Counted
<1>12. Requested'
  BY <1>1, <1>2, <1>3, <1>4 DEF IInv, Requested, SentTo, OtherTasks
<1>13. ProtocolLives'
  <2>1. proto' = proto /\ proto \in {"none", "deleted"} => refP' = refP
    <3>1. CASE m \in Range(autoSend)
      BY <1>1, <3>1
    <3>2. CASE proto = "alive"
      BY <1>1, <3>2
    <3> QED BY <1>1, <3>1, <3>2
  <2>2. "releaseProtocol" \in Range(tasks') <=> "releaseProtocol" \in Range(tasks)
    BY <1>2, <1>3 DEF SentTo, OtherTasks
  <2>3. buffer' # NoMsg => buffer' \in Range(autoSend') \cup Range(toAdd')
    BY <1>1, <1>2 DEF IInv, ProtocolLives, SentTo
  <2> QED BY <1>1, <2>1, <2>2, <2>3 DEF IInv, ProtocolLives
<1>14. Released'
  <2>1. "releaseConnection" \in Range(tasks') <=> "releaseConnection" \in Range(tasks)
    BY <1>2, <1>3 DEF SentTo, OtherTasks
  <2>2. Used = {} /\ conn = "CLOSED" => FALSE
    BY <1>1 DEF Used
  <2>3. socket # "open" => writing' = writing
    BY <1>2 DEF IInv, Released, SentTo
  <2> QED BY <1>1, <2>1, <2>2, <2>3 DEF IInv, Released
<1> QED BY <1>5, <1>6, <1>7, <1>8, <1>9, <1>11, <1>12, <1>13, <1>14 DEF IInv

(* A task sends a message of its own at once.                               *)
LEMMA SendAtOnceStep ==
  ASSUME IInv, NEW m \in Messages, SendAtOnce(m)
  PROVE  IInv'
<1>1. protoConn /\ m \notin Used
  BY DEF SendAtOnce, Configure, Free
<1>2. proto = "alive" /\ conn # "CLOSED"
  BY <1>1 DEF IInv, Requested, Types, ConnectionState
<1>3. m \notin Range(autoSend) \cup Range(toAdd) \cup writing \cup Written \cup Returning
  BY <1>1 DEF Used, Returning
<1>4. Sends(m)
  BY <1>2, <1>3 DEF IInv, Types, Placed, Sends, SendAtOnce, Configure
<1> QED BY <1>4, SendStep

(* sendAll sends the first message of its list.                             *)
LEMMA SendNextStep ==
  ASSUME IInv, SendNext
  PROVE  IInv'
<1>1. autoSend \in Seq(Messages) /\ autoSend # <<>> /\ autoSend' = Tail(autoSend)
  BY DEF IInv, Types, SendNext
<1>2. /\ Head(autoSend) \in Messages
      /\ autoSend' \in Seq(Messages)
      /\ Range(autoSend) = {Head(autoSend)} \cup Range(autoSend')
  BY <1>1, TailFacts
<1>3. IsInjective(autoSend') /\ Head(autoSend) \notin Range(autoSend')
  BY <1>1, TailOnce DEF IInv, Placed
<1>4. Head(autoSend) \notin Range(toAdd) \cup writing \cup Written \cup Returning
  BY <1>2 DEF IInv, Placed
<1>5. Sends(Head(autoSend))
  BY <1>2, <1>3, <1>4 DEF Sends, SendNext, counts
<1> QED BY <1>5, SendStep

(* closeConnectionTask closes the connection at once, or leaves that to the  *)
(* handlers of the pending write.                                           *)
ClosesNow == CloseConnectionTask /\ NothingPending

ClosesLater == CloseConnectionTask /\ ~NothingPending

(* The protocol is released by either, if there is one.                     *)
Releases ==
  /\ client' \in BOOLEAN /\ (client' => client)
  /\ bound => /\ ~client'
              /\ proto' = (IF refP > 0 THEN "releasing" ELSE "deleted")
              /\ proto = "alive"
  /\ ~bound => proto' = proto /\ proto = "none"
  /\ "releaseProtocol" \in events' <=> proto' = "releasing"
  /\ "releaseProtocol" \notin Range(tasks)
  /\ refC \in Nat /\ refP \in Nat

(* closeConnectionTask releases the protocol: deleted, or an event tries    *)
(* again.                                                                   *)
LEMMA ReleasesFacts ==
  ASSUME IInv, CloseConnectionTask
  PROVE  /\ Releases
         /\ "connect" \in events' <=> "connect" \in events
         /\ "releaseConnection" \notin events
         /\ ~NothingPending => "releaseConnection" \notin events'
         /\ NothingPending => ("releaseConnection" \in events' <=> refC > 0)
         /\ events' \subseteq {"connect", "releaseConnection", "releaseProtocol"}
<1>1. refC \in Nat /\ refP \in Nat
  BY PostStopFacts
<1>2. conn = "REQUEST_CLOSE" /\ proto \in {"none", "alive"} /\ (bound <=> proto = "alive")
  BY DEF IInv, Requested, CloseConnectionTask
<1>3. "releaseProtocol" \notin events \cup Range(tasks) /\ "releaseConnection" \notin events
  BY <1>2 DEF IInv, ProtocolLives, Released
<1>4. /\ events' = events \cup (IF NothingPending /\ refC > 0 THEN {"releaseConnection"} ELSE {})
                         \cup (IF bound /\ refP > 0 THEN {"releaseProtocol"} ELSE {})
  BY DEF CloseConnectionTask, Retry
<1>5. /\ bound => client' = FALSE /\ proto' = (IF refP > 0 THEN "releasing" ELSE "deleted")
      /\ ~bound => proto' = proto /\ client' = client
  BY DEF CloseConnectionTask, ReleaseProtocol
<1>6. client' \in BOOLEAN /\ (client' => client)
  <2>1. CASE bound
    BY <1>5, <2>1
  <2>2. CASE ~bound
    BY <1>5, <2>2 DEF IInv, Types
  <2> QED BY <2>1, <2>2
<1>7. "releaseProtocol" \in events' <=> proto' = "releasing"
  BY <1>1, <1>2, <1>3, <1>4, <1>5 DEF IInv, Types
<1>8. Releases
  BY <1>1, <1>2, <1>3, <1>5, <1>6, <1>7 DEF Releases
<1> QED BY <1>3, <1>4, <1>8 DEF IInv, Types

(* closeConnectionTask of a connection that writes: the connection is       *)
(* CLOSING, its protocol is released.                                       *)
LEMMA ClosesLaterStep ==
  ASSUME IInv, ClosesLater
  PROVE  IInv'
<1>1. /\ conn = "REQUEST_CLOSE" /\ conn' = "CLOSING" /\ running' = "done"
      /\ protoConn' = FALSE /\ bound' = FALSE
      /\ UNCHANGED <<registered, socket, receivedFirst, readError, writeError,
         pendingRead, pendingWrite, refC, refP, buffer, autoSend, toAdd,
         reading, writing, readTimer, writeTimer, ioQueue, dropping>>
  BY DEF ClosesLater, CloseConnectionTask, flags, pending, ops, sock, timers,
     io, counts, owner, pool, objects, thread
<1>2. TaskTaken("close") /\ "close" \in OtherTasks
  BY TakeTaskFacts DEF IInv, CloseConnectionTask, ClosesLater, OtherTasks
<1>3. /\ Releases
      /\ "connect" \in events' <=> "connect" \in events
      /\ "releaseConnection" \notin events
      /\ events' \subseteq {"connect", "releaseConnection", "releaseProtocol"}
      /\ "releaseConnection" \in events' <=> FALSE
  BY ReleasesFacts DEF ClosesLater
<1>4. Written' = Written
  BY <1>1 DEF Written
<1>5. Types'
  <2>1. tasks' \in Seq(Tasks) /\ conn' \in ConnectionState
    BY <1>1, <1>2, <1>3, <1>4 DEF TaskTaken, ConnectionState
  <2>2. proto' \in {"none", "alive", "releasing", "deleted"} /\ client' \in BOOLEAN
    BY <1>3 DEF IInv, Types, Releases
  <2>3. bound' \in BOOLEAN /\ protoConn' \in BOOLEAN
    BY <1>1
  <2> QED BY <1>1, <1>3, <2>1, <2>2, <2>3 DEF IInv, Types
<1>6. TaskOrder'
  BY TaskOrderTake DEF IInv, ClosesLater, CloseConnectionTask
<1>7. IoOrder'
  BY <1>1 DEF IInv, IoOrder
<1>8. Writes'
  BY <1>1, <1>2, <1>3, <1>4 DEF IInv, Writes, TaskTaken
<1>9. Placed'
  BY <1>1, <1>2, <1>3, <1>4 DEF IInv, Placed, Returning, TaskTaken
<1>10. Used' = Used
  BY <1>1, <1>2, <1>3, <1>4 DEF IInv, Used, TaskTaken
<1>11. Counted'
  BY <1>1, <1>2, <1>3, <1>4, <1>10 DEF IInv, Counted, Appointed, TaskTaken
<1>12. Requested'
  <2>1. proto' # "alive"
    BY <1>3 DEF Releases
  <2> QED BY <1>1, <1>2, <2>1 DEF IInv, Requested, TaskTaken
<1>13. ProtocolLives'
  <2>1. proto' \in {"none", "deleted"} => refP = 0
    BY <1>3 DEF IInv, ProtocolLives, Releases
  <2>2. proto' \in {"none", "deleted"} => ~client'
    BY <1>3 DEF IInv, ProtocolLives, Releases
  <2> QED BY <1>1, <1>2, <1>3, <2>1, <2>2 DEF IInv, ProtocolLives, TaskTaken, Releases
<1>14. Released'
  BY <1>1, <1>2, <1>3, <1>4, <1>10 DEF IInv, Released, TaskTaken
<1> QED BY <1>5, <1>6, <1>7, <1>8, <1>9, <1>11, <1>12, <1>13, <1>14 DEF IInv

(* closeConnectionTask of a connection that does not write: socket closed,  *)
(* protocol released, and either onStopOperation is posted or an event tries*)
(* to release the connection again.                                         *)
LEMMA ClosesNowStep ==
  ASSUME IInv, ClosesNow
  PROVE  IInv'
<1>1. /\ conn = "REQUEST_CLOSE" /\ conn' = "CLOSED" /\ running' = "done"
      /\ protoConn' = FALSE /\ bound' = FALSE
      /\ UNCHANGED <<registered, receivedFirst, readError, writeError, refC,
         refP, buffer, autoSend, toAdd, readTimer, writeTimer, dropping>>
  BY DEF ClosesNow, CloseConnectionTask, flags, pending, ops, sock, timers, io,
     counts, owner, pool, objects, thread
<1>2. TaskTaken("close") /\ "close" \in OtherTasks
  BY TakeTaskFacts DEF IInv, CloseConnectionTask, ClosesNow, OtherTasks
<1>3. /\ Releases
      /\ "connect" \in events' <=> "connect" \in events
      /\ "releaseConnection" \notin events
      /\ events' \subseteq {"connect", "releaseConnection", "releaseProtocol"}
      /\ "releaseConnection" \in events' <=> refC > 0
  BY ReleasesFacts DEF ClosesNow
<1>4. SocketClosed(ioQueue, PostStop)
  BY PostStopFacts, CloseSocketFacts DEF IInv, Types, ClosesNow,
     CloseConnectionTask
<1>5. /\ refC \in Nat /\ (refC = 0 => Used = {})
      /\ Range(PostStop) = (IF refC > 0 THEN {} ELSE {[op |-> "stop"]})
      /\ MessagesOf(PostStop) = {} /\ Written = MessagesOf(ioQueue)
  BY PostStopFacts, WrittenIs
<1>6. /\ Written' \cup writing' = Written \cup writing
      /\ writing' # {} => writing' = writing /\ Written' = Written
  BY <1>4, <1>5 DEF SocketClosed
<1>7. /\ socket # "deleted" /\ Range(ioQueue) \cap Done({"stop"}) = {}
  BY <1>1 DEF IInv, Released
<1>8. Types'
  <2>1. tasks' \in Seq(Tasks) /\ conn' \in ConnectionState
    BY <1>1, <1>2, <1>3, <1>4, <1>5, <1>6, <1>7 DEF TaskTaken, ConnectionState
  <2>2. proto' \in {"none", "alive", "releasing", "deleted"} /\ client' \in BOOLEAN
    BY <1>3 DEF IInv, Types, Releases
  <2>3. bound' \in BOOLEAN /\ protoConn' \in BOOLEAN
    BY <1>1
  <2>4. /\ socket' \in {"open", "closed", "deleted"} /\ pendingRead' \in {0, 1}
        /\ pendingWrite' \in Int /\ reading' \in {"none", "header", "body"}
        /\ writing' \in SUBSET Messages /\ ioQueue' \in Seq(Completions)
    BY <1>4 DEF IInv, Types, SocketClosed
  <2> QED BY <1>1, <1>3, <2>1, <2>2, <2>3, <2>4 DEF IInv, Types
<1>9. TaskOrder'
  BY TaskOrderTake DEF IInv, ClosesNow, CloseConnectionTask
<1>10. IoOrder'
  <2>1. ioQueue \in Seq(Completions)
    BY DEF IInv, Types
  <2>2. writing # {} => Range(ioQueue) \cap Done({"write"}) = {}
    BY <2>1, WrittenEmpty DEF IInv, Writes
  <2> QED BY <2>1, <2>2, <1>7, PostStopFacts, IoOrderClose
         DEF IInv, IoOrder, ClosesNow, CloseConnectionTask
<1>11. Writes'
  <2>1. pendingWrite' \in {0, 1} /\ \A m, n \in writing' : m = n
    BY <1>4 DEF IInv, Writes, SocketClosed
  <2> QED BY <1>1, <1>6, <2>1 DEF IInv, Writes
<1>12. Placed'
  BY <1>1, <1>2, <1>6 DEF IInv, Placed, Returning, TaskTaken
<1>13. Used' = Used
  BY <1>1, <1>2, <1>6 DEF Used, TaskTaken
<1>14. Counted'
  BY <1>1, <1>2, <1>3, <1>13 DEF IInv, Counted, Appointed, TaskTaken
<1>15. Requested'
  <2>1. proto' # "alive"
    BY <1>3 DEF Releases
  <2> QED BY <1>1, <1>2, <2>1 DEF IInv, Requested, TaskTaken
<1>16. ProtocolLives'
  <2>1. proto' \in {"none", "deleted"} => refP = 0
    BY <1>3 DEF IInv, ProtocolLives, Releases
  <2>2. proto' \in {"none", "deleted"} => ~client'
    BY <1>3 DEF IInv, ProtocolLives, Releases
  <2> QED BY <1>1, <1>2, <1>3, <2>1, <2>2 DEF IInv, ProtocolLives, TaskTaken, Releases
<1>17. Released'
  <2>1. socket' = "closed" /\ reading' = "none" /\ writing' = {}
    BY <1>4, <1>7 DEF IInv, Types, Released, SocketClosed
  <2>2. Range(ioQueue') \subseteq Range(ioQueue) \cup FailedOps \cup Range(PostStop)
        /\ (socket = "open" => FailedOps \subseteq Done({"header", "body", "write"}))
    BY <1>4 DEF SocketClosed
  <2>3. socket # "open" => Range(ioQueue') = Range(ioQueue) \cup Range(PostStop)
    BY <1>4 DEF SocketClosed
  <2>4. refC > 0 => Range(ioQueue') \cap Done({"stop"}) = {}
    BY <1>5, <1>7, <2>2, <2>3 DEF Done
  <2>5. "releaseConnection" \notin Range(tasks')
    BY <1>1, <1>2 DEF IInv, Released, TaskTaken
  <2> QED BY <1>1, <1>3, <1>5, <1>7, <1>13, <2>1, <2>4, <2>5 DEF IInv, Released
<1> QED BY <1>8, <1>9, <1>10, <1>11, <1>12, <1>14, <1>15, <1>16, <1>17 DEF IInv

(* releaseConnection, once more: onStopOperation is posted when no message  *)
(* refers to the connection, and otherwise an event tries again.            *)
LEMMA ReleaseConnectionAgainStep ==
  ASSUME IInv, ReleaseConnectionAgain
  PROVE  IInv'
<1>1. /\ running' = "done" /\ ioQueue' = ioQueue \o PostStop
      /\ events' = events \cup (IF refC > 0 THEN {"releaseConnection"} ELSE {})
      /\ UNCHANGED <<conn, registered, socket, receivedFirst, readError,
         writeError, pendingRead, pendingWrite, refC, bound, proto, protoConn,
         refP, client, buffer, autoSend, toAdd, reading, writing, readTimer,
         writeTimer, dropping>>
  BY DEF ReleaseConnectionAgain, Takes, flags, pending, ops, sock, timers, io,
     counts, owner, pool, objects, thread, Retry
<1>2. TaskTaken("releaseConnection") /\ "releaseConnection" \in OtherTasks
  BY TakeTaskFacts DEF IInv, ReleaseConnectionAgain, OtherTasks
<1>3. /\ conn = "CLOSED" /\ socket = "closed"
      /\ Range(ioQueue) \cap Done({"stop"}) = {}
  BY <1>2 DEF IInv, Types, Released, TaskTaken
<1>4. refC \in Nat /\ (refC = 0 => Used = {})
  BY PostStopFacts
<1>5. /\ ioQueue' \in Seq(Completions) /\ Written' = Written
      /\ Range(ioQueue') = Range(ioQueue) \cup (IF refC > 0 THEN {} ELSE {[op |-> "stop"]})
      /\ IoOrder'
  <2>1. CASE refC > 0
    <3>1. ioQueue' = ioQueue
      BY <1>1, <2>1, ConcatEmptySeq DEF IInv, Types, PostStop
    <3> QED BY <2>1, <3>1 DEF IInv, Types, IoOrder, Written
  <2>2. CASE ~(refC > 0)
    <3> DEFINE stop == [op |-> "stop"]
    <3>1. stop \in Completions /\ stop.op = "stop"
      BY DEF Completions
    <3>2. ioQueue' = Append(ioQueue, stop)
      BY <1>1, <2>2, <3>1, AppendIsConcat DEF IInv, Types, PostStop
    <3>3. IoAdded(stop)
      BY <3>1, <3>2, OperationCompletes DEF IInv
    <3>4. IoOrder'
      BY <1>3, <3>1, <3>2, IoOrderAdd DEF IInv
    <3> QED BY <2>2, <3>1, <3>3, <3>4 DEF IoAdded
  <2> QED BY <2>1, <2>2
<1>6. Types'
  <2>1. ioQueue' \in Seq(Completions) /\ tasks' \in Seq(Tasks)
    BY <1>1, <1>2, <1>3, <1>4, <1>5 DEF IInv, Types, ConnectionState, TaskTaken
  <2> QED BY <1>1, <2>1 DEF IInv, Types
<1>7. TaskOrder'
  BY TaskOrderTake DEF IInv, ReleaseConnectionAgain
<1>8. IoOrder'
  BY <1>5
<1>9. Writes'
  BY <1>1, <1>2, <1>3, <1>4, <1>5 DEF IInv, Writes, TaskTaken
<1>10. Placed'
  BY <1>1, <1>2, <1>3, <1>4, <1>5 DEF IInv, Placed, Returning, TaskTaken
<1>11. Used' = Used
  BY <1>1, <1>2, <1>3, <1>4, <1>5 DEF IInv, Used, TaskTaken
<1>12. Counted'
  BY <1>1, <1>2, <1>3, <1>4, <1>5, <1>11 DEF IInv, Counted, Appointed, TaskTaken
<1>13. Requested'
  BY <1>1, <1>2, <1>3, <1>4, <1>5 DEF IInv, Requested, TaskTaken
<1>14. ProtocolLives'
  BY <1>1, <1>2, <1>3, <1>4, <1>5 DEF IInv, ProtocolLives, TaskTaken
<1>15. Released'
  BY <1>1, <1>2, <1>3, <1>4, <1>5, <1>11 DEF IInv, Released, Done, TaskTaken
<1> QED BY <1>6, <1>7, <1>8, <1>9, <1>10, <1>12, <1>13, <1>14, <1>15 DEF IInv

(* A part of the messages that wait, in their order, is a list of them.     *)
LEMMA InTurnFacts ==
  ASSUME IInv, NEW kept \in SUBSET Range(toAdd), NEW s \in InTurn(kept)
  PROVE  /\ s \in Seq(Messages)
         /\ Range(s) = kept
         /\ IsInjective(s)
<1>1. Range(toAdd) \subseteq Messages
  BY RangeOfSeq DEF IInv, Types
<1>2. IsFiniteSet(Range(toAdd))
  <2>1. Range(toAdd) \in SUBSET Used
    BY DEF Used
  <2> QED BY <2>1, FS_Subset DEF IInv, Counted
<1>3. IsFiniteSet(kept)
  BY <1>2, FS_Subset
<1>4. s \in Seq(kept) /\ Range(s) = kept /\ IsInjective(s)
  BY <1>3, SetToSeqsFacts DEF InTurn
<1>5. s \in Seq(Messages)
  BY <1>1, <1>4, SeqMonotonic
<1> QED BY <1>4, <1>5

(* sendAll moves the messages that waited to its list, or drops them: each  *)
(* keeps being in one place.                                                *)
LEMMA SendAllStep ==
  ASSUME IInv, SendAll
  PROVE  IInv'
<1>1. /\ running' = "none" /\ toAdd' = <<>>
      /\ UNCHANGED <<conn, registered, socket, receivedFirst, readError,
         writeError, pendingRead, pendingWrite, refC, bound, proto, protoConn,
         refP, client, reading, writing, readTimer, writeTimer, ioQueue,
         dropping, events>>
  BY DEF SendAll, flags, pending, ops, sock, timers, io, counts, owner, pool,
     objects, thread
<1>2. PICK dropped \in SUBSET Range(toAdd), old \in SUBSET Range(toAdd) :
        /\ dropped \cap old = {}
        /\ \E d \in InTurn(dropped), o \in InTurn(old),
           y \in InTurn(Range(toAdd) \ (dropped \cup old)) :
          /\ autoSend' = (Reverse(o) \o autoSend) \o y
          /\ buffer' = (IF buffer \in dropped THEN NoMsg ELSE buffer)
          /\ tasks' = tasks \o d
  BY DEF SendAll
<1>3. PICK d \in InTurn(dropped), o \in InTurn(old),
           y \in InTurn(Range(toAdd) \ (dropped \cup old)) :
        /\ autoSend' = (Reverse(o) \o autoSend) \o y
        /\ buffer' = (IF buffer \in dropped THEN NoMsg ELSE buffer)
        /\ tasks' = tasks \o d
  BY <1>2
<1>4. /\ d \in Seq(Messages) /\ Range(d) = dropped /\ IsInjective(d)
      /\ o \in Seq(Messages) /\ Range(o) = old /\ IsInjective(o)
      /\ y \in Seq(Messages) /\ Range(y) = Range(toAdd) \ (dropped \cup old)
      /\ IsInjective(y)
  BY InTurnFacts
<1>5. dropped \subseteq Messages /\ Messages \cap OtherTasks = {} /\ NoMsg \notin Messages
  BY <1>4, RangeOfSeq, MessageAssumption
<1>6. /\ autoSend' \in Seq(Messages) /\ IsInjective(autoSend')
      /\ Range(autoSend') = Range(autoSend) \cup (Range(toAdd) \ dropped)
  <2> DEFINE r == Reverse(o)
             s == r \o autoSend
  <2>1. autoSend \in Seq(Messages) /\ IsInjective(autoSend)
        /\ Range(autoSend) \cap Range(toAdd) = {}
    BY DEF IInv, Types, Placed
  <2>2. r \in Seq(Messages) /\ Range(r) = old /\ IsInjective(r)
    BY <1>4, ReverseFacts
  <2> HIDE DEF r
  <2>3. s \in Seq(Messages)
    BY <2>1, <2>2, ConcatProperties
  <2>4. Range(s) = old \cup Range(autoSend)
    BY <2>1, <2>2, RangeConcatenation
  <2>5. IsInjective(s)
    BY <2>1, <2>2, ConcatOnce
  <2>6. autoSend' = s \o y
    BY <1>3 DEF r
  <2> HIDE DEF s
  <2>7. autoSend' \in Seq(Messages)
    BY <1>4, <2>3, <2>6, ConcatProperties
  <2>8. Range(autoSend') = Range(s) \cup Range(y)
    BY <1>4, <2>3, <2>6, RangeConcatenation
  <2>9. Range(s) \cap Range(y) = {}
    BY <1>4, <2>1, <2>4
  <2>10. IsInjective(autoSend')
    BY <1>4, <2>3, <2>5, <2>6, <2>9, ConcatOnce
  <2> QED BY <1>2, <1>4, <2>4, <2>7, <2>8, <2>10
<1>7. /\ tasks' \in Seq(Tasks) /\ Range(tasks') = Range(tasks) \cup dropped
      /\ QueuedFree' = QueuedFree \cup dropped
  <2>1. tasks \in Seq(Tasks) /\ d \in Seq(Tasks)
    BY <1>4, SeqMonotonic DEF IInv, Types, Tasks
  <2>2. tasks' \in Seq(Tasks)
    BY <1>3, <2>1, ConcatProperties
  <2>3. Range(tasks') = Range(tasks) \cup dropped
    BY <1>3, <1>4, <2>1, RangeConcatenation
  <2> QED BY <1>5, <2>2, <2>3 DEF QueuedFree
<1>8. Range(toAdd') = {} /\ toAdd' \in Seq(Messages) /\ IsInjective(toAdd')
  BY <1>1 DEF Range, IsInjective
<1>9. /\ dropped \cap (Range(autoSend) \cup writing \cup Written \cup Returning) = {}
      /\ dropped \cap QueuedFree = {}
  BY DEF IInv, Placed, Returning
<1>10. Written' = Written
  BY <1>1 DEF Written
<1>11. Types'
  <2>1. buffer' \in Messages \cup {NoMsg}
    BY <1>3 DEF IInv, Types
  <2> QED BY <1>1, <1>6, <1>7, <1>8, <2>1 DEF IInv, Types
<1>12. TaskOrder'
  <2>1. tasks \in Seq(Tasks) /\ d \in Seq(Tasks)
    BY <1>4, SeqMonotonic DEF IInv, Types, Tasks
  <2>2. ASSUME NEW m \in Messages  PROVE  After(tasks', {m}, {m})
    <3>1. After(tasks, {m}, {m})
      BY DEF IInv, TaskOrder
    <3>2. After(d, {m}, {m})
      <4>1. DOMAIN d = 1 .. Len(d) /\ Len(d) \in Nat
        BY <1>4, LenProperties
      <4> QED BY <1>4, <4>1 DEF After, IsInjective
    <3>3. Range(tasks) \cap {m} = {} \/ Range(d) \cap {m} = {}
      BY <1>4, <1>9 DEF QueuedFree
    <3> QED BY <1>3, <2>1, <3>1, <3>2, <3>3, ConcatAfter
  <2>3. ASSUME NEW A, NEW B, B \subseteq OtherTasks, After(tasks, A, B)
        PROVE  After(tasks', A, B)
    <3>1. Range(d) \cap B = {}
      BY <1>4, <1>5, <2>3
    <3>2. After(d, A, B)
      BY <3>1 DEF After, Range
    <3> QED BY <1>3, <2>1, <2>3, <3>1, <3>2, ConcatAfter
  <2>4. /\ {"connect"} \subseteq OtherTasks /\ {"close", "login", "proto"} \subseteq OtherTasks
        /\ {"releaseProtocol"} \subseteq OtherTasks /\ {"releaseConnection"} \subseteq OtherTasks
    BY DEF OtherTasks
  <2> QED BY <2>2, <2>3, <2>4 DEF IInv, TaskOrder
<1>13. IoOrder'
  BY <1>1 DEF IInv, IoOrder
<1>14. Writes'
  BY <1>1, <1>10 DEF IInv, Writes
<1>15. Placed'
  <2>1. Returning' = Returning \cup dropped
    BY <1>1, <1>7 DEF Returning
  <2>2. dropping' \notin QueuedFree'
    BY <1>1, <1>5, <1>7, <1>9 DEF IInv, Placed, Returning
  <2> QED BY <1>1, <1>6, <1>8, <1>9, <1>10, <2>1, <2>2 DEF IInv, Placed
<1>16. Used' = Used
  BY <1>1, <1>6, <1>7, <1>8, <1>10 DEF Used
<1>17. Counted'
  <2>1. "connect" \in Range(tasks') <=> "connect" \in Range(tasks)
    BY <1>5, <1>7 DEF OtherTasks
  <2> QED BY <1>1, <1>16, <2>1 DEF IInv, Counted, Appointed
<1>18. Requested'
  <2>1. Range(tasks') \cap OtherTasks = Range(tasks) \cap OtherTasks
    BY <1>5, <1>7
  <2> QED BY <1>1, <2>1 DEF IInv, Requested, OtherTasks
<1>19. ProtocolLives'
  <2>1. Range(tasks') \cap OtherTasks = Range(tasks) \cap OtherTasks
    BY <1>5, <1>7
  <2>2. buffer' # NoMsg => buffer' \in Range(autoSend')
    BY <1>3, <1>6 DEF IInv, ProtocolLives
  <2> QED BY <1>1, <2>1, <2>2 DEF IInv, ProtocolLives, OtherTasks
<1>20. Released'
  <2>1. Range(tasks') \cap OtherTasks = Range(tasks) \cap OtherTasks
    BY <1>5, <1>7
  <2> QED BY <1>1, <1>16, <2>1 DEF IInv, Released, OtherTasks
<1> QED BY <1>11, <1>12, <1>13, <1>14, <1>15, <1>17, <1>18, <1>19, <1>20 DEF IInv

-----------------------------------------------------------------------------
(* The invariant holds, and what it says of a connection.                   *)

(* acceptConnection, with a protocol (a service that talks first) or        *)
(* without.                                                                 *)
LEMMA InitIInv == Init => IInv
<1> SUFFICES ASSUME Init  PROVE  IInv
  OBVIOUS
<1>1. /\ conn = "OPEN" /\ socket = "open" /\ pendingRead = 1 /\ pendingWrite = 0
      /\ refC = 0 /\ refP = 0 /\ buffer = NoMsg /\ autoSend = <<>> /\ toAdd = <<>>
      /\ reading = "header" /\ writing = {} /\ ioQueue = <<>> /\ dropping = NoMsg
      /\ running = "none" /\ events = {}
  BY DEF Init
<1>2. /\ registered = TRUE /\ receivedFirst = FALSE /\ readError = FALSE
      /\ writeError = FALSE /\ client = FALSE /\ readTimer = TRUE /\ writeTimer = FALSE
      /\ bound \in BOOLEAN /\ protoConn = bound
  BY DEF Init
<1>3. /\ proto = (IF bound THEN "alive" ELSE "none")
      /\ tasks = (IF bound THEN <<"proto">> ELSE <<>>)
  BY DEF Init
<1>4. /\ tasks \in Seq(Tasks) /\ Range(tasks) = (IF bound THEN {"proto"} ELSE {})
      /\ TaskOrder
  <2>1. "proto" \in Tasks
    BY DEF Tasks, OtherTasks
  <2>2. CASE bound
    <3>1. tasks = <<"proto">>
      BY <1>3, <2>2
    <3>2. tasks \in Seq(Tasks) /\ Range(tasks) = {"proto"}
      BY <2>1, <3>1, SingleFacts
    <3>3. DOMAIN tasks = {1}
      BY <3>1
    <3> QED BY <2>2, <3>2, <3>3 DEF TaskOrder, After
  <2>3. CASE ~bound
    <3>1. tasks = <<>>
      BY <1>3, <2>3
    <3> QED BY <2>3, <3>1 DEF TaskOrder, After, Range
  <2> QED BY <2>2, <2>3
<1>5. Range(ioQueue) = {} /\ Range(autoSend) = {} /\ Range(toAdd) = {} /\ Written = {}
  BY <1>1 DEF Range, Written
<1>6. QueuedFree = {}
  BY <1>4, MessageAssumption DEF QueuedFree, OtherTasks
<1>7. Used = {}
  BY <1>1, <1>5, <1>6, MessageAssumption DEF Used
<1>8. Types
  <2>1. /\ autoSend \in Seq(Messages) /\ toAdd \in Seq(Messages)
        /\ ioQueue \in Seq(Completions) /\ writing \in SUBSET Messages
    BY <1>1
  <2>2. proto \in {"none", "alive", "releasing", "deleted"}
    BY <1>3
  <2>3. /\ registered \in BOOLEAN /\ receivedFirst \in BOOLEAN /\ readError \in BOOLEAN
        /\ writeError \in BOOLEAN /\ bound \in BOOLEAN /\ protoConn \in BOOLEAN
        /\ client \in BOOLEAN /\ readTimer \in BOOLEAN /\ writeTimer \in BOOLEAN
    BY <1>2
  <2> QED BY <1>1, <1>4, <2>1, <2>2, <2>3 DEF Types, ConnectionState
<1>9. IoOrder
  BY <1>1 DEF IoOrder, After
<1>10. Writes
  BY <1>1, <1>5 DEF Writes
<1>11. Placed
  BY <1>1, <1>5, <1>6, MessageAssumption DEF Placed, Returning, IsInjective
<1>12. Counted
  BY <1>1, <1>4, <1>7, FS_EmptySet DEF Counted, Appointed
<1>13. Requested
  BY <1>1, <1>2, <1>3, <1>4 DEF Requested
<1>14. ProtocolLives
  BY <1>1, <1>2, <1>3, <1>4 DEF ProtocolLives
<1>15. Released
  BY <1>1, <1>2, <1>4, <1>5 DEF Released
<1> QED BY <1>4, <1>8, <1>9, <1>10, <1>11, <1>12, <1>13, <1>14, <1>15 DEF IInv

(* Where nothing changes the invariant holds as before.                     *)
LEMMA StutterIInv ==
  ASSUME IInv, UNCHANGED vars
  PROVE  IInv'
<1>1. UNCHANGED <<conn, registered, socket, receivedFirst, readError, writeError, pendingRead, pendingWrite, refC, bound, proto, protoConn, refP, client, buffer, autoSend, toAdd, reading, writing, readTimer, writeTimer, ioQueue, dropping, tasks, running, events>>
  BY DEF vars, flags, pending, ops, sock, timers, io, counts, owner, pool,
     objects, thread
<1>2. Written' = Written /\ QueuedFree' = QueuedFree
  BY <1>1 DEF Written, QueuedFree
<1>3. Used' = Used
  BY <1>1, <1>2 DEF Used
<1>4. Types' /\ TaskOrder' /\ IoOrder'
  BY <1>1 DEF IInv, Types, TaskOrder, IoOrder
<1>5. Writes' /\ Placed'
  BY <1>1, <1>2 DEF IInv, Writes, Placed, Returning
<1>6. Counted' /\ Requested' /\ ProtocolLives' /\ Released'
  BY <1>1, <1>3 DEF IInv, Counted, Appointed, Requested, ProtocolLives, Released
<1> QED BY <1>4, <1>5, <1>6 DEF IInv

(* Every step of either thread, of the network and of the clock.            *)
LEMMA NextIInv == IInv /\ [Next]_vars => IInv'
<1> SUFFICES ASSUME IInv, [Next]_vars  PROVE  IInv'
  OBVIOUS
<1>1. CASE IoSteps
  <2>1. CASE HandleReadTimeout \/ HandleWriteTimeout
    <3>1. PICK timer \in {"readTimer", "writeTimer"} :
               TimeoutCloses(timer) \/ TimeoutIgnored(timer)
      BY <2>1 DEF HandleReadTimeout, HandleWriteTimeout, OnTimeout, TimeoutCloses,
                  TimeoutIgnored
    <3> QED BY <3>1, TimeoutClosesStep, TimeoutIgnoredStep
  <2>2. CASE OnWriteOperation
    BY <2>2, WriteFailsStep, WriteDoneStep DEF WriteFails, WriteDone
  <2> QED BY <1>1, <2>1, <2>2, AbandonReadStep, ParseHeaderStep, NoProtocolStep, FirstPacketStep,
             NextPacketStep, DropMessageStep, OnStopOperationStep DEF IoSteps
<1>2. CASE TakeTask
  <2>1. CASE CloseConnectionTask
    BY <2>1, ClosesNowStep, ClosesLaterStep DEF ClosesNow, ClosesLater
  <2> QED BY <1>2, <2>1, StartTaskStep, ConnectStep, ReleaseConnectionAgainStep,
             ReleaseProtocolAgainStep, InternalReleaseMessageStep DEF TakeTask
<1>3. CASE Body
  BY <1>3, GetOutputBufferStep, SendAtOnceStep, DisconnectStep, NewPlayerStep,
     ConnectLaterStep DEF Body
<1>4. CASE Environment
  BY <1>4, ReadCompletesStep, WriteCompletesStep, ReadTimerExpiresStep,
     WriteTimerExpiresStep,
     EventFiresStep DEF Environment
<1>5. CASE StartGameTask \/ SendAll \/ SendNext \/ UNCHANGED vars
  BY <1>5, StartGameTaskStep, SendAllStep, SendNextStep, StutterIInv
<1> QED BY <1>1, <1>2, <1>3, <1>4, <1>5 DEF Next

(* The invariant above holds in every state: the counters, queues and flags *)
(* of connection.cpp, protocol.cpp and outputmessage.cpp fit together.       *)
THEOREM InvariantHolds == Spec => []IInv
  BY InitIInv, NextIInv, PTL DEF Spec

(* Messages are in one place and are counted (Protocol::m_refCount and      *)
(* Connection::m_refCount), and closeConnectionTask finds REQUEST_CLOSE.     *)
THEOREM ConsistentHolds == Spec => []Consistent
<1>1. IInv => TypeOK
  <2> SUFFICES ASSUME IInv  PROVE  TypeOK
    OBVIOUS
  <2>1. refC \in Nat /\ refP \in Nat
    BY PostStopFacts
  <2>2. {pendingRead, pendingWrite} \subseteq {0, 1} /\ {refC, refP} \subseteq Nat
    BY <2>1 DEF IInv, Types, Writes
  <2>3. {registered, receivedFirst, readError, writeError, bound, protoConn, client,
         readTimer, writeTimer} \subseteq BOOLEAN
    BY DEF IInv, Types
  <2>4. {buffer, dropping} \subseteq Messages \cup {NoMsg}
        /\ {autoSend, toAdd} \subseteq Seq(Messages)
    BY DEF IInv, Types
  <2> QED BY <2>2, <2>3, <2>4 DEF IInv, Types, TypeOK
<1>2. IInv => MessagesOK
  <2> SUFFICES ASSUME IInv  PROVE  MessagesOK
    OBVIOUS
  <2>1. ASSUME NEW m \in Messages
        PROVE  Cardinality({i \in DOMAIN tasks : tasks[i] = m}) <= 1
    BY OnceCardinality DEF IInv, Types, TaskOrder
  <2> QED BY <2>1 DEF IInv, Placed, Returning, Counted, MessagesOK
<1>3. IInv => CloseRequested
  <2> SUFFICES ASSUME IInv  PROVE  CloseRequested
    OBVIOUS
  <2>1. After(tasks, {"close"}, {"close"})
    BY DEF IInv, TaskOrder, After
  <2>2. Cardinality({i \in DOMAIN tasks : tasks[i] = "close"}) = 1 <=> "close" \in Range(tasks)
    BY <2>1, OnceCardinality DEF IInv, Types
  <2> QED BY <2>2 DEF IInv, Requested, CloseRequested
<1> QED BY <1>1, <1>2, <1>3, InvariantHolds, PTL DEF Consistent

(* One async_write is under way on a socket (Connection::send), and         *)
(* m_pendingWrite says so as long as the connection is open.                *)
THEOREM OneWriteHolds == Spec => []OneWrite
<1>1. IInv => OneWrite
  <2> SUFFICES ASSUME IInv  PROVE  OneWrite
    OBVIOUS
  <2> DEFINE W == writing \cup Written
  <2>1. \A m, n \in W : m = n
    <3>1. \A m, n \in Written : m = n
      <4>1. DOMAIN ioQueue = 1 .. Len(ioQueue) /\ Len(ioQueue) \in Nat
            /\ \A i \in DOMAIN ioQueue : ioQueue[i] \in Completions
        BY LenProperties, ElementOfSeq DEF IInv, Types
      <4>2. ASSUME NEW i \in DOMAIN ioQueue, NEW j \in DOMAIN ioQueue,
                   ioQueue[i].op = "write", ioQueue[j].op = "write"
            PROVE  i = j
        <5>1. ioQueue[i] \in Done({"write"}) /\ ioQueue[j] \in Done({"write"})
          BY <4>1, <4>2 DEF Done
        <5>2. ~(i < j) /\ ~(j < i)
          BY <5>1 DEF IInv, IoOrder, After
        <5> QED BY <4>1, <5>2
      <4> QED BY <4>2 DEF Written
    <3> QED BY <3>1 DEF IInv, Writes
  <2>2. ASSUME NEW m \in W  PROVE  Cardinality(W) = 1
    <3>1. W = {m}
      BY <2>1
    <3> HIDE DEF W
    <3> QED BY <3>1, FS_Singleton
  <2> HIDE DEF W
  <2>3. W = {} => Cardinality(W) = 0
    BY FS_EmptySet
  <2>4. Cardinality(W) \in {0, 1} /\ (Cardinality(W) = 0 <=> W = {})
    BY <2>2, <2>3
  <2>5. conn = "OPEN" => pendingWrite = Cardinality(W)
    BY <2>4 DEF IInv, Writes, W
  <2> QED BY <2>4, <2>5 DEF OneWrite, W
<1> QED BY <1>1, InvariantHolds, PTL

(* m_outputBuffer of a protocol still waits in a list of the pool           *)
(* (onSendMessage resets it when the message is sent or dropped).           *)
THEOREM BufferWaitsHolds == Spec => []BufferWaits
<1>1. IInv => BufferWaits
  BY DEF IInv, ProtocolLives, BufferWaits
<1> QED BY <1>1, InvariantHolds, PTL

(* login and the other tasks that the io thread binds to the protocol find  *)
(* it connected: they are before closeConnectionTask in the queue.          *)
THEOREM TasksFindProtocolHolds == Spec => []TasksFindProtocol
<1>1. IInv => TasksFindProtocol
  BY DEF IInv, Requested, TasksFindProtocol
<1> QED BY <1>1, InvariantHolds, PTL

(* deleteProtocolTask: nothing refers to a protocol that is deleted.        *)
THEOREM ProtocolUnreferencedHolds == Spec => []ProtocolUnreferenced
<1>1. IInv => ProtocolUnreferenced
  <2> SUFFICES ASSUME IInv, proto \in {"none", "deleted"}
               PROVE  /\ refP = 0 /\ Used = {} /\ ~client /\ buffer = NoMsg
                      /\ UsesProtocol => running = "none"
                      /\ "releaseProtocol" \notin events \cup Range(tasks)
    BY DEF ProtocolUnreferenced
  <2>1. refP = 0 /\ ~client /\ running # "connect"
        /\ "releaseProtocol" \notin events \cup Range(tasks)
    BY DEF IInv, ProtocolLives
  <2>2. Cardinality(Used) \in Nat
    BY FS_CardinalityType DEF IInv, Counted
  <2>3. Cardinality(Used) = 0
    BY <2>1, <2>2 DEF IInv, Counted
  <2>4. Used = {}
    BY <2>3, FS_EmptySet DEF IInv, Counted
  <2>5. buffer = NoMsg
    BY <2>4 DEF IInv, ProtocolLives, Used
  <2>6. running \notin {"login", "proto"}
    BY DEF IInv, Requested
  <2> QED BY <2>1, <2>4, <2>5, <2>6 DEF UsesProtocol
<1> QED BY <1>1, InvariantHolds, PTL

(* onStopOperation deletes m_socket after the last handler that needs it.   *)
THEOREM SocketNotNullHolds == Spec => []SocketNotNull
<1>1. IInv => SocketNotNull
  <2> SUFFICES ASSUME IInv, socket = "deleted"
               PROVE  /\ \A i \in DOMAIN ioQueue : ~NeedsSocket(ioQueue[i])
                      /\ ~CanSend /\ conn # "REQUEST_CLOSE" /\ ~protoConn
    BY DEF SocketNotNull
  <2>1. conn = "CLOSED" /\ Used = {} /\ ~registered /\ reading = "none"
        /\ Range(ioQueue) \cap Done({"header", "body", "write", "stop"}) = {}
    BY DEF IInv, Types, Released
  <2>2. ~protoConn
    BY <2>1 DEF IInv, Types, Requested
  <2>3. ASSUME NEW i \in DOMAIN ioQueue
        PROVE  /\ ioQueue[i] \in Completions
               /\ ioQueue[i].op \notin {"header", "body", "write", "stop"}
    <3>1. ioQueue[i] \in Completions /\ ioQueue[i] \in Range(ioQueue)
      BY ElementOfSeq, LenProperties DEF IInv, Types, Range
    <3> QED BY <2>1, <3>1 DEF Done
  <2>4. ~ConnectionExists
    BY <2>1, <2>2, <2>3 DEF ConnectionExists
  <2>5. ASSUME NEW i \in DOMAIN ioQueue  PROVE  ~NeedsSocket(ioQueue[i])
    <3>1. ioQueue[i].op \in {"readTimer", "writeTimer"}
      BY <2>3 DEF Completions
    <3> QED BY <2>4, <3>1 DEF NeedsSocket
  <2> QED BY <2>1, <2>2, <2>5 DEF CanSend
<1> QED BY <1>1, InvariantHolds, PTL

(* The tasks and the operation that are bound to a raw Connection pointer   *)
(* (closeConnectionTask, releaseConnection, onStopOperation) have an object. *)
THEOREM ConnectionOutlivesHolds == Spec => []ConnectionOutlives
<1>1. IInv => ConnectionOutlives
  <2> SUFFICES ASSUME IInv, ~registered
               PROVE  /\ "close" \notin Range(tasks)
                      /\ "releaseConnection" \notin events \cup Range(tasks)
                      /\ \A i \in DOMAIN ioQueue : ioQueue[i].op # "stop"
    BY DEF ConnectionOutlives
  <2>1. socket = "deleted"
    BY DEF IInv, Types, Released
  <2>2. conn = "CLOSED" /\ "releaseConnection" \notin events \cup Range(tasks)
        /\ Range(ioQueue) \cap Done({"header", "body", "write", "stop"}) = {}
    BY <2>1 DEF IInv, Released
  <2>3. "close" \notin Range(tasks)
    BY <2>2 DEF IInv, Requested
  <2>4. ASSUME NEW i \in DOMAIN ioQueue  PROVE  ioQueue[i].op # "stop"
    <3>1. ioQueue[i] \in Completions /\ ioQueue[i] \in Range(ioQueue)
      BY ElementOfSeq, LenProperties DEF IInv, Types, Range
    <3> QED BY <2>2, <3>1 DEF Done
  <2> QED BY <2>2, <2>3, <2>4
<1> QED BY <1>1, InvariantHolds, PTL

=============================================================================
