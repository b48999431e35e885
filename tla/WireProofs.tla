----------------------------- MODULE WireProofs -----------------------------
(***************************************************************************)
(* What TLAPS proves of Wire, for any number of connections and calls, any *)
(* commands, dimensions and clients: the shapes of all variables, and that *)
(* client and server agree on frames and answers until one of the causes   *)
(* of Spoilt is there.                                                     *)
(*                                                                         *)
(* The invariant behind it (StreamInv) says, of a connection that nothing  *)
(* has spoilt, where its two ends stand.  At most one call on it has no    *)
(* answer; what is in the stream to the server is the part of that call's  *)
(* frame from the place on that the thread has reached, and what is in the *)
(* stream to the client is nothing, or the whole answer to that call.      *)
(***************************************************************************)
EXTENDS Wire, SequenceTheorems, TLAPS

Phases == {"none", "header", "name", "payload", "execute", "answer", "astray", "gone"}
Handling == {"name", "payload", "execute", "answer"}
Parts == {"header", "name", "dim", "capacity", "hnsw", "vector", "answer"}
Byte == (1..MaxCalls) \X Parts \X Nat
End == [kind: Kinds \cup {"none"}, dim: Dims \cup {0}, closed: BOOLEAN, link: {"up", "down"}]

Shapes ==
    /\ calls \in Seq(Call)
    /\ current \in Conns \cup {0}
    /\ ends \in [Conns -> End]
    /\ toServer \in [Conns -> Seq(Byte)]
    /\ toClient \in [Conns -> Seq(Byte)]
    /\ phase \in [Conns -> Phases]
    /\ want \in [Conns -> Wants]
    /\ handling \in [Conns -> 0..MaxCalls]
    /\ active \in [Conns -> Dims \cup {0}]
    /\ differs \in [Conns -> BOOLEAN]
    /\ executed \in [Conns -> Seq(1..MaxCalls)]
    /\ db \in Dims \cup {0}

(* Only the last call may be waiting; the connection in use has a thread.  *)
CallsInv ==
    /\ Len(calls) <= MaxCalls
    /\ \A n \in DOMAIN calls:
         /\ Waiting(n) => n = Len(calls)
         /\ calls[n].name = "none" <=> calls[n].cmd \notin Selections
    /\ current # 0 => phase[current] # "none"

Untouched(c) ==
    /\ CallsOn(c) = {}
    /\ toServer[c] = <<>> /\ toClient[c] = <<>> /\ executed[c] = <<>>
    /\ active[c] = 0 /\ ~differs[c]

(* The thread of a connection handles a call made on it.                   *)
ThreadAt(c) ==
    /\ \A i \in 1..Len(toServer[c]): toServer[c][i][1] \in CallsOn(c)
    /\ phase[c] \in Handling => handling[c] \in CallsOn(c)
    /\ phase[c] = "name" => (Command(c) \in Selections /\ calls[handling[c]].name # "long")
    /\ (phase[c] \in {"payload", "execute"} /\ Command(c) \notin Selections) => active[c] # 0
    /\ phase[c] = "header" => want[c] = HeaderBytes
    /\ phase[c] = "none" => Untouched(c)
    /\ phase[c] # "none" => (ends[c].dim \in Dims /\ ends[c].kind \in Kinds)
    /\ ~differs[c] => active[c] \in {0, ends[c].dim}

ThreadInv == \A c \in Conns: ThreadAt(c)

FrameOf(c, n) == Frame(n, calls[n].cmd, calls[n].name, c)

(* The bytes s are those of t from the place after k on, not necessarily   *)
(* up to its end.                                                          *)
Reads(s, t, k) == Len(s) + k <= Len(t) /\ \A i \in 1..Len(s): s[i] = t[i + k]

AnswerTo(n) == Bytes(n, "answer", ReplyBytes(calls[n].cmd))
Before(n) == HeaderBytes + (IF calls[n].cmd \in Selections THEN NameLength("good") ELSE 0)

Answered(n) == calls[n].outcome = "answered"

(* Where the two ends are when call n on c has no answer.                  *)
Position(c, n) ==
    /\ phase[c] \in Handling \cup {"header", "gone"}
    /\ phase[c] \in Handling => handling[c] = n
    /\ ~Executed(c, n) => toClient[c] = <<>>
    /\ phase[c] = "header" => IF Executed(c, n) THEN toServer[c] = <<>>
                              ELSE Reads(toServer[c], FrameOf(c, n), 0)
    /\ phase[c] = "name" => /\ ~Executed(c, n)
                            /\ Reads(toServer[c], FrameOf(c, n), HeaderBytes)
                            /\ want[c] = NameLength("good")
    /\ phase[c] = "payload" => /\ ~Executed(c, n)
                               /\ Reads(toServer[c], FrameOf(c, n), Before(n))
                               /\ want[c] = Len(FrameOf(c, n)) - Before(n)
    /\ phase[c] = "execute" => ~Executed(c, n) /\ toServer[c] = <<>>
    /\ phase[c] = "answer" => Executed(c, n) /\ toServer[c] = <<>> /\ toClient[c] = <<>>
    /\ Waiting(n) => toClient[c] \in {<<>>, AnswerTo(n)}

(* And when every call has its answer.                                     *)
Quiet(c) ==
    /\ toClient[c] = <<>>
    /\ phase[c] \in {"none", "header", "gone"}
    /\ phase[c] = "header" => toServer[c] = <<>>

StreamAt(c) == ~Spoilt(c) =>
    /\ phase[c] # "astray"
    /\ InOrder(c)
    /\ \A n \in CallsOn(c): Answered(n) => (calls[n].got = {n} /\ Executed(c, n))
    /\ (\A n \in CallsOn(c): Answered(n)) => Quiet(c)
    /\ \A n \in CallsOn(c): ~Answered(n) => Position(c, n)

StreamInv == \A c \in Conns: StreamAt(c)

IndInv == Shapes /\ CallsInv /\ ThreadInv /\ StreamInv

-----------------------------------------------------------------------------
(* Sequences.                                                              *)

LEMMA AfterProps ==
    ASSUME NEW S, NEW s \in Seq(S), NEW k \in 0..Len(s)
    PROVE  /\ After(s, k) \in Seq(S)
           /\ Len(After(s, k)) = Len(s) - k
           /\ \A i \in 1..(Len(s) - k): After(s, k)[i] = s[i + k]
<1>1. \A i \in (k + 1)..Len(s): s[i] \in S
  BY LenProperties, ElementOfSeq
<1>2. k + 1 \in Int /\ Len(s) \in Int
  BY LenProperties
<1>3. /\ SubSeq(s, k + 1, Len(s)) \in Seq(S)
      /\ Len(SubSeq(s, k + 1, Len(s))) = IF k + 1 <= Len(s) THEN Len(s) - (k + 1) + 1 ELSE 0
      /\ \A i \in 1..(Len(s) - (k + 1) + 1): SubSeq(s, k + 1, Len(s))[i] = s[(k + 1) + i - 1]
  BY <1>1, <1>2, SubSeqProperties
<1> QED  BY <1>2, <1>3 DEF After

LEMMA AfterAll ==
    ASSUME NEW S, NEW s \in Seq(S)
    PROVE  After(s, Len(s)) = <<>>
  BY AfterProps, LenProperties, EmptySeq

LEMMA FirstProps ==
    ASSUME NEW S, NEW s \in Seq(S), NEW k \in 0..Len(s)
    PROVE  /\ First(s, k) \in Seq(S)
           /\ Len(First(s, k)) = k
           /\ \A i \in 1..k: First(s, k)[i] = s[i]
<1>1. \A i \in 1..k: s[i] \in S
  BY LenProperties, ElementOfSeq
<1>2. k \in Int /\ Len(s) \in Int
  BY LenProperties
<1>3. /\ SubSeq(s, 1, k) \in Seq(S)
      /\ Len(SubSeq(s, 1, k)) = IF 1 <= k THEN k - 1 + 1 ELSE 0
      /\ \A i \in 1..(k - 1 + 1): SubSeq(s, 1, k)[i] = s[1 + i - 1]
  BY <1>1, <1>2, SubSeqProperties
<1> QED  BY <1>2, <1>3 DEF First

LEMMA BytesProps ==
    ASSUME NEW n \in 1..MaxCalls, NEW part \in Parts, NEW size \in Nat
    PROVE  /\ Bytes(n, part, size) \in Seq(Byte)
           /\ Len(Bytes(n, part, size)) = size
           /\ \A i \in 1..size: Bytes(n, part, size)[i] = <<n, part, i>>
  BY DEF Bytes, Byte

(* Bytes read in their place are taken for what they are.                  *)
LEMMA ReadsFirst ==
    ASSUME NEW s \in Seq(Byte), NEW t \in Seq(Byte), NEW k \in Nat, Reads(s, t, k),
           NEW w \in 0..Len(s)
    PROVE  IsPrefix(First(s, w), After(t, k))
<1>1. /\ First(s, w) \in Seq(Byte) /\ Len(First(s, w)) = w
      /\ \A i \in 1..w: First(s, w)[i] = s[i]
  BY FirstProps
<1>2. k \in 0..Len(t) /\ Len(s) + k <= Len(t) /\ Len(s) \in Nat /\ Len(t) \in Nat
  BY LenProperties DEF Reads
<1>3. /\ After(t, k) \in Seq(Byte) /\ Len(After(t, k)) = Len(t) - k
      /\ \A i \in 1..(Len(t) - k): After(t, k)[i] = t[i + k]
  BY <1>2, AfterProps
<1>4. w \in 0..Len(After(t, k)) /\ w \in 0..Len(First(s, w))
  BY <1>1, <1>2, <1>3
<1>5. /\ First(After(t, k), w) \in Seq(Byte) /\ Len(First(After(t, k), w)) = w
      /\ \A i \in 1..w: First(After(t, k), w)[i] = After(t, k)[i]
  BY <1>3, <1>4, FirstProps
<1>6. /\ First(First(s, w), w) \in Seq(Byte) /\ Len(First(First(s, w), w)) = w
      /\ \A i \in 1..w: First(First(s, w), w)[i] = First(s, w)[i]
  BY <1>1, <1>4, FirstProps
<1>7. \A i \in 1..w: First(First(s, w), w)[i] = First(After(t, k), w)[i]
  <2> SUFFICES ASSUME NEW i \in 1..w PROVE First(First(s, w), w)[i] = First(After(t, k), w)[i]
    OBVIOUS
  <2>1. i \in 1..Len(s) /\ i \in 1..(Len(t) - k)
    BY <1>2
  <2>2. s[i] = t[i + k]
    BY <2>1 DEF Reads
  <2> QED  BY <1>1, <1>3, <1>5, <1>6, <2>1, <2>2
<1>8. First(First(s, w), w) = First(After(t, k), w)
  BY <1>5, <1>6, <1>7, SeqEqual
<1> QED  BY <1>1, <1>3, <1>4, <1>8 DEF IsPrefix, First

LEMMA ReadsAfter ==
    ASSUME NEW s \in Seq(Byte), NEW t \in Seq(Byte), NEW k \in Nat, Reads(s, t, k),
           NEW w \in 0..Len(s)
    PROVE  Reads(After(s, w), t, k + w)
<1>1. /\ After(s, w) \in Seq(Byte) /\ Len(After(s, w)) = Len(s) - w
      /\ \A i \in 1..(Len(s) - w): After(s, w)[i] = s[i + w]
  BY AfterProps
<1>2. Len(s) + k <= Len(t) /\ Len(s) \in Nat /\ Len(t) \in Nat
  BY LenProperties DEF Reads
<1>3. \A i \in 1..(Len(s) - w): s[i + w] = t[(i + w) + k]
  <2> SUFFICES ASSUME NEW i \in 1..(Len(s) - w) PROVE s[i + w] = t[(i + w) + k]
    OBVIOUS
  <2>1. i + w \in 1..Len(s)
    BY <1>2
  <2> QED  BY <2>1 DEF Reads
<1>4. \A i \in 1..(Len(s) - w): (i + w) + k = i + (k + w)
  BY <1>2
<1> QED  BY <1>1, <1>2, <1>3, <1>4 DEF Reads

LEMMA ReadsNothing ==
    ASSUME NEW t \in Seq(Byte), NEW k \in Nat, k <= Len(t)
    PROVE  Reads(<<>>, t, k)
  BY LenProperties DEF Reads

LEMMA ReadsWhole ==
    ASSUME NEW t \in Seq(Byte)
    PROVE  /\ Reads(t, t, 0)
           /\ \A k \in 0..Len(t): Reads(First(t, k), t, 0)
<1>1. Len(t) \in Nat
  BY LenProperties
<1>2. Reads(t, t, 0)
  BY <1>1 DEF Reads
<1>3. ASSUME NEW k \in 0..Len(t) PROVE Reads(First(t, k), t, 0)
  BY <1>1, FirstProps DEF Reads
<1> QED  BY <1>2, <1>3

-----------------------------------------------------------------------------
(* Frames.                                                                 *)

BytesOf(n) == {n} \X Parts \X Nat

LEMMA WireConstants ==
    /\ MaxConnections \in Nat /\ MaxCalls \in Nat
    /\ Dims \cup {0} \subseteq Nat /\ 0 \notin Dims
    /\ Names \subseteq {"good", "bad", "long"}
    /\ Kinds \subseteq {"reference", "sdk"}
    /\ Cuts \subseteq Nat
  BY WireAssumption DEF WireAssumption

LEMMA BytesAreOfCall ==
    ASSUME NEW n \in 1..MaxCalls, NEW part \in Parts, NEW size \in Nat
    PROVE  /\ Bytes(n, part, size) \in Seq(BytesOf(n))
           /\ Len(Bytes(n, part, size)) = size
  BY DEF Bytes, BytesOf

LEMMA NameLengthProps ==
    ASSUME NEW name
    PROVE  NameLength(name) \in Nat /\ (name # "long" => NameLength(name) = 1)
  BY WireAssumption DEF WireAssumption, NameLength

LEMMA HandshakeProps ==
    ASSUME NEW n \in 1..MaxCalls, NEW k, NEW name, NEW kind
    PROVE  /\ Handshake(n, k, name, kind) \in Seq(BytesOf(n))
           /\ Len(Handshake(n, k, name, kind)) =
                NameLength(name) + 4 + (IF kind = "sdk" THEN 0 ELSE 4)
                  + (IF k = "CREATE_HNSW_DB" THEN 3 ELSE 0)
<1> DEFINE A == Bytes(n, "name", NameLength(name))
           B == Bytes(n, "dim", 4)
           C == Bytes(n, "capacity", IF kind = "sdk" THEN 0 ELSE 4)
           D == Bytes(n, "hnsw", IF k = "CREATE_HNSW_DB" THEN 3 ELSE 0)
           S == Seq(BytesOf(n))
<1>1. NameLength(name) \in Nat
  BY NameLengthProps
<1>2. A \in S /\ Len(A) = NameLength(name)
  BY <1>1, BytesAreOfCall DEF Parts
<1>3. B \in S /\ Len(B) = 4
  BY BytesAreOfCall DEF Parts
<1>4. C \in S /\ Len(C) = IF kind = "sdk" THEN 0 ELSE 4
  <2>1. (IF kind = "sdk" THEN 0 ELSE 4) \in Nat
    OBVIOUS
  <2> QED  BY <2>1, BytesAreOfCall DEF Parts
<1>5. D \in S /\ Len(D) = IF k = "CREATE_HNSW_DB" THEN 3 ELSE 0
  <2>1. (IF k = "CREATE_HNSW_DB" THEN 3 ELSE 0) \in Nat
    OBVIOUS
  <2> QED  BY <2>1, BytesAreOfCall DEF Parts
<1>6. Handshake(n, k, name, kind) = A \o B \o C \o D
  BY DEF Handshake
<1> HIDE DEF A, B, C, D
<1>7. A \o B \in S /\ Len(A \o B) = Len(A) + Len(B)
  BY <1>2, <1>3, ConcatProperties
<1>8. A \o B \o C \in S /\ Len(A \o B \o C) = Len(A \o B) + Len(C)
  BY <1>4, <1>7, ConcatProperties
<1>9. A \o B \o C \o D \in S /\ Len(A \o B \o C \o D) = Len(A \o B \o C) + Len(D)
  BY <1>5, <1>8, ConcatProperties
<1> QED  BY <1>1, <1>2, <1>3, <1>4, <1>5, <1>6, <1>7, <1>8, <1>9

(* How long the frame of a command is, of a client of this kind and        *)
(* dimension.                                                              *)
Rest(k, name, end) ==
    IF k \in Selections
    THEN NameLength(name) + 4 + (IF end.kind = "sdk" THEN 0 ELSE 4)
           + (IF k = "CREATE_HNSW_DB" THEN 3 ELSE 0)
    ELSE IF k \in WithVector THEN FloatBytes * end.dim ELSE 0

LEMMA FrameProps ==
    ASSUME NEW n \in 1..MaxCalls, NEW k, NEW name, NEW c \in Conns, ends[c].dim \in Nat
    PROVE  /\ Frame(n, k, name, c) \in Seq(BytesOf(n))
           /\ Len(Frame(n, k, name, c)) = HeaderBytes + Rest(k, name, ends[c])
           /\ Rest(k, name, ends[c]) \in Nat
<1> DEFINE H == Bytes(n, "header", HeaderBytes)
           S == Seq(BytesOf(n))
<1>1. H \in S /\ Len(H) = HeaderBytes
  BY BytesAreOfCall DEF Parts, HeaderBytes
<1>2. ASSUME NEW R \in S PROVE H \o R \in S /\ Len(H \o R) = HeaderBytes + Len(R)
  <2> HIDE DEF H
  <2> QED  BY <1>1, ConcatProperties
<1>3. NameLength(name) \in Nat
  BY NameLengthProps
<1>4. CASE k \in Selections
  <2> DEFINE R == Handshake(n, k, name, ends[c].kind)
  <2>1. Frame(n, k, name, c) = H \o R
    BY <1>4 DEF Frame, Selections, WithVector
  <2>2. R \in S /\ Len(R) = Rest(k, name, ends[c])
    BY <1>4, HandshakeProps DEF Rest
  <2>3. Rest(k, name, ends[c]) \in Nat
    BY <1>3, <1>4 DEF Rest
  <2> HIDE DEF H, R
  <2> QED  BY <1>2, <2>1, <2>2, <2>3
<1>5. CASE k \notin Selections /\ k \in WithVector
  <2> DEFINE R == Bytes(n, "vector", FloatBytes * ends[c].dim)
  <2>1. Frame(n, k, name, c) = H \o R
    BY <1>5 DEF Frame
  <2>2. FloatBytes * ends[c].dim \in Nat
    BY DEF FloatBytes
  <2>3. R \in S /\ Len(R) = Rest(k, name, ends[c])
    BY <1>5, <2>2, BytesAreOfCall DEF Rest, Parts
  <2>4. Rest(k, name, ends[c]) \in Nat
    BY <1>5, <2>2 DEF Rest
  <2> HIDE DEF H, R
  <2> QED  BY <1>2, <2>1, <2>3, <2>4
<1>6. CASE k \notin Selections /\ k \notin WithVector
  <2> DEFINE R == <<>>
  <2>1. Frame(n, k, name, c) = H \o R
    BY <1>6 DEF Frame
  <2>2. R \in S /\ Len(R) = 0
    BY EmptySeq
  <2>3. Rest(k, name, ends[c]) \in Nat /\ Len(R) = Rest(k, name, ends[c])
    BY <1>6, <2>2 DEF Rest
  <2> HIDE DEF H, R
  <2> QED  BY <1>2, <2>1, <2>2, <2>3
<1> QED  BY <1>4, <1>5, <1>6

LEMMA BytesOfAreBytes ==
    ASSUME NEW n \in 1..MaxCalls, NEW s \in Seq(BytesOf(n))
    PROVE  s \in Seq(Byte) /\ \A i \in 1..Len(s): s[i][1] = n
<1>1. BytesOf(n) \subseteq Byte
  BY DEF BytesOf, Byte
<1>2. s \in Seq(Byte)
  BY <1>1, SeqMonotonic
<1>3. ASSUME NEW i \in 1..Len(s) PROVE s[i][1] = n
  <2>1. s[i] \in BytesOf(n)
    BY ElementOfSeq
  <2> QED  BY <2>1 DEF BytesOf
<1> QED  BY <1>2, <1>3

(* The frame of a call that was made.                                      *)
LEMMA FrameOfProps ==
    ASSUME Shapes, CallsInv, NEW c \in Conns, NEW n \in DOMAIN calls
    PROVE  /\ FrameOf(c, n) \in Seq(Byte)
           /\ \A i \in 1..Len(FrameOf(c, n)): FrameOf(c, n)[i][1] = n
           /\ Len(FrameOf(c, n)) = HeaderBytes + Rest(calls[n].cmd, calls[n].name, ends[c])
           /\ Rest(calls[n].cmd, calls[n].name, ends[c]) \in Nat
           /\ n \in 1..MaxCalls
<1>1. n \in 1..MaxCalls
  BY LenProperties, WireAssumption DEF Shapes, CallsInv, WireAssumption
<1>2. ends[c].dim \in Nat
  <2>1. ends[c] \in End
    BY DEF Shapes
  <2>2. ends[c].dim \in Dims \cup {0}
    BY <2>1 DEF End
  <2> QED  BY <2>2, WireConstants
<1> QED  BY <1>1, <1>2, FrameProps, BytesOfAreBytes DEF FrameOf

LEMMA ReplyBytesProps == \A k: ReplyBytes(k) \in Nat \ {0} /\ Expected(k) = ReplyBytes(k)
  BY DEF ReplyBytes, Expected

-----------------------------------------------------------------------------
(* What a step leaves of a connection.                                     *)

(* The calls made on it are still what they were, and failed if they had.  *)
Kept(c) ==
    /\ CallsOn(c) \subseteq CallsOn(c)'
    /\ \A n \in CallsOn(c): /\ calls'[n].cmd = calls[n].cmd
                            /\ calls'[n].name = calls[n].name
                            /\ calls[n].outcome = "failed" => calls'[n].outcome = "failed"
    /\ ends'[c].kind = ends[c].kind
    /\ ends'[c].dim = ends[c].dim
    /\ differs[c] => differs'[c]

(* It is none of the step's business.                                      *)
SameAt(c) ==
    /\ CallsOn(c)' = CallsOn(c)
    /\ \A n \in CallsOn(c): calls'[n] = calls[n]
    /\ ends'[c].kind = ends[c].kind /\ ends'[c].dim = ends[c].dim
    /\ toServer'[c] = toServer[c] /\ toClient'[c] = toClient[c]
    /\ phase'[c] = phase[c] /\ want'[c] = want[c] /\ handling'[c] = handling[c]
    /\ active'[c] = active[c] /\ differs'[c] = differs[c] /\ executed'[c] = executed[c]

LEMMA SameIsKept ==
    ASSUME NEW c \in Conns, SameAt(c)
    PROVE  Kept(c)
  BY DEF SameAt, Kept

LEMMA SpoiltKept ==
    ASSUME NEW c \in Conns, Kept(c), Spoilt(c)
    PROVE  Spoilt(c)'
<1>1. CASE ends[c].kind = "sdk" \/ differs[c]
  BY <1>1 DEF Kept, Spoilt
<1>2. CASE \E n \in CallsOn(c): calls[n].name = "bad"
  BY <1>2 DEF Kept, Spoilt
<1>3. CASE \E m, n \in CallsOn(c): m < n /\ calls[m].outcome = "failed"
  BY <1>3 DEF Kept, Spoilt
<1> QED  BY <1>1, <1>2, <1>3 DEF Spoilt

LEMMA FrameKept ==
    ASSUME NEW c \in Conns, Kept(c), NEW n \in CallsOn(c)
    PROVE  /\ FrameOf(c, n)' = FrameOf(c, n)
           /\ Before(n)' = Before(n)
           /\ AnswerTo(n)' = AnswerTo(n)
<1>1. /\ calls'[n].cmd = calls[n].cmd /\ calls'[n].name = calls[n].name
      /\ ends'[c].kind = ends[c].kind /\ ends'[c].dim = ends[c].dim
  BY DEF Kept
<1>2. FrameOf(c, n)' = FrameOf(c, n)
  BY <1>1 DEF FrameOf, Frame
<1>3. Before(n)' = Before(n) /\ AnswerTo(n)' = AnswerTo(n)
  BY <1>1 DEF Before, AnswerTo
<1> QED  BY <1>2, <1>3

LEMMA ThreadSame ==
    ASSUME NEW c \in Conns, SameAt(c), ThreadAt(c)
    PROVE  ThreadAt(c)'
<1>1. /\ (\A i \in 1..Len(toServer[c]): toServer[c][i][1] \in CallsOn(c))'
      /\ (phase[c] \in Handling => handling[c] \in CallsOn(c))'
      /\ (phase[c] = "header" => want[c] = HeaderBytes)'
      /\ (~differs[c] => active[c] \in {0, ends[c].dim})'
      /\ (phase[c] # "none" => (ends[c].dim \in Dims /\ ends[c].kind \in Kinds))'
      /\ (phase[c] = "none" => Untouched(c))'
  BY DEF SameAt, ThreadAt, Untouched
<1>2. CASE phase[c] \in Handling
  <2>1. handling[c] \in CallsOn(c) /\ handling'[c] = handling[c] /\ phase'[c] = phase[c]
    BY <1>2 DEF SameAt, ThreadAt
  <2>2. calls'[handling'[c]] = calls[handling[c]]
    BY <2>1 DEF SameAt
  <2>3. active'[c] = active[c]
    BY DEF SameAt
  <2> QED  BY <1>1, <2>1, <2>2, <2>3 DEF ThreadAt, Command
<1>3. CASE phase[c] \notin Handling
  <2>1. phase'[c] \notin {"name", "payload", "execute"}
    BY <1>3 DEF SameAt, Handling
  <2> QED  BY <1>1, <2>1 DEF ThreadAt
<1> QED  BY <1>2, <1>3

LEMMA ExecutedSame ==
    ASSUME NEW c \in Conns, executed'[c] = executed[c], NEW n
    PROVE  Executed(c, n)' <=> Executed(c, n)
  BY DEF Executed

LEMMA StreamSame ==
    ASSUME NEW c \in Conns, SameAt(c), StreamAt(c)
    PROVE  StreamAt(c)'
<1> SUFFICES ASSUME ~Spoilt(c)'
             PROVE  (/\ phase[c] # "astray"
                     /\ InOrder(c)
                     /\ \A n \in CallsOn(c): Answered(n) => (calls[n].got = {n} /\ Executed(c, n))
                     /\ (\A n \in CallsOn(c): Answered(n)) => Quiet(c)
                     /\ \A n \in CallsOn(c): ~Answered(n) => Position(c, n))'
  BY DEF StreamAt
<1>1. Kept(c) /\ ~Spoilt(c)
  BY SameIsKept, SpoiltKept
<1>2. /\ CallsOn(c)' = CallsOn(c) /\ \A n \in CallsOn(c): calls'[n] = calls[n]
      /\ toServer'[c] = toServer[c] /\ toClient'[c] = toClient[c]
      /\ phase'[c] = phase[c] /\ want'[c] = want[c] /\ handling'[c] = handling[c]
      /\ executed'[c] = executed[c]
  BY DEF SameAt
<1>3. InOrder(c)'
  BY <1>1, <1>2 DEF StreamAt, InOrder
<1>4. \A n \in CallsOn(c): Answered(n)' <=> Answered(n)
  BY <1>2 DEF Answered
<1>5. (\A n \in CallsOn(c): Answered(n) => (calls[n].got = {n} /\ Executed(c, n)))'
  BY <1>1, <1>2, <1>4, ExecutedSame DEF StreamAt
<1>6. ((\A n \in CallsOn(c): Answered(n)) => Quiet(c))'
  BY <1>1, <1>2, <1>4 DEF StreamAt, Quiet
<1>7. (\A n \in CallsOn(c): ~Answered(n) => Position(c, n))'
  <2> SUFFICES ASSUME NEW n \in CallsOn(c)', ~Answered(n)'
               PROVE  Position(c, n)'
    OBVIOUS
  <2>1. n \in CallsOn(c) /\ Position(c, n)
    BY <1>1, <1>2, <1>4 DEF StreamAt
  <2>2. /\ FrameOf(c, n)' = FrameOf(c, n) /\ Before(n)' = Before(n) /\ AnswerTo(n)' = AnswerTo(n)
    BY <1>1, <2>1, FrameKept
  <2>3. (Executed(c, n)' <=> Executed(c, n)) /\ (Waiting(n)' => Waiting(n))
    BY <1>2, <2>1, ExecutedSame DEF Waiting, CallsOn
  <2> QED  BY <1>2, <2>1, <2>2, <2>3 DEF Position, Reads
<1> QED  BY <1>1, <1>2, <1>3, <1>5, <1>6, <1>7 DEF StreamAt

(* An outcome is written to one call.                                      *)
LEMMA CallsUpdate ==
    ASSUME Shapes, NEW n \in DOMAIN calls, NEW new \in Call,
           new.conn = calls[n].conn, calls' = [calls EXCEPT ![n] = new]
    PROVE  /\ calls' \in Seq(Call)
           /\ DOMAIN calls' = DOMAIN calls /\ Len(calls') = Len(calls)
           /\ calls'[n] = new
           /\ \A m \in DOMAIN calls: m # n => calls'[m] = calls[m]
           /\ \A b: CallsOn(b)' = CallsOn(b)
<1>1. DOMAIN calls = 1..Len(calls) /\ Len(calls) \in Nat
  BY LenProperties DEF Shapes
<1>2. /\ calls' \in Seq(Call) /\ Len(calls') = Len(calls)
      /\ \A j \in 1..Len(calls): calls'[j] = IF j = n THEN new ELSE calls[j]
  BY <1>1, ExceptSeq DEF Shapes
<1>3. DOMAIN calls' = DOMAIN calls
  BY <1>1, <1>2, LenProperties
<1>4. \A j \in DOMAIN calls: calls'[j].conn = calls[j].conn
  BY <1>1, <1>2
<1>5. \A b: CallsOn(b)' = CallsOn(b)
  BY <1>3, <1>4 DEF CallsOn
<1> QED  BY <1>1, <1>2, <1>3, <1>5

(* A call is added.                                                        *)
LEMMA CallsAppend ==
    ASSUME Shapes, NEW new \in Call, calls' = Append(calls, new)
    PROVE  /\ calls' \in Seq(Call)
           /\ Len(calls) \in Nat /\ Len(calls') = Len(calls) + 1
           /\ DOMAIN calls = 1..Len(calls) /\ DOMAIN calls' = 1..(Len(calls) + 1)
           /\ calls'[Len(calls) + 1] = new
           /\ \A m \in DOMAIN calls: calls'[m] = calls[m]
           /\ CallsOn(new.conn)' = CallsOn(new.conn) \cup {Len(calls) + 1}
           /\ \A b: b # new.conn => CallsOn(b)' = CallsOn(b)
<1>1. DOMAIN calls = 1..Len(calls) /\ Len(calls) \in Nat
  BY LenProperties DEF Shapes
<1>2. /\ calls' \in Seq(Call) /\ Len(calls') = Len(calls) + 1
      /\ \A j \in 1..Len(calls): calls'[j] = calls[j]
      /\ calls'[Len(calls) + 1] = new
  BY AppendProperties DEF Shapes
<1>3. DOMAIN calls' = 1..(Len(calls) + 1)
  BY <1>2, LenProperties
<1>4. 1..(Len(calls) + 1) = 1..Len(calls) \cup {Len(calls) + 1}
  BY <1>1
<1>5. \A b: CallsOn(b)' = CallsOn(b) \cup {m \in {Len(calls) + 1}: new.conn = b}
  BY <1>1, <1>2, <1>3, <1>4 DEF CallsOn
<1> QED  BY <1>1, <1>2, <1>3, <1>5

-----------------------------------------------------------------------------
(* Steps, one connection each.                                             *)

LEMMA OneConnection ==
    ASSUME IndInv, NEW c \in Conns, \A b \in Conns \ {c}: SameAt(b), ThreadAt(c)', StreamAt(c)'
    PROVE  ThreadInv' /\ StreamInv'
<1>1. \A b \in Conns \ {c}: ThreadAt(b)' /\ StreamAt(b)'
  BY ThreadSame, StreamSame DEF IndInv, ThreadInv, StreamInv
<1>2. \A b \in Conns: ThreadAt(b)' /\ StreamAt(b)'
  BY <1>1
<1>3. ThreadInv' <=> \A b \in Conns: ThreadAt(b)'
  BY DEF ThreadInv, Conns
<1>4. StreamInv' <=> \A b \in Conns: StreamAt(b)'
  BY DEF StreamInv, Conns
<1> QED  BY <1>2, <1>3, <1>4

(* A step that executes nothing and ends no call.                          *)
LEMMA StreamStep ==
    ASSUME NEW c \in Conns, StreamAt(c), Kept(c), CallsOn(c)' = CallsOn(c),
           \A n \in CallsOn(c): calls'[n] = calls[n], executed'[c] = executed[c],
           ~Spoilt(c) =>
             /\ phase'[c] # "astray"
             /\ (\A n \in CallsOn(c): Answered(n)) => Quiet(c)'
             /\ \A n \in CallsOn(c): ~Answered(n) => Position(c, n)'
    PROVE  StreamAt(c)'
<1> SUFFICES ASSUME ~Spoilt(c)'
             PROVE  (/\ phase[c] # "astray"
                     /\ InOrder(c)
                     /\ \A n \in CallsOn(c): Answered(n) => (calls[n].got = {n} /\ Executed(c, n))
                     /\ (\A n \in CallsOn(c): Answered(n)) => Quiet(c)
                     /\ \A n \in CallsOn(c): ~Answered(n) => Position(c, n))'
  BY DEF StreamAt
<1>1. ~Spoilt(c)
  BY SpoiltKept
<1>2. InOrder(c)'
  BY <1>1 DEF StreamAt, InOrder
<1>3. \A n \in CallsOn(c): Answered(n)' <=> Answered(n)
  BY DEF Answered
<1>4. (\A n \in CallsOn(c): Answered(n) => (calls[n].got = {n} /\ Executed(c, n)))'
  BY <1>1, <1>3, ExecutedSame DEF StreamAt
<1> QED  BY <1>1, <1>2, <1>3, <1>4

LEMMA HangupOrThrows ==
    ASSUME IndInv, NEW c \in Conns, Hangup(c) \/ Throws(c)
    PROVE  IndInv'
<1> USE DEF IndInv
<1>1. /\ phase' = [phase EXCEPT ![c] = "gone"] /\ want' = [want EXCEPT ![c] = 0]
      /\ toServer' = [toServer EXCEPT ![c] = <<>>]
      /\ UNCHANGED <<calls, current, ends, toClient, handling, active, differs, executed, db>>
      /\ phase[c] # "none"
  BY DEF Hangup, Throws, Goto
<1>2. Shapes'
  BY <1>1, EmptySeq DEF Shapes, Phases, Wants
<1>3. CallsInv'
  BY <1>1 DEF CallsInv, Waiting, Shapes
<1>4. ASSUME NEW b \in Conns \ {c} PROVE SameAt(b)
  BY <1>1 DEF SameAt, CallsOn, Shapes
<1>5. phase'[c] = "gone" /\ toServer'[c] = <<>>
  BY <1>1 DEF Shapes
<1>6. CallsOn(c)' = CallsOn(c)
  BY <1>1 DEF CallsOn
<1>7. ThreadAt(c)'
  BY <1>1, <1>5, <1>6, EmptySeq DEF ThreadInv, ThreadAt, Handling
<1>8. Kept(c)
  BY <1>1, <1>6 DEF Kept
<1>9. ASSUME ~Spoilt(c)
      PROVE  /\ phase'[c] # "astray"
             /\ (\A n \in CallsOn(c): Answered(n)) => Quiet(c)'
             /\ \A n \in CallsOn(c): ~Answered(n) => Position(c, n)'
  <2>1. (\A n \in CallsOn(c): Answered(n)) => Quiet(c)'
    BY <1>1, <1>5, <1>9 DEF StreamInv, StreamAt, Quiet
  <2>2. ASSUME NEW n \in CallsOn(c), ~Answered(n) PROVE Position(c, n)'
    <3>1. Position(c, n)
      BY <1>9, <2>2 DEF StreamInv, StreamAt
    <3>2. (Executed(c, n)' <=> Executed(c, n)) /\ AnswerTo(n)' = AnswerTo(n)
      BY <1>1, <1>8, ExecutedSame, FrameKept
    <3>3. Waiting(n)' <=> Waiting(n)
      BY <1>1 DEF Waiting
    <3> QED  BY <1>1, <1>5, <3>1, <3>2, <3>3 DEF Position, Handling
  <2> QED  BY <1>5, <2>1, <2>2
<1>10. StreamAt(c)'
  BY <1>1, <1>6, <1>8, <1>9, StreamStep DEF StreamInv
<1> QED  BY <1>2, <1>3, <1>4, <1>7, <1>10, OneConnection

LEMMA LoseLinkOrClose ==
    ASSUME IndInv, NEW c \in Conns, LoseLink(c) \/ Close(c)
    PROVE  IndInv'
<1> USE DEF IndInv
<1>1. /\ UNCHANGED <<calls, phase, want, handling, active, differs, executed, db>>
      /\ toServer' = [toServer EXCEPT ![c] = <<>>] \/ toServer' = toServer
      /\ toClient' = [toClient EXCEPT ![c] = <<>>]
      /\ current' \in {0, current}
      /\ \/ ends' = [ends EXCEPT ![c].closed = TRUE]
         \/ ends' = [ends EXCEPT ![c].link = "down"]
  BY DEF LoseLink, Close, serverVars
<1>2. /\ ends' \in [Conns -> End]
      /\ \A b \in Conns: ends'[b].kind = ends[b].kind /\ ends'[b].dim = ends[b].dim
  <2>1. CASE ends' = [ends EXCEPT ![c].closed = TRUE]
    BY <2>1 DEF Shapes, End
  <2>2. CASE ends' = [ends EXCEPT ![c].link = "down"]
    BY <2>2 DEF Shapes, End
  <2> QED  BY <1>1, <2>1, <2>2
<1>3. /\ toServer'[c] \in {<<>>, toServer[c]} /\ toClient'[c] = <<>>
      /\ \A b \in Conns \ {c}: toServer'[b] = toServer[b] /\ toClient'[b] = toClient[b]
      /\ toServer' \in [Conns -> Seq(Byte)] /\ toClient' \in [Conns -> Seq(Byte)]
  <2>1. <<>> \in Seq(Byte)
    BY EmptySeq
  <2>2. CASE toServer' = [toServer EXCEPT ![c] = <<>>]
    BY <1>1, <2>1, <2>2 DEF Shapes
  <2>3. CASE toServer' = toServer
    BY <1>1, <2>1, <2>3 DEF Shapes
  <2> QED  BY <1>1, <2>2, <2>3
<1>4. Shapes'
  BY <1>1, <1>2, <1>3 DEF Shapes
<1>5. CallsInv'
  BY <1>1 DEF CallsInv, Waiting, Shapes
<1>6. \A b: CallsOn(b)' = CallsOn(b)
  BY <1>1 DEF CallsOn
<1>7. ASSUME NEW b \in Conns \ {c} PROVE SameAt(b)
  BY <1>1, <1>2, <1>3, <1>6 DEF SameAt
<1>8. ThreadAt(c)'
  BY <1>1, <1>2, <1>3, <1>6, EmptySeq DEF ThreadInv, ThreadAt, Untouched, Command
<1>9. Kept(c)
  BY <1>1, <1>2, <1>6 DEF Kept
<1>10. ASSUME ~Spoilt(c)
       PROVE  /\ phase'[c] # "astray"
              /\ (\A n \in CallsOn(c): Answered(n)) => Quiet(c)'
              /\ \A n \in CallsOn(c): ~Answered(n) => Position(c, n)'
  <2>1. (\A n \in CallsOn(c): Answered(n)) => Quiet(c)'
    BY <1>1, <1>3, <1>10 DEF StreamInv, StreamAt, Quiet
  <2>2. ASSUME NEW n \in CallsOn(c), ~Answered(n) PROVE Position(c, n)'
    <3>1. Position(c, n)
      BY <1>10, <2>2 DEF StreamInv, StreamAt
    <3>2. (Executed(c, n)' <=> Executed(c, n)) /\ AnswerTo(n)' = AnswerTo(n)
          /\ FrameOf(c, n)' = FrameOf(c, n) /\ Before(n)' = Before(n)
      BY <1>1, <1>9, ExecutedSame, FrameKept
    <3>3. Waiting(n)' <=> Waiting(n)
      BY <1>1 DEF Waiting
    <3>4. \A k: Reads(toServer[c], FrameOf(c, n), k) /\ k \in Nat => Reads(toServer'[c], FrameOf(c, n), k)
      <4>1. FrameOf(c, n) \in Seq(Byte) /\ toServer[c] \in Seq(Byte)
        BY FrameOfProps DEF CallsOn, Shapes
      <4>2. \A k: Reads(toServer[c], FrameOf(c, n), k) /\ k \in Nat => k <= Len(FrameOf(c, n))
        BY <4>1, LenProperties DEF Reads
      <4> QED  BY <1>3, <4>1, <4>2, ReadsNothing
    <3>5. HeaderBytes \in Nat /\ Before(n) \in Nat
      BY NameLengthProps DEF Before, HeaderBytes
    <3> QED  BY <1>1, <1>3, <3>1, <3>2, <3>3, <3>4, <3>5 DEF Position
  <2> QED  BY <1>1, <1>10, <2>1, <2>2 DEF StreamInv, StreamAt
<1>11. StreamAt(c)'
  BY <1>1, <1>6, <1>9, <1>10, StreamStep DEF StreamInv
<1> QED  BY <1>4, <1>5, <1>7, <1>8, <1>11, OneConnection

LEMMA ConnectStep ==
    ASSUME IndInv, NEW c \in Conns, Connect(c)
    PROVE  IndInv'
<1> USE DEF IndInv
<1>1. /\ phase' = [phase EXCEPT ![c] = "header"] /\ want' = [want EXCEPT ![c] = HeaderBytes]
      /\ UNCHANGED <<calls, toServer, toClient, handling, active, differs, executed, db>>
      /\ current' = c /\ phase[c] = "none"
  BY DEF Connect
<1>2. PICK kind \in Kinds, d \in Dims:
        ends' = [ends EXCEPT ![c] = [kind |-> kind, dim |-> d, closed |-> FALSE, link |-> "up"]]
  BY DEF Connect
<1>3. ends' \in [Conns -> End] /\ ends'[c].dim \in Dims /\ ends'[c].kind \in Kinds
      /\ \A b \in Conns \ {c}: ends'[b] = ends[b]
  BY <1>2 DEF Shapes, End
<1>4. Shapes'
  BY <1>1, <1>3 DEF Shapes, Phases, Wants
<1>5. CallsInv'
  BY <1>1 DEF CallsInv, Waiting, Shapes
<1>6. \A b: CallsOn(b)' = CallsOn(b)
  BY <1>1 DEF CallsOn
<1>7. ASSUME NEW b \in Conns \ {c} PROVE SameAt(b)
  BY <1>1, <1>3, <1>6 DEF SameAt, Shapes
<1>8. Untouched(c) /\ phase'[c] = "header" /\ want'[c] = HeaderBytes
  BY <1>1 DEF ThreadInv, ThreadAt, Shapes
<1>9. CallsOn(c)' = {} /\ toServer'[c] = <<>> /\ toClient'[c] = <<>> /\ executed'[c] = <<>>
      /\ active'[c] = 0
  BY <1>1, <1>6, <1>8 DEF Untouched
<1>10. ThreadAt(c)'
  BY <1>1, <1>3, <1>8, <1>9, EmptySeq DEF ThreadAt, Handling
<1>11. InOrder(c)'
  BY <1>9, EmptySeq DEF InOrder
<1>12. StreamAt(c)'
  BY <1>8, <1>9, <1>11 DEF StreamAt, Quiet
<1> QED  BY <1>4, <1>5, <1>7, <1>10, <1>12, OneConnection

LEMMA WantsAreNat == Wants \subseteq Nat
  BY WireConstants, NameLengthProps DEF Wants, HeaderBytes, FloatBytes

(* A step of the thread of a connection.                                   *)
LEMMA ThreadStepFrame ==
    ASSUME IndInv, NEW c \in Conns, UNCHANGED <<calls, current, ends>>, phase'[c] # "none",
           \A b \in Conns \ {c}:
             /\ toServer'[b] = toServer[b] /\ toClient'[b] = toClient[b]
             /\ phase'[b] = phase[b] /\ want'[b] = want[b] /\ handling'[b] = handling[b]
             /\ active'[b] = active[b] /\ differs'[b] = differs[b] /\ executed'[b] = executed[b]
    PROVE  /\ CallsInv'
           /\ \A b \in Conns \ {c}: SameAt(b)
           /\ \A b: CallsOn(b)' = CallsOn(b)
           /\ \A n: Waiting(n)' <=> Waiting(n)
           /\ (differs[c] => differs'[c]) => Kept(c)
<1>1. \A b: CallsOn(b)' = CallsOn(b)
  BY DEF CallsOn
<1>2. \A b \in Conns \ {c}: SameAt(b)
  BY <1>1 DEF SameAt
<1>3. \A b \in Conns: phase[b] # "none" => phase'[b] # "none"
  OBVIOUS
<1>4. CallsInv'
  BY <1>3 DEF IndInv, CallsInv, Waiting, Shapes
<1>5. (differs[c] => differs'[c]) => Kept(c)
  BY <1>1 DEF Kept
<1>6. \A n: Waiting(n)' <=> Waiting(n)
  BY DEF Waiting
<1> QED  BY <1>1, <1>2, <1>4, <1>5, <1>6

(* recv_all takes bytes of calls on the connection.                        *)
LEMMA TakeProps ==
    ASSUME Shapes, NEW c \in Conns, Take(c)
    PROVE  /\ want[c] \in 0..Len(toServer[c])
           /\ toServer[c] \in Seq(Byte) /\ Len(toServer[c]) \in Nat
           /\ toServer'[c] = After(toServer[c], want[c])
           /\ toServer' \in [Conns -> Seq(Byte)]
           /\ \A b \in Conns \ {c}: toServer'[b] = toServer[b]
           /\ (\A i \in 1..Len(toServer[c]): toServer[c][i][1] \in CallsOn(c))
                => \A i \in 1..Len(toServer'[c]): toServer'[c][i][1] \in CallsOn(c)
<1>1. toServer[c] \in Seq(Byte) /\ Len(toServer[c]) \in Nat /\ want[c] \in Nat
  BY LenProperties, WantsAreNat DEF Shapes
<1>2. want[c] \in 0..Len(toServer[c])
  BY <1>1 DEF Take
<1>3. /\ After(toServer[c], want[c]) \in Seq(Byte)
      /\ Len(After(toServer[c], want[c])) = Len(toServer[c]) - want[c]
      /\ \A i \in 1..(Len(toServer[c]) - want[c]):
           After(toServer[c], want[c])[i] = toServer[c][i + want[c]]
  BY <1>1, <1>2, AfterProps
<1>4. /\ toServer'[c] = After(toServer[c], want[c])
      /\ toServer' \in [Conns -> Seq(Byte)]
      /\ \A b \in Conns \ {c}: toServer'[b] = toServer[b]
  BY <1>3 DEF Take, Shapes
<1>5. ASSUME \A i \in 1..Len(toServer[c]): toServer[c][i][1] \in CallsOn(c),
             NEW i \in 1..Len(toServer'[c])
      PROVE  toServer'[c][i][1] \in CallsOn(c)
  <2>1. i + want[c] \in 1..Len(toServer[c]) /\ i \in 1..(Len(toServer[c]) - want[c])
    BY <1>1, <1>2, <1>3, <1>4
  <2> QED  BY <1>3, <1>4, <1>5, <2>1
<1> QED  BY <1>1, <1>2, <1>4, <1>5

LEMMA InPlaceWhenReads ==
    ASSUME Shapes, CallsInv, NEW c \in Conns, NEW n \in DOMAIN calls, NEW k \in Nat,
           Reads(toServer[c], FrameOf(c, n), k), want[c] \in 0..Len(toServer[c])
    PROVE  InPlace(c, n, k) /\ Reads(After(toServer[c], want[c]), FrameOf(c, n), k + want[c])
<1>1. FrameOf(c, n) \in Seq(Byte) /\ toServer[c] \in Seq(Byte)
  BY FrameOfProps DEF Shapes
<1> QED  BY <1>1, ReadsFirst, ReadsAfter DEF InPlace, FrameOf

LEMMA ReadHeaderStep ==
    ASSUME IndInv, NEW c \in Conns, ReadHeader(c)
    PROVE  IndInv'
<1> USE DEF IndInv
<1>1. /\ phase[c] = "header" /\ Take(c)
      /\ UNCHANGED <<calls, current, ends, toClient, active, differs, executed, db>>
  BY DEF ReadHeader
<1>2. /\ want[c] \in 0..Len(toServer[c])
      /\ toServer[c] \in Seq(Byte) /\ Len(toServer[c]) \in Nat
      /\ toServer'[c] = After(toServer[c], want[c])
      /\ toServer' \in [Conns -> Seq(Byte)]
      /\ \A b \in Conns \ {c}: toServer'[b] = toServer[b]
      /\ (\A i \in 1..Len(toServer[c]): toServer[c][i][1] \in CallsOn(c))
           => \A i \in 1..Len(toServer'[c]): toServer'[c][i][1] \in CallsOn(c)
  BY <1>1, TakeProps
<1>3. want[c] = 5 /\ 1 \in 1..Len(toServer[c])
  <2>1. want[c] = 5
    BY <1>1 DEF ThreadInv, ThreadAt, HeaderBytes
  <2> QED  BY <1>2, <2>1
<1>4. PICK n \in CallsOn(c): n = toServer[c][1][1]
  BY <1>3 DEF ThreadInv, ThreadAt
<1>5. n \in DOMAIN calls /\ n \in 1..MaxCalls /\ calls[n] \in Call
  <2>1. n \in DOMAIN calls
    BY DEF CallsOn
  <2> QED  BY <2>1, FrameOfProps, LenProperties, ElementOfSeq DEF Shapes
<1>6. PICK k \in Commands: k = calls[n].cmd
  BY <1>5 DEF Call
<1>7. \/ /\ ~InPlace(c, n, 0)
         /\ phase' = [phase EXCEPT ![c] = "astray"] /\ want' = [want EXCEPT ![c] = 0]
         /\ handling' = handling
      \/ /\ handling' = [handling EXCEPT ![c] = n]
         /\ \/ /\ phase' = [phase EXCEPT ![c] = "gone"] /\ want' = [want EXCEPT ![c] = 0]
            \/ /\ k \in Selections /\ calls[n].name # "long"
               /\ phase' = [phase EXCEPT ![c] = "name"]
               /\ want' = [want EXCEPT ![c] = NameLength(calls[n].name)]
            \/ /\ k \notin Selections /\ active[c] # 0
               /\ phase' = [phase EXCEPT ![c] = "payload"]
               /\ want' = [want EXCEPT ![c] = Payload(c, k)]
  BY <1>4, <1>6 DEF ReadHeader, Goto
<1>8. Payload(c, k) = (IF k \in WithVector THEN FloatBytes * active[c] ELSE 0)
  BY DEF Payload
<1>9. active[c] # 0 => Payload(c, k) \in Wants
  BY <1>8 DEF Wants, Shapes
<1>10. calls[n].name # "long" => NameLength(calls[n].name) = 1 /\ NameLength("good") = 1
  BY NameLengthProps
<1>11. 0 \in Wants /\ NameLength("good") \in Wants
  BY DEF Wants
<1>12. /\ phase'[c] \in {"astray", "gone", "name", "payload"} /\ phase' \in [Conns -> Phases]
       /\ want' \in [Conns -> Wants]
       /\ handling' \in [Conns -> 0..MaxCalls]
       /\ \A b \in Conns \ {c}: phase'[b] = phase[b] /\ want'[b] = want[b] /\ handling'[b] = handling[b]
       /\ phase'[c] \in Handling => handling'[c] = n
       /\ phase'[c] = "name" => (k \in Selections /\ calls[n].name # "long" /\ want'[c] = NameLength("good"))
       /\ phase'[c] = "payload" => (k \notin Selections /\ active[c] # 0 /\ want'[c] = Payload(c, k))
       /\ phase'[c] = "astray" => ~InPlace(c, n, 0)
  <2>1. CASE phase' = [phase EXCEPT ![c] = "astray"] /\ want' = [want EXCEPT ![c] = 0] /\ handling' = handling /\ ~InPlace(c, n, 0)
    BY <1>11, <2>1 DEF Shapes, Phases, Handling
  <2>2. CASE phase' = [phase EXCEPT ![c] = "gone"] /\ want' = [want EXCEPT ![c] = 0] /\ handling' = [handling EXCEPT ![c] = n]
    BY <1>5, <1>11, <2>2 DEF Shapes, Phases, Handling
  <2>3. CASE /\ k \in Selections /\ calls[n].name # "long" /\ phase' = [phase EXCEPT ![c] = "name"]
             /\ want' = [want EXCEPT ![c] = NameLength(calls[n].name)] /\ handling' = [handling EXCEPT ![c] = n]
    BY <1>5, <1>10, <1>11, <2>3 DEF Shapes, Phases, Handling
  <2>4. CASE /\ k \notin Selections /\ active[c] # 0 /\ phase' = [phase EXCEPT ![c] = "payload"]
             /\ want' = [want EXCEPT ![c] = Payload(c, k)] /\ handling' = [handling EXCEPT ![c] = n]
    BY <1>5, <1>9, <2>4 DEF Shapes, Phases, Handling
  <2> QED  BY <1>7, <2>1, <2>2, <2>3, <2>4
<1>13. Shapes'
  BY <1>1, <1>2, <1>12 DEF Shapes
<1>14. /\ CallsInv' /\ \A b \in Conns \ {c}: SameAt(b)
       /\ \A b: CallsOn(b)' = CallsOn(b)
       /\ \A m: Waiting(m)' <=> Waiting(m)
       /\ Kept(c)
  BY <1>1, <1>2, <1>12, ThreadStepFrame
<1>15. ThreadAt(c)'
  <2>1. (phase[c] = "name" => (Command(c) \in Selections /\ calls[handling[c]].name # "long"))'
    BY <1>1, <1>6, <1>12 DEF Command, Handling
  <2>2. ((phase[c] \in {"payload", "execute"} /\ Command(c) \notin Selections) => active[c] # 0)'
    BY <1>1, <1>12
  <2> QED  BY <1>1, <1>2, <1>12, <1>14, <2>1, <2>2 DEF ThreadInv, ThreadAt
<1>16. ASSUME ~Spoilt(c), NEW m \in CallsOn(c), ~Answered(m)
       PROVE  phase'[c] # "astray" /\ Position(c, m)'
  <2>1. Position(c, m)
    BY <1>16 DEF StreamInv, StreamAt
  <2>2. ~Executed(c, m) /\ Reads(toServer[c], FrameOf(c, m), 0)
    BY <1>1, <1>2, <1>3, <2>1, EmptySeq DEF Position
  <2>3. /\ FrameOf(c, m) \in Seq(Byte) /\ m \in DOMAIN calls
        /\ \A i \in 1..Len(FrameOf(c, m)): FrameOf(c, m)[i][1] = m
        /\ Len(FrameOf(c, m)) = HeaderBytes + Rest(calls[m].cmd, calls[m].name, ends[c])
        /\ Rest(calls[m].cmd, calls[m].name, ends[c]) \in Nat
    BY FrameOfProps DEF CallsOn
  <2>4. 1 \in 1..Len(FrameOf(c, m)) /\ toServer[c][1] = FrameOf(c, m)[1 + 0]
    BY <1>3, <2>2, <2>3 DEF Reads, HeaderBytes
  <2>5. n = m
    BY <1>4, <2>3, <2>4
  <2>6. InPlace(c, m, 0) /\ Reads(toServer'[c], FrameOf(c, m), HeaderBytes)
    BY <1>2, <1>3, <2>2, <2>3, InPlaceWhenReads DEF HeaderBytes
  <2>7. phase'[c] # "astray"
    BY <1>12, <2>5, <2>6
  <2>8. /\ FrameOf(c, m)' = FrameOf(c, m) /\ Before(m)' = Before(m) /\ AnswerTo(m)' = AnswerTo(m)
        /\ Executed(c, m)' <=> Executed(c, m)
    BY <1>1, <1>14, FrameKept, ExecutedSame
  <2>9. ASSUME phase'[c] = "payload"
        PROVE  Before(m) = HeaderBytes /\ want'[c] = Len(FrameOf(c, m)) - Before(m)
    <3>1. k \notin Selections /\ active[c] # 0 /\ want'[c] = Payload(c, k) /\ k = calls[m].cmd
      BY <1>6, <1>12, <2>5, <2>9
    <3>2. active[c] = ends[c].dim
      BY <1>16, <3>1 DEF ThreadInv, ThreadAt, Spoilt
    <3>3. Before(m) = HeaderBytes
      BY <3>1 DEF Before, HeaderBytes
    <3>4. Rest(k, calls[m].name, ends[c]) = Payload(c, k)
      BY <3>1, <3>2, <1>8 DEF Rest
    <3> QED  BY <2>3, <3>1, <3>3, <3>4 DEF HeaderBytes
  <2>10. Position(c, m)'
    BY <1>1, <1>12, <1>14, <2>1, <2>2, <2>5, <2>6, <2>7, <2>8, <2>9 DEF Position, Handling
  <2> QED  BY <2>7, <2>10
<1>17. ASSUME ~Spoilt(c) PROVE ~(\A m \in CallsOn(c): Answered(m))
  BY <1>1, <1>3, <1>17, EmptySeq DEF StreamInv, StreamAt, Quiet
<1>18. StreamAt(c)'
  BY <1>1, <1>14, <1>16, <1>17, StreamStep DEF StreamInv
<1> QED  BY <1>13, <1>14, <1>15, <1>18, OneConnection

(* An answer, in whole, behind what is in the stream already.              *)
LEMMA SendProps ==
    ASSUME Shapes, NEW c \in Conns, NEW size \in Nat, handling[c] \in 1..MaxCalls, Send(c, size)
    PROVE  /\ toClient' \in [Conns -> Seq(Byte)]
           /\ \A b \in Conns \ {c}: toClient'[b] = toClient[b]
           /\ toClient[c] = <<>> => toClient'[c] \in {<<>>, Bytes(handling[c], "answer", size)}
<1> DEFINE B == Bytes(handling[c], "answer", size)
           new == IF ends[c].closed THEN <<>> ELSE toClient[c] \o B
<1>1. B \in Seq(Byte)
  BY BytesProps DEF Parts
<1>2. toClient[c] \in Seq(Byte) /\ <<>> \in Seq(Byte)
  BY EmptySeq DEF Shapes
<1>3. toClient[c] \o B \in Seq(Byte) /\ <<>> \o B = B
  <2> HIDE DEF B
  <2> QED  BY <1>1, <1>2, ConcatProperties, ConcatEmptySeq
<1>4. toClient' = [toClient EXCEPT ![c] = new]
  BY DEF Send
<1>5. new \in Seq(Byte) /\ (toClient[c] = <<>> => new \in {<<>>, B})
  BY <1>2, <1>3
<1> HIDE DEF new, B
<1>6. toClient'[c] = new /\ toClient' \in [Conns -> Seq(Byte)]
      /\ \A b \in Conns \ {c}: toClient'[b] = toClient[b]
  BY <1>4, <1>5 DEF Shapes
<1> QED  BY <1>5, <1>6 DEF B

LEMMA HandlingProps ==
    ASSUME IndInv, NEW c \in Conns, phase[c] \in Handling
    PROVE  \E n \in CallsOn(c): /\ handling[c] = n /\ n \in DOMAIN calls /\ n \in 1..MaxCalls
                                /\ calls[n] \in Call
                                /\ ~Spoilt(c) => (~Answered(n) /\ Position(c, n))
<1>1. handling[c] \in CallsOn(c)
  BY DEF IndInv, ThreadInv, ThreadAt
<1>2. handling[c] \in DOMAIN calls /\ handling[c] \in 1..MaxCalls /\ calls[handling[c]] \in Call
  <2>1. handling[c] \in DOMAIN calls
    BY <1>1 DEF CallsOn
  <2> QED  BY <2>1, FrameOfProps, LenProperties, ElementOfSeq DEF Shapes, IndInv
<1>3. ASSUME ~Spoilt(c) PROVE ~Answered(handling[c]) /\ Position(c, handling[c])
  <2>1. ~(\A m \in CallsOn(c): Answered(m))
    BY <1>3 DEF IndInv, StreamInv, StreamAt, Quiet, Handling
  <2>2. PICK m \in CallsOn(c): ~Answered(m)
    BY <2>1
  <2>3. Position(c, m)
    BY <1>3, <2>2 DEF IndInv, StreamInv, StreamAt
  <2>4. handling[c] = m
    BY <2>3 DEF Position
  <2> QED  BY <2>2, <2>3, <2>4
<1> QED  BY <1>1, <1>2, <1>3

(* Of the calls of an unspoilt connection at most one has no answer.       *)
LEMMA OneOpenCall ==
    ASSUME CallsInv, Shapes, NEW c \in Conns, ~Spoilt(c), NEW m \in CallsOn(c), NEW n \in CallsOn(c),
           ~Answered(m)
    PROVE  n <= m /\ (n < m => Answered(n))
<1>1. m \in DOMAIN calls /\ n \in DOMAIN calls /\ DOMAIN calls = 1..Len(calls) /\ Len(calls) \in Nat
  BY LenProperties DEF CallsOn, Shapes
<1>2. \A i \in DOMAIN calls: calls[i].outcome \in {"waiting", "answered", "failed"}
  <2>1. \A i \in DOMAIN calls: calls[i] \in Call
    BY ElementOfSeq, <1>1 DEF Shapes
  <2> QED  BY <2>1 DEF Call
<1>3. \A i, j \in CallsOn(c): i < j => calls[i].outcome # "failed"
  BY DEF Spoilt
<1>4. \A i \in DOMAIN calls: Waiting(i) => i = Len(calls)
  BY DEF CallsInv
<1> QED  BY <1>1, <1>2, <1>3, <1>4 DEF Waiting, Answered

LEMMA ReadNameStep ==
    ASSUME IndInv, NEW c \in Conns, ReadName(c)
    PROVE  IndInv'
<1> USE DEF IndInv
<1>1. /\ phase[c] = "name" /\ Take(c)
      /\ UNCHANGED <<calls, current, ends, active, differs, executed, db>>
  BY DEF ReadName
<1>2. /\ want[c] \in 0..Len(toServer[c])
      /\ toServer[c] \in Seq(Byte) /\ Len(toServer[c]) \in Nat
      /\ toServer'[c] = After(toServer[c], want[c])
      /\ toServer' \in [Conns -> Seq(Byte)]
      /\ \A b \in Conns \ {c}: toServer'[b] = toServer[b]
      /\ (\A i \in 1..Len(toServer[c]): toServer[c][i][1] \in CallsOn(c))
           => \A i \in 1..Len(toServer'[c]): toServer'[c][i][1] \in CallsOn(c)
  BY <1>1, TakeProps
<1>3. PICK n \in CallsOn(c): /\ handling[c] = n /\ n \in DOMAIN calls /\ n \in 1..MaxCalls
                             /\ calls[n] \in Call
                             /\ ~Spoilt(c) => (~Answered(n) /\ Position(c, n))
  BY <1>1, HandlingProps DEF Handling
<1>4. PICK k \in Commands: k = calls[n].cmd
  BY <1>3 DEF Call
<1>5. k \in Selections /\ calls[n].name # "long"
  BY <1>1, <1>3, <1>4 DEF ThreadInv, ThreadAt, Command
<1>6. Command(c) = k
  BY <1>3, <1>4 DEF Command
<1> DEFINE P == InPlace(c, n, HeaderBytes)
           size == IF k = "CREATE_HNSW_DB" THEN 11 ELSE 8
<1>7. \/ /\ ~P
         /\ phase' = [phase EXCEPT ![c] = "astray"] /\ want' = [want EXCEPT ![c] = 0]
         /\ handling' = handling /\ toClient' = toClient
      \/ /\ P /\ calls[n].name = "good"
         /\ phase' = [phase EXCEPT ![c] = "payload"] /\ want' = [want EXCEPT ![c] = size]
         /\ handling' = handling /\ toClient' = toClient
      \/ /\ P /\ calls[n].name = "bad"
         /\ phase' = [phase EXCEPT ![c] = "header"] /\ want' = [want EXCEPT ![c] = HeaderBytes]
         /\ handling' = [handling EXCEPT ![c] = 0] /\ Send(c, 1)
  BY <1>3, <1>6 DEF ReadName, Goto, ToHeader
<1> HIDE DEF P
<1>8. size \in Wants /\ 0 \in Wants /\ HeaderBytes \in Wants
  BY DEF Wants
<1> HIDE DEF size
<1>9. /\ phase'[c] \in {"astray", "payload", "header"} /\ phase' \in [Conns -> Phases]
      /\ want' \in [Conns -> Wants]
      /\ handling' \in [Conns -> 0..MaxCalls]
      /\ toClient' \in [Conns -> Seq(Byte)]
      /\ \A b \in Conns \ {c}: /\ phase'[b] = phase[b] /\ want'[b] = want[b]
                               /\ handling'[b] = handling[b] /\ toClient'[b] = toClient[b]
      /\ phase'[c] = "payload" => (handling'[c] = n /\ want'[c] = size /\ P /\ toClient' = toClient)
      /\ phase'[c] = "header" => (calls[n].name = "bad" /\ want'[c] = HeaderBytes)
      /\ phase'[c] = "astray" => ~P
  <2>1. CASE ~P /\ phase' = [phase EXCEPT ![c] = "astray"] /\ want' = [want EXCEPT ![c] = 0]
             /\ handling' = handling /\ toClient' = toClient
    BY <1>8, <2>1 DEF Shapes, Phases
  <2>2. CASE P /\ phase' = [phase EXCEPT ![c] = "payload"] /\ want' = [want EXCEPT ![c] = size]
             /\ handling' = handling /\ toClient' = toClient
    BY <1>3, <1>8, <2>2 DEF Shapes, Phases
  <2>3. CASE calls[n].name = "bad" /\ phase' = [phase EXCEPT ![c] = "header"]
             /\ want' = [want EXCEPT ![c] = HeaderBytes]
             /\ handling' = [handling EXCEPT ![c] = 0] /\ Send(c, 1)
    <3>1. toClient' \in [Conns -> Seq(Byte)] /\ \A b \in Conns \ {c}: toClient'[b] = toClient[b]
      BY <1>3, <2>3, SendProps
    <3>2. 0 \in 0..MaxCalls
      BY WireConstants
    <3> QED  BY <1>8, <2>3, <3>1, <3>2 DEF Shapes, Phases
  <2> QED  BY <1>7, <2>1, <2>2, <2>3
<1>10. Shapes'
  BY <1>1, <1>2, <1>9 DEF Shapes
<1>11. /\ CallsInv' /\ \A b \in Conns \ {c}: SameAt(b)
       /\ \A b: CallsOn(b)' = CallsOn(b)
       /\ \A m: Waiting(m)' <=> Waiting(m)
       /\ Kept(c)
  BY <1>1, <1>2, <1>9, ThreadStepFrame
<1>12. ThreadAt(c)'
  <2>1. (phase[c] = "name" => (Command(c) \in Selections /\ calls[handling[c]].name # "long"))'
    BY <1>9
  <2>2. ((phase[c] \in {"payload", "execute"} /\ Command(c) \notin Selections) => active[c] # 0)'
    BY <1>1, <1>4, <1>5, <1>9 DEF Command
  <2> QED  BY <1>1, <1>2, <1>9, <1>11, <2>1, <2>2 DEF ThreadInv, ThreadAt, Handling
<1>13. ASSUME ~Spoilt(c)
       PROVE  phase'[c] = "payload" /\ ~Answered(n) /\ Position(c, n)'
  <2>1. Position(c, n) /\ ~Answered(n)
    BY <1>3, <1>13
  <2>2. /\ ~Executed(c, n) /\ Reads(toServer[c], FrameOf(c, n), HeaderBytes)
        /\ want[c] = NameLength("good") /\ toClient[c] = <<>>
    BY <1>1, <2>1 DEF Position
  <2>3. /\ FrameOf(c, n) \in Seq(Byte)
        /\ Len(FrameOf(c, n)) = HeaderBytes + Rest(k, calls[n].name, ends[c])
    BY <1>3, <1>4, FrameOfProps
  <2>4. P /\ Reads(toServer'[c], FrameOf(c, n), HeaderBytes + NameLength("good"))
    BY <1>2, <1>3, <2>2, InPlaceWhenReads DEF P, HeaderBytes
  <2>5. calls[n].name = "good"
    <3>1. calls[n].name # "bad"
      BY <1>13 DEF Spoilt
    <3>2. calls[n].name # "none"
      BY <1>3, <1>4, <1>5 DEF CallsInv
    <3>3. calls[n].name \in Names \cup {"none"}
      BY <1>3 DEF Call
    <3> QED  BY <1>5, <3>1, <3>2, <3>3, WireConstants
  <2>6. phase'[c] = "payload"
    BY <1>9, <2>4, <2>5
  <2>7. Before(n) = HeaderBytes + NameLength("good")
    BY <1>4, <1>5 DEF Before
  <2>8. ends[c].kind = "reference"
    <3>1. ends[c].kind # "sdk"
      BY <1>13 DEF Spoilt
    <3>2. ends[c].kind \in Kinds
      BY <1>1 DEF ThreadInv, ThreadAt
    <3> QED  BY <3>1, <3>2, WireConstants
  <2>9. size = Len(FrameOf(c, n)) - Before(n)
    <3>1. NameLength("good") = 1
      BY NameLengthProps
    <3>2. Rest(k, calls[n].name, ends[c]) = 1 + 4 + 4 + (IF k = "CREATE_HNSW_DB" THEN 3 ELSE 0)
      BY <1>5, <2>5, <2>8, <3>1 DEF Rest
    <3> QED  BY <2>3, <2>7, <3>1, <3>2 DEF size, HeaderBytes
  <2>10. /\ FrameOf(c, n)' = FrameOf(c, n) /\ Before(n)' = Before(n) /\ AnswerTo(n)' = AnswerTo(n)
         /\ Executed(c, n)' <=> Executed(c, n)
    BY <1>1, <1>11, FrameKept, ExecutedSame
  <2>11. Position(c, n)'
    BY <1>9, <1>11, <2>1, <2>2, <2>4, <2>6, <2>7, <2>9, <2>10 DEF Position, Handling
  <2> QED  BY <2>1, <2>6, <2>11
<1>14. ASSUME ~Spoilt(c), NEW m \in CallsOn(c), ~Answered(m) PROVE m = n
  BY <1>14, <1>13, OneOpenCall, LenProperties DEF CallsOn, Shapes
<1>15. StreamAt(c)'
  BY <1>1, <1>11, <1>13, <1>14, StreamStep DEF StreamInv
<1> QED  BY <1>10, <1>11, <1>12, <1>15, OneConnection

LEMMA ReadPayloadStep ==
    ASSUME IndInv, NEW c \in Conns, ReadPayload(c)
    PROVE  IndInv'
<1> USE DEF IndInv
<1>1. /\ phase[c] = "payload" /\ Take(c)
      /\ UNCHANGED <<calls, current, ends, toClient, handling, active, differs, executed, db>>
  BY DEF ReadPayload
<1>2. /\ want[c] \in 0..Len(toServer[c])
      /\ toServer[c] \in Seq(Byte) /\ Len(toServer[c]) \in Nat
      /\ toServer'[c] = After(toServer[c], want[c])
      /\ toServer' \in [Conns -> Seq(Byte)]
      /\ \A b \in Conns \ {c}: toServer'[b] = toServer[b]
      /\ (\A i \in 1..Len(toServer[c]): toServer[c][i][1] \in CallsOn(c))
           => \A i \in 1..Len(toServer'[c]): toServer'[c][i][1] \in CallsOn(c)
  BY <1>1, TakeProps
<1>3. PICK n \in CallsOn(c): /\ handling[c] = n /\ n \in DOMAIN calls /\ n \in 1..MaxCalls
                             /\ calls[n] \in Call
                             /\ ~Spoilt(c) => (~Answered(n) /\ Position(c, n))
  BY <1>1, HandlingProps DEF Handling
<1> DEFINE P == InPlace(c, n, Before(n))
<1>4. /\ phase' = [phase EXCEPT ![c] = IF P THEN "execute" ELSE "astray"]
      /\ want' = [want EXCEPT ![c] = 0]
  BY <1>3 DEF ReadPayload, Goto, Before, Command
<1> HIDE DEF P
<1>5. /\ phase'[c] = IF P THEN "execute" ELSE "astray"
      /\ phase' \in [Conns -> Phases] /\ want' \in [Conns -> Wants]
      /\ \A b \in Conns \ {c}: phase'[b] = phase[b] /\ want'[b] = want[b]
  BY <1>4 DEF Shapes, Phases, Wants
<1>6. Shapes'
  BY <1>1, <1>2, <1>5 DEF Shapes
<1>7. /\ CallsInv' /\ \A b \in Conns \ {c}: SameAt(b)
      /\ \A b: CallsOn(b)' = CallsOn(b)
      /\ \A m: Waiting(m)' <=> Waiting(m)
      /\ Kept(c)
  BY <1>1, <1>2, <1>5, ThreadStepFrame
<1>8. ThreadAt(c)'
  BY <1>1, <1>2, <1>5, <1>7 DEF ThreadInv, ThreadAt, Handling, Command
<1>9. ASSUME ~Spoilt(c)
      PROVE  phase'[c] = "execute" /\ ~Answered(n) /\ Position(c, n)'
  <2>1. Position(c, n) /\ ~Answered(n)
    BY <1>3, <1>9
  <2>2. /\ ~Executed(c, n) /\ Reads(toServer[c], FrameOf(c, n), Before(n))
        /\ want[c] = Len(FrameOf(c, n)) - Before(n) /\ toClient[c] = <<>>
    BY <1>1, <2>1 DEF Position
  <2>3. Before(n) \in Nat
    BY NameLengthProps DEF Before, HeaderBytes
  <2>4. P
    BY <1>2, <1>3, <2>2, <2>3, InPlaceWhenReads DEF P
  <2>5. want[c] = Len(toServer[c])
    <3>1. FrameOf(c, n) \in Seq(Byte) /\ Len(FrameOf(c, n)) \in Nat
      BY <1>3, FrameOfProps, LenProperties
    <3> QED  BY <1>2, <2>2, <2>3, <3>1 DEF Reads
  <2>6. toServer'[c] = <<>>
    BY <1>2, <2>5, AfterAll
  <2>7. /\ AnswerTo(n)' = AnswerTo(n)
        /\ Executed(c, n)' <=> Executed(c, n)
    BY <1>1, <1>7, FrameKept, ExecutedSame
  <2>8. Position(c, n)'
    BY <1>1, <1>3, <1>5, <1>7, <2>1, <2>2, <2>4, <2>6, <2>7 DEF Position, Handling
  <2> QED  BY <1>5, <2>1, <2>4, <2>8
<1>10. ASSUME ~Spoilt(c), NEW m \in CallsOn(c), ~Answered(m) PROVE m = n
  BY <1>10, <1>9, OneOpenCall, LenProperties DEF CallsOn, Shapes
<1>11. StreamAt(c)'
  BY <1>1, <1>7, <1>9, <1>10, StreamStep DEF StreamInv
<1> QED  BY <1>6, <1>7, <1>8, <1>11, OneConnection

LEMMA AnswerStep ==
    ASSUME IndInv, NEW c \in Conns, Answer(c)
    PROVE  IndInv'
<1> USE DEF IndInv
<1>1. /\ phase[c] = "answer"
      /\ phase' = [phase EXCEPT ![c] = "header"] /\ want' = [want EXCEPT ![c] = HeaderBytes]
      /\ handling' = [handling EXCEPT ![c] = 0]
      /\ Send(c, ReplyBytes(Command(c)))
      /\ UNCHANGED <<calls, current, ends, toServer, active, differs, executed, db>>
  BY DEF Answer, ToHeader, Goto
<1>2. PICK n \in CallsOn(c): /\ handling[c] = n /\ n \in DOMAIN calls /\ n \in 1..MaxCalls
                             /\ calls[n] \in Call
                             /\ ~Spoilt(c) => (~Answered(n) /\ Position(c, n))
  BY <1>1, HandlingProps DEF Handling
<1>3. ReplyBytes(Command(c)) \in Nat /\ ReplyBytes(Command(c)) = ReplyBytes(calls[n].cmd)
  BY <1>2, ReplyBytesProps DEF Command
<1>4. /\ toClient' \in [Conns -> Seq(Byte)]
      /\ \A b \in Conns \ {c}: toClient'[b] = toClient[b]
      /\ toClient[c] = <<>> => toClient'[c] \in {<<>>, AnswerTo(n)}
  BY <1>1, <1>2, <1>3, SendProps DEF AnswerTo
<1>5. /\ phase'[c] = "header" /\ want'[c] = HeaderBytes /\ handling'[c] = 0
      /\ \A b \in Conns \ {c}: phase'[b] = phase[b] /\ want'[b] = want[b] /\ handling'[b] = handling[b]
  BY <1>1 DEF Shapes
<1>6. Shapes'
  <2>1. 0 \in 0..MaxCalls
    BY WireConstants
  <2> QED  BY <1>1, <1>4, <2>1 DEF Shapes, Phases, Wants
<1>7. /\ CallsInv' /\ \A b \in Conns \ {c}: SameAt(b)
      /\ \A b: CallsOn(b)' = CallsOn(b)
      /\ \A m: Waiting(m)' <=> Waiting(m)
      /\ Kept(c)
  BY <1>1, <1>4, <1>5, ThreadStepFrame
<1>8. ThreadAt(c)'
  BY <1>1, <1>5, <1>7 DEF ThreadInv, ThreadAt, Handling
<1>9. ASSUME ~Spoilt(c)
      PROVE  ~Answered(n) /\ Position(c, n)'
  <2>1. Position(c, n) /\ ~Answered(n)
    BY <1>2, <1>9
  <2>2. Executed(c, n) /\ toServer[c] = <<>> /\ toClient[c] = <<>>
    BY <1>1, <2>1 DEF Position
  <2>3. /\ AnswerTo(n)' = AnswerTo(n)
        /\ Executed(c, n)' <=> Executed(c, n)
    BY <1>1, <1>7, FrameKept, ExecutedSame
  <2>4. Position(c, n)'
    BY <1>1, <1>4, <1>5, <2>2, <2>3 DEF Position, Handling
  <2> QED  BY <2>1, <2>4
<1>10. ASSUME ~Spoilt(c), NEW m \in CallsOn(c), ~Answered(m) PROVE m = n
  BY <1>10, <1>9, OneOpenCall, LenProperties DEF CallsOn, Shapes
<1>11. StreamAt(c)'
  BY <1>1, <1>5, <1>7, <1>9, <1>10, StreamStep DEF StreamInv
<1> QED  BY <1>6, <1>7, <1>8, <1>11, OneConnection

LEMMA ExecuteStep ==
    ASSUME IndInv, NEW c \in Conns, Execute(c)
    PROVE  IndInv'
<1> USE DEF IndInv
<1>1. /\ phase[c] = "execute"
      /\ phase' = [phase EXCEPT ![c] = "answer"] /\ want' = [want EXCEPT ![c] = 0]
      /\ executed' = [executed EXCEPT ![c] = Append(@, handling[c])]
      /\ UNCHANGED <<calls, current, ends, toServer, toClient, handling>>
      /\ Select(c) \/ Drop(c) \/ UNCHANGED <<db, active, differs>>
  BY DEF Execute, Goto
<1>2. PICK n \in CallsOn(c): /\ handling[c] = n /\ n \in DOMAIN calls /\ n \in 1..MaxCalls
                             /\ calls[n] \in Call
                             /\ ~Spoilt(c) => (~Answered(n) /\ Position(c, n))
  BY <1>1, HandlingProps DEF Handling
<1>3. executed[c] \in Seq(1..MaxCalls) /\ Len(executed[c]) \in Nat /\ DOMAIN executed[c] = 1..Len(executed[c])
  BY LenProperties DEF Shapes
<1>4. /\ executed'[c] = Append(executed[c], n)
      /\ \A b \in Conns \ {c}: executed'[b] = executed[b]
  BY <1>1, <1>2 DEF Shapes
<1>5. /\ Append(executed[c], n) \in Seq(1..MaxCalls)
      /\ Len(Append(executed[c], n)) = Len(executed[c]) + 1
      /\ \A i \in 1..Len(executed[c]): Append(executed[c], n)[i] = executed[c][i]
      /\ Append(executed[c], n)[Len(executed[c]) + 1] = n
  BY <1>2, <1>3, AppendProperties
<1>6. DOMAIN executed'[c] = 1..(Len(executed[c]) + 1)
  BY <1>4, <1>5, LenProperties
<1>7. /\ db' \in Dims \cup {0}
      /\ active' \in [Conns -> Dims \cup {0}] /\ differs' \in [Conns -> BOOLEAN]
      /\ \A b \in Conns \ {c}: active'[b] = active[b] /\ differs'[b] = differs[b]
      /\ differs[c] => differs'[c]
      /\ ~differs'[c] => active'[c] \in {0, ends[c].dim}
  <2>1. ends[c].dim \in Dims \cup {0}
    BY DEF Shapes, End
  <2>2. CASE Select(c)
    <3>1. db' \in Dims \cup {0}
      BY <2>1, <2>2 DEF Select, Shapes
    <3>2. PICK d \in Dims \cup {0}: d = db'
      BY <3>1
    <3>3. /\ active' = [active EXCEPT ![c] = d]
          /\ differs' = [differs EXCEPT ![c] = @ \/ ends[c].dim # d]
      BY <2>2, <3>2 DEF Select
    <3>4. active' \in [Conns -> Dims \cup {0}] /\ active'[c] = d
          /\ \A b \in Conns \ {c}: active'[b] = active[b]
      BY <3>2, <3>3 DEF Shapes
    <3>5. differs' \in [Conns -> BOOLEAN] /\ (differs'[c] <=> (differs[c] \/ ends[c].dim # d))
          /\ \A b \in Conns \ {c}: differs'[b] = differs[b]
      BY <3>3 DEF Shapes
    <3> QED  BY <3>1, <3>4, <3>5
  <2>3. CASE Drop(c)
    BY <2>3 DEF Drop, Shapes
  <2>4. CASE UNCHANGED <<db, active, differs>>
    BY <2>4 DEF Shapes, ThreadInv, ThreadAt
  <2> QED  BY <1>1, <2>2, <2>3, <2>4
<1>8. /\ phase'[c] = "answer"
      /\ \A b \in Conns \ {c}: phase'[b] = phase[b] /\ want'[b] = want[b]
  BY <1>1 DEF Shapes
<1>9. Shapes'
  <2>1. executed' \in [Conns -> Seq(1..MaxCalls)]
    BY <1>1, <1>2, <1>5 DEF Shapes
  <2> QED  BY <1>1, <1>7, <2>1 DEF Shapes, Phases, Wants
<1>10. /\ CallsInv' /\ \A b \in Conns \ {c}: SameAt(b)
       /\ \A b: CallsOn(b)' = CallsOn(b)
       /\ \A m: Waiting(m)' <=> Waiting(m)
       /\ Kept(c)
  BY <1>1, <1>4, <1>7, <1>8, ThreadStepFrame
<1>11. ThreadAt(c)'
  BY <1>1, <1>2, <1>7, <1>8, <1>10 DEF ThreadInv, ThreadAt, Handling
<1>12. ASSUME ~Spoilt(c)'
       PROVE  (/\ phase[c] # "astray"
               /\ InOrder(c)
               /\ \A m \in CallsOn(c): Answered(m) => (calls[m].got = {m} /\ Executed(c, m))
               /\ (\A m \in CallsOn(c): Answered(m)) => Quiet(c)
               /\ \A m \in CallsOn(c): ~Answered(m) => Position(c, m))'
  <2>1. ~Spoilt(c)
    BY <1>10, <1>12, SpoiltKept
  <2>2. Position(c, n) /\ ~Answered(n)
    BY <1>2, <2>1
  <2>3. ~Executed(c, n) /\ toServer[c] = <<>> /\ toClient[c] = <<>>
    BY <1>1, <2>2 DEF Position
  <2>4. \A m \in CallsOn(c): m <= n /\ (m < n => Answered(m))
    BY <2>1, <2>2, OneOpenCall
  <2>5. \A m: Executed(c, m)' <=> (Executed(c, m) \/ m = n)
    BY <1>3, <1>4, <1>5, <1>6 DEF Executed
  <2>6. \A m \in CallsOn(c): m < n <=> Executed(c, m)
    <3>1. ASSUME NEW m \in CallsOn(c), m < n PROVE Executed(c, m)
      BY <2>1, <2>4, <3>1 DEF StreamInv, StreamAt
    <3>2. ASSUME NEW m \in CallsOn(c), Executed(c, m) PROVE m < n
      <4>1. m # n /\ m <= n
        BY <2>3, <2>4, <3>2
      <4>2. m \in Nat /\ n \in Nat
        BY <1>2, LenProperties DEF CallsOn, Shapes
      <4> QED  BY <4>1, <4>2
    <3> QED  BY <3>1, <3>2
  <2>7. InOrder(c)'
    <3>1. InOrder(c)
      BY <2>1 DEF StreamInv, StreamAt
    <3> SUFFICES ASSUME NEW i \in 1..(Len(executed[c]) + 1)
                 PROVE  /\ executed'[c][i] \in CallsOn(c)
                        /\ \A m \in CallsOn(c):
                             m < executed'[c][i] <=> \E j \in 1..(i - 1): executed'[c][j] = m
      BY <1>6, <1>10 DEF InOrder
    <3>2. CASE i \in 1..Len(executed[c])
      <4>1. executed'[c][i] = executed[c][i] /\ \A j \in 1..(i - 1): executed'[c][j] = executed[c][j]
        BY <1>3, <1>4, <1>5, <3>2
      <4> QED  BY <1>3, <3>1, <3>2, <4>1 DEF InOrder
    <3>3. CASE i = Len(executed[c]) + 1
      <4>1. executed'[c][i] = n
        BY <1>4, <1>5, <3>3
      <4>2. i - 1 = Len(executed[c])
        BY <1>3, <3>3
      <4>3. \A m: (\E j \in 1..(i - 1): executed'[c][j] = m) <=> Executed(c, m)
        BY <1>3, <1>4, <1>5, <4>2 DEF Executed
      <4> QED  BY <1>2, <2>6, <4>1, <4>3
    <3> QED  BY <1>3, <3>2, <3>3
  <2>8. \A m: Answered(m)' <=> Answered(m)
    BY <1>1 DEF Answered
  <2>9. (\A m \in CallsOn(c): Answered(m) => (calls[m].got = {m} /\ Executed(c, m)))'
    BY <1>1, <1>10, <2>1, <2>5, <2>8 DEF StreamInv, StreamAt
  <2>10. ~(\A m \in CallsOn(c): Answered(m))'
    BY <1>10, <2>2, <2>8
  <2>11. AnswerTo(n)' = AnswerTo(n)
    BY <1>10, FrameKept
  <2>12. Position(c, n)'
    BY <1>1, <1>2, <1>8, <2>3, <2>5, <2>11 DEF Position, Handling
  <2>13. \A m \in CallsOn(c): ~Answered(m) => m = n
    <3>1. \A m \in CallsOn(c): m \in Nat
      BY LenProperties DEF CallsOn, Shapes
    <3> QED  BY <2>4, <3>1
  <2> QED  BY <1>8, <1>10, <2>7, <2>8, <2>9, <2>10, <2>12, <2>13
<1>13. StreamAt(c)'
  BY <1>12 DEF StreamAt
<1> QED  BY <1>9, <1>10, <1>11, <1>13, OneConnection

(* A call that waited is answered, or fails.                               *)
LEMMA CallEndsFrame ==
    ASSUME IndInv, NEW c \in Conns, NEW n \in CallsOn(c), Waiting(n),
           NEW o \in {"answered", "failed"}, NEW g \in SUBSET (1..MaxCalls),
           calls' = [calls EXCEPT ![n] = [calls[n] EXCEPT !.outcome = o, !.got = g]],
           NEW rest \in Seq(Byte), toClient' = [toClient EXCEPT ![c] = rest],
           UNCHANGED <<current, ends, toServer>>, UNCHANGED serverVars
    PROVE  /\ Shapes' /\ CallsInv' /\ ThreadAt(c)' /\ Kept(c)
           /\ \A b \in Conns \ {c}: SameAt(b)
           /\ CallsOn(c)' = CallsOn(c)
           /\ \A m \in CallsOn(c) \ {n}: calls'[m] = calls[m]
           /\ calls'[n].outcome = o /\ calls'[n].got = g
           /\ toClient'[c] = rest
<1> USE DEF IndInv
<1> DEFINE new == [calls[n] EXCEPT !.outcome = o, !.got = g]
<1>1. n \in DOMAIN calls /\ calls[n].conn = c
  BY DEF CallsOn
<1>2. calls[n] \in Call
  BY <1>1, LenProperties, ElementOfSeq DEF Shapes
<1>3. /\ new \in Call /\ new.conn = calls[n].conn /\ new.cmd = calls[n].cmd
      /\ new.name = calls[n].name /\ new.outcome = o /\ new.got = g
  BY <1>2 DEF Call
<1>4. calls' = [calls EXCEPT ![n] = new]
  OBVIOUS
<1> HIDE DEF new
<1>5. /\ calls' \in Seq(Call)
      /\ DOMAIN calls' = DOMAIN calls /\ Len(calls') = Len(calls)
      /\ calls'[n] = new
      /\ \A m \in DOMAIN calls: m # n => calls'[m] = calls[m]
      /\ \A b: CallsOn(b)' = CallsOn(b)
  BY <1>1, <1>3, <1>4, CallsUpdate
<1>6. /\ UNCHANGED <<phase, want, handling, active, differs, executed, db>>
      /\ toClient'[c] = rest /\ \A b \in Conns \ {c}: toClient'[b] = toClient[b]
      /\ toClient' \in [Conns -> Seq(Byte)]
  BY DEF serverVars, Shapes
<1>7. Shapes'
  BY <1>5, <1>6 DEF Shapes
<1>8. CallsInv'
  <2>1. ASSUME NEW m \in DOMAIN calls PROVE (Waiting(m)' => m = Len(calls))
                                            /\ (calls'[m].name = "none" <=> calls'[m].cmd \notin Selections)
    BY <1>1, <1>3, <1>5, <2>1 DEF CallsInv, Waiting
  <2> QED  BY <1>5, <1>6, <2>1 DEF CallsInv
<1>9. ASSUME NEW b \in Conns \ {c} PROVE SameAt(b)
  <2>1. ASSUME NEW m \in CallsOn(b) PROVE calls'[m] = calls[m]
    <3>1. m \in DOMAIN calls /\ m # n
      BY <1>1, <2>1 DEF CallsOn
    <3> QED  BY <1>5, <3>1
  <2> QED  BY <1>5, <1>6, <2>1 DEF SameAt
<1>10. \A m \in CallsOn(c) \ {n}: calls'[m] = calls[m]
  BY <1>5 DEF CallsOn
<1>11. \A m \in CallsOn(c): calls'[m].cmd = calls[m].cmd /\ calls'[m].name = calls[m].name
  BY <1>3, <1>5, <1>10
<1>12. Kept(c)
  <2>1. calls[n].outcome # "failed"
    BY DEF Waiting
  <2> QED  BY <1>5, <1>6, <1>10, <1>11, <2>1 DEF Kept
<1>13. ThreadAt(c)'
  <2>1. phase[c] \in Handling => handling[c] \in CallsOn(c)
    BY DEF ThreadInv, ThreadAt
  <2>2. phase[c] \in Handling => /\ calls'[handling[c]].cmd = calls[handling[c]].cmd
                                 /\ calls'[handling[c]].name = calls[handling[c]].name
    BY <1>11, <2>1
  <2>3. phase[c] # "none"
    BY DEF ThreadInv, ThreadAt, Untouched
  <2> QED  BY <1>5, <1>6, <2>1, <2>2, <2>3 DEF ThreadInv, ThreadAt, Handling, Command
<1> QED  BY <1>3, <1>5, <1>6, <1>7, <1>8, <1>9, <1>10, <1>12, <1>13

LEMMA UpdateOfTwoFields ==
    ASSUME NEW n, NEW o, NEW g
    PROVE  [calls EXCEPT ![n].outcome = o, ![n].got = g]
             = [calls EXCEPT ![n] = [calls[n] EXCEPT !.outcome = o, !.got = g]]
  OBVIOUS

LEMMA ReceiveStep ==
    ASSUME IndInv, NEW c \in Conns, Receive(c)
    PROVE  IndInv'
<1> USE DEF IndInv
<1>1. PICK n \in DOMAIN calls:
        /\ Waiting(n) /\ calls[n].conn = c
        /\ Len(toClient[c]) >= Expected(calls[n].cmd)
        /\ calls' = [calls EXCEPT ![n].outcome = "answered",
                      ![n].got = {toClient[c][i][1]: i \in 1..Expected(calls[n].cmd)}]
        /\ toClient' = [toClient EXCEPT ![c] = After(@, Expected(calls[n].cmd))]
        /\ UNCHANGED <<current, ends, toServer>> /\ UNCHANGED serverVars
  BY DEF Receive
<1>2. PICK size \in Nat \ {0}: size = Expected(calls[n].cmd) /\ size = ReplyBytes(calls[n].cmd)
  BY ReplyBytesProps
<1>3. toClient[c] \in Seq(Byte) /\ Len(toClient[c]) \in Nat
      /\ \A i \in 1..Len(toClient[c]): toClient[c][i] \in Byte
  BY LenProperties, ElementOfSeq DEF Shapes
<1>4. size \in 0..Len(toClient[c])
  <2>1. Len(toClient[c]) >= size
    BY <1>1, <1>2
  <2> QED  BY <1>3, <2>1
<1>5. PICK g \in SUBSET (1..MaxCalls): g = {toClient[c][i][1]: i \in 1..size}
  <2>1. \A i \in 1..size: toClient[c][i][1] \in 1..MaxCalls
    BY <1>3, <1>4 DEF Byte
  <2> QED  BY <2>1
<1>6. PICK rest \in Seq(Byte): rest = After(toClient[c], size)
  BY <1>3, <1>4, AfterProps
<1>7. /\ n \in CallsOn(c)
      /\ calls' = [calls EXCEPT ![n] = [calls[n] EXCEPT !.outcome = "answered", !.got = g]]
      /\ toClient' = [toClient EXCEPT ![c] = rest]
  <2>1. calls' = [calls EXCEPT ![n].outcome = "answered", ![n].got = g]
    BY <1>1, <1>2, <1>5
  <2>2. toClient' = [toClient EXCEPT ![c] = rest]
    BY <1>1, <1>2, <1>6 DEF Shapes
  <2> QED  BY <1>1, <2>1, <2>2, UpdateOfTwoFields DEF CallsOn
<1>8. /\ Shapes' /\ CallsInv' /\ ThreadAt(c)' /\ Kept(c)
      /\ \A b \in Conns \ {c}: SameAt(b)
      /\ CallsOn(c)' = CallsOn(c)
      /\ \A m \in CallsOn(c) \ {n}: calls'[m] = calls[m]
      /\ calls'[n].outcome = "answered" /\ calls'[n].got = g
      /\ toClient'[c] = rest
  <2>1. Waiting(n) /\ UNCHANGED <<current, ends, toServer>> /\ UNCHANGED serverVars
    BY <1>1
  <2>2. "answered" \in {"answered", "failed"}
    OBVIOUS
  <2> HIDE DEF IndInv
  <2> QED  BY <1>7, <2>1, <2>2, CallEndsFrame, Zenon
<1>9. /\ phase'[c] = phase[c] /\ executed'[c] = executed[c] /\ toServer'[c] = toServer[c]
  BY <1>1 DEF serverVars
<1>10. ASSUME ~Spoilt(c)'
       PROVE  (/\ phase[c] # "astray"
               /\ InOrder(c)
               /\ \A m \in CallsOn(c): Answered(m) => (calls[m].got = {m} /\ Executed(c, m))
               /\ (\A m \in CallsOn(c): Answered(m)) => Quiet(c)
               /\ \A m \in CallsOn(c): ~Answered(m) => Position(c, m))'
  <2>1. ~Spoilt(c)
    BY <1>8, <1>10, SpoiltKept
  <2>2. ~Answered(n) /\ Position(c, n)
    BY <1>1, <1>7, <2>1 DEF StreamInv, StreamAt, Waiting, Answered
  <2>3. toClient[c] = AnswerTo(n) /\ toClient[c] # <<>>
    <3>1. toClient[c] # <<>>
      BY <1>2, <1>4, EmptySeq
    <3> QED  BY <1>1, <2>2, <3>1 DEF Position
  <2>4. n \in 1..MaxCalls
    BY FrameOfProps
  <2>5. /\ Len(toClient[c]) = size
        /\ \A i \in 1..size: toClient[c][i] = <<n, "answer", i>>
    <3>1. toClient[c] = Bytes(n, "answer", size) /\ "answer" \in Parts /\ size \in Nat
      BY <1>2, <2>3 DEF AnswerTo, Parts
    <3> QED  BY <2>4, <3>1, BytesProps
  <2>6. g = {n}
    BY <1>2, <1>5, <2>5
  <2>7. rest = <<>>
    BY <1>3, <1>6, <2>5, AfterAll
  <2>8. Executed(c, n) /\ phase[c] \in {"header", "gone"}
        /\ (phase[c] = "header" => toServer[c] = <<>>)
    BY <2>2, <2>3 DEF Position, Handling
  <2>9. InOrder(c)'
    <3>1. InOrder(c)
      BY <2>1 DEF StreamInv, StreamAt
    <3> QED  BY <1>8, <1>9, <3>1 DEF InOrder
  <2>10. ASSUME NEW m \in CallsOn(c)
         PROVE  Answered(m)' /\ calls'[m].got = {m} /\ Executed(c, m)'
    <3>1. CASE m = n
      BY <1>8, <1>9, <2>6, <2>8, <3>1, ExecutedSame DEF Answered
    <3>2. CASE m # n
      <4>1. m \in DOMAIN calls /\ m \in Nat /\ n \in Nat
        BY <2>4, LenProperties DEF CallsOn, Shapes
      <4>2. m < n
        <5>1. m <= n
          BY <1>7, <2>1, <2>2, OneOpenCall
        <5> QED  BY <3>2, <4>1, <5>1
      <4>3. Answered(m)
        BY <1>7, <2>1, <2>2, <4>2, OneOpenCall
      <4>4. calls[m].got = {m} /\ Executed(c, m)
        BY <2>1, <4>3 DEF StreamInv, StreamAt
      <4> QED  BY <1>8, <1>9, <3>2, <4>3, <4>4, ExecutedSame DEF Answered
    <3> QED  BY <3>1, <3>2
  <2>11. Quiet(c)'
    BY <1>8, <1>9, <2>7, <2>8 DEF Quiet
  <2> QED  BY <1>8, <1>9, <2>8, <2>9, <2>10, <2>11
<1>11. StreamAt(c)'
  BY <1>10 DEF StreamAt
<1> QED  BY <1>8, <1>11, OneConnection

LEMMA CallFailsStep ==
    ASSUME IndInv, NEW c \in Conns, NEW n \in DOMAIN calls, CallFails(c, n)
    PROVE  IndInv'
<1> USE DEF IndInv
<1>1. /\ Waiting(n) /\ calls[n].conn = c
      /\ calls' = [calls EXCEPT ![n].outcome = "failed"]
      /\ UNCHANGED <<current, ends, toServer>> /\ UNCHANGED serverVars
  BY DEF CallFails
<1>2. toClient[c] \in Seq(Byte) /\ Len(toClient[c]) \in Nat /\ calls[n] \in Call
  BY LenProperties, ElementOfSeq DEF Shapes
<1>3. PICK taken \in 0..Len(toClient[c]): toClient' = [toClient EXCEPT ![c] = After(@, taken)]
  BY DEF CallFails
<1>4. PICK rest \in Seq(Byte): rest = After(toClient[c], taken)
  BY <1>2, AfterProps
<1>5. PICK g \in SUBSET (1..MaxCalls): g = calls[n].got
  BY <1>2 DEF Call
<1>6. /\ n \in CallsOn(c)
      /\ calls' = [calls EXCEPT ![n] = [calls[n] EXCEPT !.outcome = "failed", !.got = g]]
      /\ toClient' = [toClient EXCEPT ![c] = rest]
  <2>1. [calls[n] EXCEPT !.outcome = "failed", !.got = g] = [calls[n] EXCEPT !.outcome = "failed"]
    BY <1>2, <1>5 DEF Call
  <2>2. calls' = [calls EXCEPT ![n] = [calls[n] EXCEPT !.outcome = "failed"]]
    BY <1>1
  <2>3. toClient' = [toClient EXCEPT ![c] = rest]
    BY <1>3, <1>4 DEF Shapes
  <2> QED  BY <1>1, <2>1, <2>2, <2>3 DEF CallsOn
<1>7. /\ Shapes' /\ CallsInv' /\ ThreadAt(c)' /\ Kept(c)
      /\ \A b \in Conns \ {c}: SameAt(b)
      /\ CallsOn(c)' = CallsOn(c)
      /\ \A m \in CallsOn(c) \ {n}: calls'[m] = calls[m]
      /\ calls'[n].outcome = "failed" /\ calls'[n].got = g
      /\ toClient'[c] = rest
  <2>1. Waiting(n) /\ UNCHANGED <<current, ends, toServer>> /\ UNCHANGED serverVars
    BY <1>1
  <2>2. "failed" \in {"answered", "failed"}
    OBVIOUS
  <2> HIDE DEF IndInv
  <2> QED  BY <1>6, <2>1, <2>2, CallEndsFrame, Zenon
<1>8. /\ phase'[c] = phase[c] /\ executed'[c] = executed[c] /\ toServer'[c] = toServer[c]
      /\ handling'[c] = handling[c] /\ want'[c] = want[c]
  BY <1>1 DEF serverVars
<1>9. ASSUME toClient[c] = <<>> PROVE rest = <<>>
  <2>1. Len(toClient[c]) = 0
    BY <1>9, EmptySeq
  <2>2. taken = Len(toClient[c])
    BY <1>3, <2>1
  <2> QED  BY <1>2, <1>4, <2>2, AfterAll
<1>10. ASSUME ~Spoilt(c)'
       PROVE  (/\ phase[c] # "astray"
               /\ InOrder(c)
               /\ \A m \in CallsOn(c): Answered(m) => (calls[m].got = {m} /\ Executed(c, m))
               /\ (\A m \in CallsOn(c): Answered(m)) => Quiet(c)
               /\ \A m \in CallsOn(c): ~Answered(m) => Position(c, m))'
  <2>1. ~Spoilt(c)
    BY <1>7, <1>10, SpoiltKept
  <2>2. ~Answered(n) /\ Position(c, n) /\ ~Answered(n)' /\ ~Waiting(n)'
    BY <1>1, <1>6, <1>7, <2>1 DEF StreamInv, StreamAt, Waiting, Answered
  <2>3. InOrder(c)'
    <3>1. InOrder(c)
      BY <2>1 DEF StreamInv, StreamAt
    <3> QED  BY <1>7, <1>8, <3>1 DEF InOrder
  <2>4. Position(c, n)'
    <3>1. /\ FrameOf(c, n)' = FrameOf(c, n) /\ Before(n)' = Before(n)
          /\ Executed(c, n)' <=> Executed(c, n)
      BY <1>6, <1>7, <1>8, FrameKept, ExecutedSame
    <3> QED  BY <1>7, <1>8, <1>9, <2>2, <3>1 DEF Position
  <2>5. ASSUME NEW m \in CallsOn(c), m # n
        PROVE  Answered(m)' /\ calls'[m].got = {m} /\ Executed(c, m)'
    <3>1. m \in DOMAIN calls /\ m \in Nat /\ n \in Nat
      BY LenProperties DEF CallsOn, Shapes
    <3>2. m < n
      <4>1. m <= n
        BY <1>6, <2>1, <2>2, OneOpenCall
      <4> QED  BY <2>5, <3>1, <4>1
    <3>3. Answered(m)
      BY <1>6, <2>1, <2>2, <3>2, OneOpenCall
    <3>4. calls[m].got = {m} /\ Executed(c, m)
      BY <2>1, <3>3 DEF StreamInv, StreamAt
    <3> QED  BY <1>7, <1>8, <2>5, <3>3, <3>4, ExecutedSame DEF Answered
  <2>6. phase'[c] # "astray"
    BY <1>8, <2>1 DEF StreamInv, StreamAt
  <2> QED  BY <1>6, <1>7, <2>2, <2>3, <2>4, <2>5, <2>6
<1>11. StreamAt(c)'
  BY <1>10 DEF StreamAt
<1> QED  BY <1>7, <1>11, OneConnection

LEMMA NextCallStep ==
    ASSUME IndInv, NEW c \in Conns, NEW k \in Commands, NEW name \in Names \cup {"none"},
           NextCall(c, k, name)
    PROVE  IndInv'
<1> USE DEF IndInv
<1>1. PICK n \in Nat \ {0}: n = Len(calls) + 1
  BY LenProperties DEF Shapes
<1>2. n \in 1..MaxCalls /\ Len(calls) \in Nat /\ n - 1 = Len(calls) /\ DOMAIN calls = 1..Len(calls)
  BY <1>1, LenProperties, WireConstants DEF NextCall, Shapes
<1>3. /\ current = c /\ Idle /\ (name = "none" <=> k \notin Selections)
      /\ UNCHANGED <<current, ends, toClient>>
      /\ UNCHANGED <<phase, want, handling, active, differs, executed, db>>
  BY DEF NextCall, serverVars
<1> DEFINE frame == Frame(n, k, name, c)
           call(o) == [conn |-> c, cmd |-> k, name |-> name, outcome |-> o, got |-> {}]
<1>4. /\ frame \in Seq(BytesOf(n)) /\ Len(frame) \in Nat
  <2>1. ends[c] \in End
    BY DEF Shapes
  <2>2. ends[c].dim \in Dims \cup {0}
    BY <2>1 DEF End
  <2>3. ends[c].dim \in Nat
    BY <2>2, WireConstants
  <2> QED  BY <1>2, <2>3, FrameProps, LenProperties
<1>5. frame \in Seq(Byte) /\ \A i \in 1..Len(frame): frame[i][1] = n
  BY <1>2, <1>4, BytesOfAreBytes
<1>6. PICK o \in {"waiting", "failed"}: calls' = Append(calls, call(o))
  <2>1. \/ calls' = Append(calls, call("waiting"))
        \/ calls' = Append(calls, [call("waiting") EXCEPT !.outcome = "failed"])
    BY DEF NextCall
  <2>2. [call("waiting") EXCEPT !.outcome = "failed"] = call("failed")
    OBVIOUS
  <2> HIDE DEF call
  <2> QED  BY <2>1, <2>2
<1>7. \E sent \in Seq(Byte):
        /\ toServer' = [toServer EXCEPT ![c] = IF Gone(c) THEN <<>> ELSE @ \o sent]
        /\ \/ sent = frame
           \/ \E cutAt \in 0..Len(frame): sent = First(frame, cutAt)
  <2>1. CASE toServer' = [toServer EXCEPT ![c] = IF Gone(c) THEN <<>> ELSE @ \o frame]
    BY <1>5, <2>1
  <2>2. CASE \E cutAt \in Cuts \cap 0..(Len(frame) - 1):
               toServer' = [toServer EXCEPT ![c] = IF Gone(c) THEN <<>> ELSE @ \o First(frame, cutAt)]
    <3>1. PICK cutAt \in 0..(Len(frame) - 1):
            toServer' = [toServer EXCEPT ![c] = IF Gone(c) THEN <<>> ELSE @ \o First(frame, cutAt)]
      BY <2>2
    <3>2. cutAt \in 0..Len(frame)
      BY <1>4
    <3>3. First(frame, cutAt) \in Seq(Byte)
      <4> HIDE DEF frame
      <4> QED  BY <1>5, <3>2, FirstProps
    <3> QED  BY <3>1, <3>2, <3>3
  <2> QED  BY <1>1, <2>1, <2>2 DEF NextCall
<1> HIDE DEF frame
<1>8. PICK sent \in Seq(Byte):
        /\ toServer' = [toServer EXCEPT ![c] = IF Gone(c) THEN <<>> ELSE @ \o sent]
        /\ \/ sent = frame
           \/ \E cutAt \in 0..Len(frame): sent = First(frame, cutAt)
  BY <1>7
<1>9. /\ Reads(sent, frame, 0) /\ Reads(<<>>, frame, 0)
      /\ Len(sent) \in Nat
      /\ \A i \in 1..Len(sent): sent[i][1] = n
  <2>1. Reads(sent, frame, 0) /\ Reads(<<>>, frame, 0)
    BY <1>4, <1>5, <1>8, ReadsWhole, ReadsNothing
  <2>2. Len(sent) \in Nat
    BY LenProperties
  <2>3. \A i \in 1..Len(sent): i \in 1..Len(frame) /\ sent[i] = frame[i + 0] /\ i + 0 = i
    BY <1>4, <2>1, <2>2 DEF Reads
  <2> QED  BY <1>5, <2>1, <2>2, <2>3
<1>10. call(o) \in Call /\ call(o).conn = c
  BY DEF Call
<1>11. /\ calls' \in Seq(Call) /\ Len(calls') = n
       /\ DOMAIN calls' = 1..n
       /\ calls'[n] = call(o)
       /\ \A m \in DOMAIN calls: calls'[m] = calls[m]
       /\ CallsOn(c)' = CallsOn(c) \cup {n}
       /\ \A b: b # c => CallsOn(b)' = CallsOn(b)
  <2> HIDE DEF call
  <2> QED  BY <1>1, <1>6, <1>10, CallsAppend
<1>12. /\ \A b \in Conns \ {c}: toServer'[b] = toServer[b]
       /\ toServer' \in [Conns -> Seq(Byte)]
       /\ toServer'[c] = IF Gone(c) THEN <<>> ELSE toServer[c] \o sent
  <2>1. (IF Gone(c) THEN <<>> ELSE toServer[c] \o sent) \in Seq(Byte)
    BY EmptySeq, ConcatProperties DEF Shapes
  <2> QED  BY <1>8, <2>1 DEF Shapes
<1>13. Shapes'
  BY <1>3, <1>11, <1>12 DEF Shapes
<1>14. CallsInv'
  <2>1. ASSUME NEW m \in 1..n PROVE (Waiting(m)' => m = n)
                                    /\ (calls'[m].name = "none" <=> calls'[m].cmd \notin Selections)
    <3>1. CASE m = n
      BY <1>3, <1>11, <3>1
    <3>2. CASE m # n
      <4>1. m \in DOMAIN calls /\ calls'[m] = calls[m]
        BY <1>2, <1>11, <3>2
      <4> QED  BY <1>3, <4>1 DEF CallsInv, Waiting, Idle
    <3> QED  BY <3>1, <3>2
  <2>2. n <= MaxCalls
    BY <1>2
  <2> QED  BY <1>3, <1>11, <2>1, <2>2 DEF CallsInv
<1>15. ASSUME NEW b \in Conns \ {c} PROVE SameAt(b)
  BY <1>3, <1>11, <1>12 DEF SameAt, CallsOn
<1>16. Kept(c) /\ \A m \in CallsOn(c): calls'[m] = calls[m]
  BY <1>3, <1>11 DEF Kept, CallsOn
<1>17. phase[c] # "none"
  BY <1>3 DEF CallsInv, Conns
<1>18. ThreadAt(c)'
  <2>1. (\A i \in 1..Len(toServer[c]): toServer[c][i][1] \in CallsOn(c))'
    <3>1. CASE Gone(c)
      BY <1>12, <3>1, EmptySeq
    <3>2. CASE ~Gone(c)
      <4>1. /\ Len(toServer[c] \o sent) = Len(toServer[c]) + Len(sent)
            /\ \A i \in 1..(Len(toServer[c]) + Len(sent)):
                 (toServer[c] \o sent)[i] = IF i <= Len(toServer[c]) THEN toServer[c][i]
                                            ELSE sent[i - Len(toServer[c])]
        BY ConcatProperties DEF Shapes
      <4>2. Len(toServer[c]) \in Nat
        BY LenProperties DEF Shapes
      <4>3. \A i \in 1..Len(toServer[c]): toServer[c][i][1] \in CallsOn(c)
        BY DEF ThreadInv, ThreadAt
      <4>4. ASSUME NEW i \in 1..(Len(toServer[c]) + Len(sent))
            PROVE  (toServer[c] \o sent)[i][1] \in CallsOn(c) \cup {n}
        <5>1. CASE i <= Len(toServer[c])
          <6>1. i \in 1..Len(toServer[c])
            BY <4>2, <5>1
          <6> QED  BY <4>1, <4>3, <5>1, <6>1
        <5>2. CASE ~(i <= Len(toServer[c]))
          <6>1. i - Len(toServer[c]) \in 1..Len(sent)
            BY <1>9, <4>2, <5>2
          <6> QED  BY <1>9, <4>1, <5>2, <6>1
        <5> QED  BY <5>1, <5>2
      <4> QED  BY <1>11, <1>12, <3>2, <4>1, <4>4
    <3> QED  BY <3>1, <3>2
  <2>2. phase[c] \in Handling => handling[c] \in CallsOn(c)
    BY DEF ThreadInv, ThreadAt
  <2>3. phase[c] \in Handling => calls'[handling[c]] = calls[handling[c]]
    BY <1>16, <2>2
  <2>4. /\ (phase[c] \in Handling => handling[c] \in CallsOn(c))'
        /\ (phase[c] = "header" => want[c] = HeaderBytes)'
        /\ (phase[c] = "none" => Untouched(c))'
        /\ (phase[c] # "none" => (ends[c].dim \in Dims /\ ends[c].kind \in Kinds))'
        /\ (~differs[c] => active[c] \in {0, ends[c].dim})'
    BY <1>3, <1>11, <1>17, <2>2 DEF ThreadInv, ThreadAt
  <2>5. (phase[c] = "name" => (Command(c) \in Selections /\ calls[handling[c]].name # "long"))'
    BY <1>3, <2>3 DEF ThreadInv, ThreadAt, Command, Handling
  <2>6. ((phase[c] \in {"payload", "execute"} /\ Command(c) \notin Selections) => active[c] # 0)'
    BY <1>3, <2>3 DEF ThreadInv, ThreadAt, Command, Handling
  <2> QED  BY <2>1, <2>4, <2>5, <2>6 DEF ThreadAt
<1>19. ASSUME ~Spoilt(c)'
       PROVE  (/\ phase[c] # "astray"
               /\ InOrder(c)
               /\ \A m \in CallsOn(c): Answered(m) => (calls[m].got = {m} /\ Executed(c, m))
               /\ (\A m \in CallsOn(c): Answered(m)) => Quiet(c)
               /\ \A m \in CallsOn(c): ~Answered(m) => Position(c, m))'
  <2>1. ~Spoilt(c)
    BY <1>16, <1>19, SpoiltKept
  <2>2. \A m \in CallsOn(c): m \in 1..Len(calls) /\ m < n
    BY <1>1, <1>2 DEF CallsOn
  <2>3. ASSUME NEW m \in CallsOn(c) PROVE Answered(m)
    <3>1. m \in DOMAIN calls
      BY DEF CallsOn
    <3>2. calls[m] \in Call
      BY <1>2, <3>1, ElementOfSeq DEF Shapes
    <3>3. calls[m].outcome \in {"waiting", "answered", "failed"}
      BY <3>2 DEF Call
    <3>4. calls[m].outcome # "waiting"
      BY <1>3, <3>1 DEF Idle, Waiting
    <3>5. calls'[m].outcome # "failed"
      BY <1>11, <1>19, <2>2 DEF Spoilt
    <3> QED  BY <1>16, <3>3, <3>4, <3>5 DEF Answered
  <2>4. Quiet(c) /\ InOrder(c) /\ phase[c] # "astray"
    BY <2>1, <2>3 DEF StreamInv, StreamAt
  <2>5. \A i \in DOMAIN executed[c]: executed[c][i] \in CallsOn(c) /\ executed[c][i] < n /\ executed[c][i] \in Nat
    BY <2>2, <2>4 DEF InOrder
  <2>6. InOrder(c)'
    <3>1. DOMAIN executed[c] = 1..Len(executed[c]) /\ Len(executed[c]) \in Nat
      BY LenProperties DEF Shapes
    <3> SUFFICES ASSUME NEW i \in DOMAIN executed[c]
                 PROVE  /\ executed[c][i] \in CallsOn(c) \cup {n}
                        /\ \A m \in CallsOn(c) \cup {n}:
                             m < executed[c][i] <=> \E j \in 1..(i - 1): executed[c][j] = m
      BY <1>3, <1>11 DEF InOrder
    <3>2. \A m \in CallsOn(c): m < executed[c][i] <=> \E j \in 1..(i - 1): executed[c][j] = m
      BY <2>4 DEF InOrder
    <3>3. ~(n < executed[c][i])
      BY <2>5
    <3>4. ASSUME NEW j \in 1..(i - 1) PROVE executed[c][j] # n
      <4>1. j \in DOMAIN executed[c]
        BY <3>1
      <4> QED  BY <2>5, <4>1
    <3> QED  BY <2>5, <3>2, <3>3, <3>4
  <2>7. ~Executed(c, n)'
    BY <1>3, <2>5 DEF Executed
  <2>8. ASSUME NEW m \in CallsOn(c)
        PROVE  Answered(m)' /\ calls'[m].got = {m} /\ Executed(c, m)'
    <3>1. calls[m].got = {m} /\ Executed(c, m)
      BY <2>1, <2>3 DEF StreamInv, StreamAt
    <3> QED  BY <1>3, <1>16, <2>3, <3>1, ExecutedSame DEF Answered
  <2>9. ~Answered(n)'
    BY <1>11 DEF Answered
  <2>10. Position(c, n)'
    <3>1. FrameOf(c, n)' = frame
      BY <1>3, <1>11 DEF FrameOf, Frame, frame
    <3>2. phase'[c] \in {"header", "gone"} /\ toClient'[c] = <<>>
      BY <1>3, <1>17, <2>4 DEF Quiet
    <3>3. phase[c] = "header" => toServer'[c] \in {<<>>, sent}
      BY <1>12, <2>4, ConcatEmptySeq DEF Quiet
    <3>4. phase'[c] = "header" => Reads(toServer'[c], frame, 0)
      BY <1>3, <1>9, <3>3
    <3> QED  BY <2>7, <3>1, <3>2, <3>4 DEF Position, Handling
  <2> QED  BY <1>3, <1>11, <2>4, <2>6, <2>8, <2>9, <2>10
<1>20. StreamAt(c)'
  BY <1>19 DEF StreamAt
<1> QED  BY <1>13, <1>14, <1>15, <1>18, <1>20, OneConnection

-----------------------------------------------------------------------------
(* Theorems.                                                               *)

LEMMA InitIndInv == Init => IndInv
<1> SUFFICES ASSUME Init PROVE IndInv
  OBVIOUS
<1>1. Shapes
  <2>1. 0 \in 0..MaxCalls
    BY WireConstants
  <2>2. [kind |-> "none", dim |-> 0, closed |-> FALSE, link |-> "down"] \in End
    BY DEF End
  <2>3. <<>> \in Seq(Call) /\ <<>> \in Seq(Byte) /\ <<>> \in Seq(1..MaxCalls)
    BY EmptySeq
  <2> QED  BY <2>1, <2>2, <2>3 DEF Init, Shapes, Phases, Wants
<1>2. Len(calls) = 0 /\ DOMAIN calls = {} /\ \A c: CallsOn(c) = {}
  BY EmptySeq DEF Init, CallsOn
<1>3. CallsInv
  BY <1>2, WireConstants DEF CallsInv, Init
<1>4. ASSUME NEW c \in Conns PROVE ThreadAt(c) /\ StreamAt(c)
  <2>1. /\ phase[c] = "none" /\ toServer[c] = <<>> /\ toClient[c] = <<>> /\ executed[c] = <<>>
        /\ active[c] = 0 /\ ~differs[c]
    BY DEF Init
  <2>2. Len(toServer[c]) = 0
    BY <2>1, EmptySeq
  <2>3. ThreadAt(c)
    BY <1>2, <2>1, <2>2 DEF ThreadAt, Untouched, Handling
  <2>4. InOrder(c)
    BY <2>1, EmptySeq DEF InOrder
  <2> QED  BY <1>2, <2>1, <2>3, <2>4 DEF StreamAt, Quiet
<1> QED  BY <1>1, <1>3, <1>4 DEF IndInv, ThreadInv, StreamInv

LEMMA NextIndInv == IndInv /\ [Next]_vars => IndInv'
<1> SUFFICES ASSUME IndInv, [Next]_vars PROVE IndInv'
  OBVIOUS
<1>1. CASE UNCHANGED vars
  <2>1. Shapes'
    BY <1>1 DEF IndInv, Shapes, vars
  <2>2. CallsInv'
    BY <1>1 DEF IndInv, CallsInv, Waiting, vars
  <2>3. ASSUME NEW c \in Conns PROVE SameAt(c)
    BY <1>1 DEF SameAt, CallsOn, vars
  <2>4. \A c \in Conns: ThreadAt(c)' /\ StreamAt(c)'
    BY <2>3, ThreadSame, StreamSame DEF IndInv, ThreadInv, StreamInv
  <2>5. ThreadInv' /\ StreamInv'
    BY <2>4 DEF ThreadInv, StreamInv, Conns
  <2> QED  BY <2>1, <2>2, <2>5 DEF IndInv
<1>2. CASE Next
  <2>1. PICK c \in Conns:
          \/ Connect(c)
          \/ \E k \in Commands, name \in Names \cup {"none"}: NextCall(c, k, name)
          \/ ClientStep(c) \/ Timeout(c) \/ Close(c) \/ LoseLink(c) \/ ServerStep(c) \/ Throws(c)
    BY <1>2 DEF Next
  <2>2. CASE Connect(c)
    BY <2>2, ConnectStep
  <2>3. CASE \E k \in Commands, name \in Names \cup {"none"}: NextCall(c, k, name)
    BY <2>3, NextCallStep
  <2>4. CASE Receive(c)
    BY <2>4, ReceiveStep
  <2>5. CASE Disconnected(c) \/ Timeout(c)
    BY <2>5, CallFailsStep DEF Disconnected, Timeout
  <2>6. CASE Close(c) \/ LoseLink(c)
    BY <2>6, LoseLinkOrClose
  <2>7. CASE Hangup(c) \/ Throws(c)
    BY <2>7, HangupOrThrows
  <2>8. CASE ReadHeader(c)
    BY <2>8, ReadHeaderStep
  <2>9. CASE ReadName(c)
    BY <2>9, ReadNameStep
  <2>10. CASE ReadPayload(c)
    BY <2>10, ReadPayloadStep
  <2>11. CASE Execute(c)
    BY <2>11, ExecuteStep
  <2>12. CASE Answer(c)
    BY <2>12, AnswerStep
  <2> QED
    BY <2>1, <2>2, <2>3, <2>4, <2>5, <2>6, <2>7, <2>8, <2>9, <2>10, <2>11, <2>12
    DEF ClientStep, ServerStep
<1> QED  BY <1>1, <1>2

(* Both ends of every connection stay where StreamInv says.                *)
THEOREM Invariance == Spec => []IndInv
<1>1. Init => IndInv
  BY InitIndInv
<1>2. IndInv /\ [Next]_vars => IndInv'
  BY NextIndInv
<1> QED  BY <1>1, <1>2, PTL DEF Spec

(* The shapes of calls and threads; one call at a time; a thread waits for *)
(* bytes of a payload only when a database is selected (handle_client).    *)
THEOREM TypeCorrect == Spec => []TypeOK
<1>1. IndInv => TypeOK
  <2> SUFFICES ASSUME IndInv PROVE TypeOK
    OBVIOUS
  <2>1. \A n \in DOMAIN calls: calls[n] \in Call
    BY LenProperties, ElementOfSeq DEF IndInv, Shapes
  <2>2. Len(calls) <= MaxCalls /\ \A n \in DOMAIN calls: Waiting(n) => n = Len(calls)
    BY DEF IndInv, CallsInv
  <2>3. ASSUME NEW c \in Conns
        PROVE  /\ phase[c] \in Phases /\ want[c] \in Wants /\ active[c] \in Dims \cup {0}
               /\ executed[c] \in Seq(1..MaxCalls)
               /\ (phase[c] \in {"payload", "execute"} /\ Command(c) \notin Selections) => (active[c] # 0)
    BY DEF IndInv, Shapes, ThreadInv, ThreadAt
  <2> QED  BY <2>1, <2>2, <2>3 DEF IndInv, Shapes, TypeOK, Phases
<1> QED  BY <1>1, Invariance, PTL

(* recv_all and sendall keep to the frames: until one of the causes is     *)
(* there, the thread of a connection is never astray and executes the      *)
(* calls made on it in their order, each once and none left out.           *)
THEOREM Agreement == Spec => []FramesAgree
<1>1. IndInv => FramesAgree
  BY DEF IndInv, StreamInv, StreamAt, FramesAgree
<1> QED  BY <1>1, Invariance, PTL

(* _recv_ack and _recv_exact return the whole answer to the call that      *)
(* waits, and only after that call was executed.                           *)
THEOREM RightAnswers == Spec => []AnswersMatch
<1>1. IndInv => AnswersMatch
  <2> SUFFICES ASSUME IndInv, NEW n \in DOMAIN calls,
                      calls[n].outcome = "answered", ~Spoilt(calls[n].conn)
               PROVE  calls[n].got = {n} /\ Executed(calls[n].conn, n)
    BY DEF AnswersMatch
  <2>1. calls[n] \in Call
    BY LenProperties, ElementOfSeq DEF IndInv, Shapes
  <2>2. PICK c \in Conns: c = calls[n].conn
    BY <2>1 DEF Call
  <2>3. n \in CallsOn(c) /\ Answered(n) /\ ~Spoilt(c)
    BY <2>2 DEF CallsOn, Answered
  <2> QED  BY <2>2, <2>3 DEF IndInv, StreamInv, StreamAt
<1> QED  BY <1>1, Invariance, PTL

=============================================================================
