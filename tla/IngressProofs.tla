---------------------------- MODULE IngressProofs ----------------------------
(***************************************************************************)
(* Proofs about the ways in.  The local API: the socket, for any clients,   *)
(* requests, lines and limits; the client's bridge to it, for any input,    *)
(* any server and any limit, however the bytes arrive.  Telegram: for any   *)
(* stories, policies, owners and chats, and any number of losses, reloads   *)
(* and crashes.                                                             *)
(***************************************************************************)
EXTENDS LocalApi, Telegram, SequenceTheorems, FiniteSetTheorems, TLAPS

-----------------------------------------------------------------------------
(* The bridge.                                                             *)

Bytes == {"b", "nl"}
Streams == Seq(Bytes)
Directions == [pc : {"read", "write", "eof", "over", "error"}, frame : Streams]

\* What has been written ends with a line.
EndsLine(s) == s = <<>> \/ s[Len(s)] = "nl"

\* Of so many bytes in a row one ends a line.
NoLongLine(s) == \A i \in 1 .. Len(s) : i + MAX_FRAME_BYTES <= Len(s) =>
                    \E j \in i .. i + MAX_FRAME_BYTES : s[j] = "nl"

\* A direction has written part, has a frame in hand and rest before it, of all there was; nothing will
\* be added once its end is closed.
DirBooks(d, part, rest, all, end) ==
    /\ all = (part \o d.frame) \o rest
    /\ EndsLine(part) \/ (end = "closed" /\ d.frame = <<>> /\ rest = <<>>)
    /\ NoLongLine(part)
    /\ d.pc = "read" => Len(d.frame) <= MAX_FRAME_BYTES
    /\ d.pc = "write" =>
          \/ Len(d.frame) <= MAX_FRAME_BYTES + 1 /\ d.frame # <<>> /\ EndsLine(d.frame)
          \/ Len(d.frame) <= MAX_FRAME_BYTES /\ end = "closed" /\ rest = <<>> /\ d.frame # <<>>
    /\ d.pc \in {"eof", "over"} => end = "closed" /\ d.frame = <<>> /\ rest = <<>>

SocketEnd == IF gone THEN "closed" ELSE "open"

BridgeBooks ==
    /\ input \in Streams /\ whole \in Streams /\ wire \in Streams /\ said \in Streams
    /\ heard \in Streams /\ out \in Streams
    /\ up \in Directions /\ down \in Directions
    /\ half \in BOOLEAN /\ gone \in BOOLEAN /\ bridge \in {"both", "drain", "ok", "failed"}
    /\ DirBooks(up, heard, input, whole, "closed")
    /\ DirBooks(down, out, wire, said, SocketEnd)
    /\ half => up.pc = "over"
    /\ bridge = "ok" => down.pc = "eof"

LEMMA StreamsAssociate == \A a, b, c \in Streams : (a \o b) \o c = a \o (b \o c)
  BY ConcatAssociative DEF Streams

\* A piece goes up to the first newline at most.
LEMMA FirstNewlineIs ==
  ASSUME NEW s \in Streams, s # <<>>
  PROVE  FirstNewline(s) \in 1 .. Len(s)
<1> DEFINE I == {i \in 1 .. Len(s) : s[i] = "nl"}
<1>1. CASE "nl" \in ToSet(s)
  <2>1. I # {}
    BY <1>1, LenProperties DEF ToSet, Streams
  <2>2. I \subseteq Nat
    OBVIOUS
  <2>3. PICK m \in I : \A i \in I : m <= i
    <3>1. PICK m \in I : \A i \in I : ~(<<i, m>> \in OpToRel(<, Nat))
      BY <2>1, <2>2, NatLessThanWellFounded, WFMin
    <3>2. \A i \in I : ~(i < m)
      BY <3>1, <2>2 DEF OpToRel
    <3> QED BY <3>2, <2>2
  <2>4. Min(I) \in I
    BY <2>3 DEF Min
  <2> QED BY <1>1, <2>1, <2>4 DEF FirstNewline, SelectInSeq
<1>2. CASE "nl" \notin ToSet(s)
  <2>1. Len(s) \in Nat \ {0}
    BY EmptySeq DEF Streams
  <2> QED BY <1>2, <2>1 DEF FirstNewline
<1> QED BY <1>1, <1>2

\* A read keeps the books, whatever piece of the stream there was.
LEMMA ReadKeeps ==
  ASSUME BridgeAssumption, NEW d \in Directions, NEW part \in Streams, NEW rest \in Streams, NEW all,
         NEW end, NEW n \in Nat,
         DirBooks(d, part, rest, all, end), d.pc = "read",
         n \in 0 .. FirstNewline(rest), n = 0 <=> rest = <<>>,
         NEW r, r = read_bounded_frame(d, rest, end = "closed", rest, n), r.ended
  PROVE  /\ AfterRead(d, rest, r, n) \in Directions /\ r.rest \in Streams
         /\ AfterRead(d, rest, r, n).pc \in {"read", "write", "eof", "error"}
         /\ DirBooks(AfterRead(d, rest, r, n), part, r.rest, all, end)
<1> DEFINE q == AfterRead(d, rest, r, n)
           f == d.frame
           piece == SubSeq(rest, 1, n)
           left == SubSeq(rest, n + 1, Len(rest))
<1>1. f \in Streams /\ Len(f) \in Nat /\ Len(rest) \in Nat /\ MAX_FRAME_BYTES \in Nat
  BY LenProperties DEF Directions, Streams, BridgeAssumption
<1>2. CASE rest = <<>>
  <2>1. r.rest = rest /\ (r.ended => end = "closed") /\ r.next = IF f = <<>> THEN "eof" ELSE "last"
    BY <1>2 DEF read_bounded_frame
  <2>2. q = [pc |-> IF f = <<>> THEN "eof" ELSE "write", frame |-> f]
    BY <2>1 DEF AfterRead
  <2>3. q.frame = f /\ q.pc = IF f = <<>> THEN "eof" ELSE "write"
    BY <2>2
  <2>4. q \in Directions /\ q.pc \in {"read", "write", "eof", "error"}
    BY <1>1, <2>2, <2>3 DEF Directions
  <2>5. DirBooks(q, part, rest, all, end)
    <3> HIDE DEF q
    <3> QED BY <1>1, <1>2, <2>1, <2>3 DEF DirBooks
  <2> QED BY <2>1, <2>4, <2>5
<1>3. CASE rest # <<>>
  <2>1. n \in 1 .. Len(rest)
    BY <1>1, <1>3, FirstNewlineIs
  <2>2. /\ piece \in Streams /\ Len(piece) = n /\ piece[n] = rest[n]
        /\ left \in Streams /\ piece \o left = rest
    <3>1. \A i \in 1 .. Len(rest) : rest[i] \in Bytes
      BY ElementOfSeq DEF Streams
    <3>2. piece \in Streams /\ Len(piece) = n /\ piece[n] = rest[1 + n - 1]
      BY <1>1, <2>1, <3>1, SubSeqProperties DEF Streams
    <3>3. left \in Streams
      BY <1>1, <2>1, <3>1, SubSeqProperties DEF Streams
    <3>4. piece \o left = SubSeq(rest, 1, Len(rest))
      BY <1>1, <2>1, ConcatAdjacentSubSeq DEF Streams
    <3> QED BY <1>1, <2>1, <3>2, <3>3, <3>4, SubSeqFull DEF Streams
  <2>3. f \o piece \in Streams /\ Len(f \o piece) = Len(f) + n
        /\ (f \o piece)[Len(f) + n] = rest[n] /\ f \o piece # <<>>
    <3>1. f \o piece \in Streams /\ Len(f \o piece) = Len(f) + n /\ (f \o piece)[Len(f) + n] = piece[n]
      BY <1>1, <2>1, <2>2, ConcatProperties DEF Streams
    <3>2. f \o piece # <<>>
      BY <1>1, <2>1, <3>1, EmptySeq, SMTT(30) DEF Streams
    <3> QED BY <2>2, <3>1, <3>2
  <2>4. (part \o (f \o piece)) \o left = (part \o f) \o rest
    <3>1. part \o (f \o piece) = (part \o f) \o piece
      BY <1>1, <2>2, StreamsAssociate
    <3>2. part \o f \in Streams
      BY <1>1, ConcatProperties DEF Streams
    <3>3. ((part \o f) \o piece) \o left = (part \o f) \o (piece \o left)
      BY <3>2, <2>2, StreamsAssociate
    <3> QED BY <3>1, <3>3, <2>2
  <2>5. CASE r.next = "error"
    <3>1. r.rest = rest
      BY <1>3, <2>5 DEF read_bounded_frame
    <3>2. q = [pc |-> "error", frame |-> f]
      BY <2>5 DEF AfterRead
    <3>3. q \in Directions /\ q.pc = "error" /\ q.frame = f
      BY <1>1, <3>2 DEF Directions
    <3>4. DirBooks(q, part, rest, all, end)
      <4> HIDE DEF q
      <4> QED BY <3>3 DEF DirBooks
    <3> QED BY <3>1, <3>3, <3>4
  <2>6. CASE r.next # "error"
    <3> DEFINE closes == rest[n] = "nl"
               len == IF closes THEN n - 1 ELSE n
    <3>1. ~(len > MAX_FRAME_BYTES - Len(f)) /\ r.rest = left /\ r.next = IF closes THEN "write" ELSE "read"
      BY <1>3, <2>6 DEF read_bounded_frame
    <3>2. q = [pc |-> IF closes THEN "write" ELSE "read", frame |-> f \o piece]
      BY <3>1 DEF AfterRead
    <3>3. q \in Directions
      <4>1. (IF closes THEN "write" ELSE "read") \in {"write", "read"}
        OBVIOUS
      <4> HIDE DEF closes, piece, q
      <4> QED BY <2>3, <3>2, <4>1 DEF Directions
    <3>4. EndsLine(part)
      BY <1>3 DEF DirBooks
    <3>5. closes => EndsLine(f \o piece) /\ Len(f \o piece) <= MAX_FRAME_BYTES + 1
      <4>1. closes => Len(f) + n <= MAX_FRAME_BYTES + 1
        <5>1. Len(f) \in Nat /\ n \in Nat /\ MAX_FRAME_BYTES \in Nat
          BY <1>1, <2>1
        <5>2. closes => ~(n - 1 > MAX_FRAME_BYTES - Len(f))
          BY <3>1
        <5> HIDE DEF f, closes
        <5> QED BY <5>1, <5>2
      <4>2. closes => (f \o piece)[Len(f \o piece)] = "nl"
        <5> HIDE DEF f, piece
        <5> QED BY <2>3
      <4> HIDE DEF f, piece, closes
      <4> QED BY <2>3, <4>1, <4>2 DEF EndsLine
    <3>6. ~closes => Len(f \o piece) <= MAX_FRAME_BYTES
      BY <1>1, <2>1, <2>3, <3>1
    <3>7. q.frame = f \o piece /\ q.pc = IF closes THEN "write" ELSE "read"
      <4> HIDE DEF q, f, piece, closes
      <4> QED BY <3>2
    <3>8. all = (part \o q.frame) \o left /\ NoLongLine(part)
      BY <2>4, <3>7 DEF DirBooks
    <3>9. DirBooks(q, part, left, all, end)
      <4> HIDE DEF q, f, piece, left
      <4> QED BY <2>3, <3>4, <3>5, <3>6, <3>7, <3>8 DEF DirBooks
    <3> QED BY <2>2, <3>1, <3>3, <3>7, <3>9
  <2> QED BY <2>5, <2>6
<1> QED BY <1>2, <1>3

\* A line that is written is one that was read.
LEMMA WriteKeeps ==
  ASSUME BridgeAssumption, NEW d \in Directions, NEW part \in Streams, NEW rest \in Streams, NEW all,
         NEW end, DirBooks(d, part, rest, all, end), d.pc = "write"
  PROVE  part \o d.frame \in Streams /\ DirBooks(NoLine, part \o d.frame, rest, all, end)
<1> DEFINE f == d.frame
           t == part \o f
           M == MAX_FRAME_BYTES
<1>1. f \in Streams /\ Len(f) \in Nat /\ Len(part) \in Nat /\ M \in Nat
  BY LenProperties DEF Directions, Streams, BridgeAssumption
<1>2. /\ t \in Streams /\ Len(t) = Len(part) + Len(f)
      /\ \A i \in 1 .. Len(part) + Len(f) : t[i] = IF i <= Len(part) THEN part[i] ELSE f[i - Len(part)]
  BY <1>1, ConcatProperties DEF Streams
<1>3. f # <<>> /\ Len(f) >= 1 /\ Len(f) <= M + 1 /\ (Len(f) = M + 1 => EndsLine(f))
      /\ (EndsLine(f) \/ (end = "closed" /\ rest = <<>>)) /\ EndsLine(part)
  BY <1>1, EmptySeq DEF DirBooks, Streams
<1>4. NoLongLine(t)
  <2> SUFFICES ASSUME NEW i \in 1 .. Len(t), i + M <= Len(t)
               PROVE  \E j \in i .. i + M : t[j] = "nl"
    BY DEF NoLongLine
  <2>1. CASE i + M <= Len(part)
    <3>1. i \in 1 .. Len(part)
      BY <1>1, <1>2, <2>1
    <3>2. PICK j \in i .. i + M : part[j] = "nl"
      BY <2>1, <3>1 DEF DirBooks, NoLongLine
    <3>3. t[j] = part[j]
      BY <1>1, <1>2, <2>1, <3>1, <3>2
    <3> QED BY <3>2, <3>3
  <2>2. CASE i <= Len(part) /\ Len(part) < i + M
    <3>1. part[Len(part)] = "nl"
      BY <1>1, <1>2, <1>3, <2>2, EmptySeq DEF EndsLine
    <3>2. t[Len(part)] = "nl" /\ Len(part) \in i .. i + M
      BY <1>1, <1>2, <2>2, <3>1
    <3> QED BY <3>2
  <2>3. CASE Len(part) < i
    <3> HIDE DEF t, f, M
    <3>1. i = Len(part) + 1 /\ i + M = Len(t) /\ Len(f) = M + 1
      <4>1. /\ i \in Int /\ Len(part) \in Int /\ Len(f) \in Int /\ M \in Int
            /\ Len(t) = Len(part) + Len(f) /\ i + M <= Len(t) /\ Len(f) <= M + 1 /\ Len(part) < i
        BY <1>1, <1>2, <1>3, <2>3
      <4> QED BY <4>1
    <3>2. t[Len(t)] = f[Len(f)] /\ f[Len(f)] = "nl"
      BY <1>1, <1>2, <1>3, <3>1 DEF EndsLine
    <3> QED BY <1>1, <3>1, <3>2
  <2> QED BY <1>1, <1>2, <2>1, <2>2, <2>3, SMTT(30)
<1>5. EndsLine(f) => EndsLine(t)
  <2>1. t[Len(t)] = f[Len(f)]
    BY <1>1, <1>2, <1>3
  <2> QED BY <1>3, <2>1 DEF EndsLine
<1>6. t \o <<>> = t
  BY <1>2, ConcatEmptySeq DEF Streams
<1>7. NoLine.pc = "read" /\ NoLine.frame = <<>> /\ Len(<<>>) = 0
  BY DEF NoLine
<1> QED BY <1>1, <1>2, <1>3, <1>4, <1>5, <1>6, <1>7 DEF DirBooks

\* The bridge begins with nothing written.
LEMMA BridgeBegins ==
  ASSUME BridgeAssumption, BridgeInit
  PROVE  BridgeBooks
<1>1. <<>> \in Streams /\ Len(<<>>) = 0
  BY EmptySeq DEF Streams
<1>2. whole \in Streams /\ input = whole
  BY DEF BridgeAssumption, BridgeInit, Streams, Bytes
<1>3. NoLine \in Directions /\ NoLine.pc = "read" /\ NoLine.frame = <<>>
  BY <1>1 DEF NoLine, Directions
<1>4. <<>> \o <<>> = <<>> /\ <<>> \o whole = whole
  BY <1>1, <1>2, ConcatEmptySeq DEF Streams
<1>5. NoLongLine(<<>>) /\ EndsLine(<<>>)
  BY <1>1 DEF NoLongLine, EndsLine
<1>6. DirBooks(NoLine, <<>>, whole, whole, "closed") /\ DirBooks(NoLine, <<>>, <<>>, <<>>, "open")
  BY <1>1, <1>3, <1>4, <1>5 DEF DirBooks, BridgeAssumption
<1> QED BY <1>1, <1>2, <1>3, <1>6 DEF BridgeInit, BridgeBooks, SocketEnd

\* What a direction's last step may change: it is over, or nothing more is written.
LEMMA DirOver ==
  ASSUME NEW d \in Directions, NEW part, NEW rest, NEW all, NEW end, DirBooks(d, part, rest, all, end),
         NEW pc \in {"over", "error"}, pc = "over" => d.pc = "eof"
  PROVE  [d EXCEPT !.pc = pc] \in Directions /\ DirBooks([d EXCEPT !.pc = pc], part, rest, all, end)
<1> DEFINE q == [d EXCEPT !.pc = pc]
<1>1. q \in Directions /\ q.pc = pc /\ q.frame = d.frame
  BY DEF Directions
<1>2. q.pc \notin {"read", "write", "eof"} /\ (q.pc = "over" => d.pc = "eof")
  BY <1>1
<1>3. DirBooks(q, part, rest, all, end)
  <2> HIDE DEF q
  <2> QED BY <1>1, <1>2 DEF DirBooks
<1> QED BY <1>1, <1>3

\* The server adds to the end of its stream, as long as it is there.
LEMMA ServerAdds ==
  ASSUME NEW d \in Directions, NEW part \in Streams, NEW rest \in Streams, NEW all, NEW line \in Streams,
         DirBooks(d, part, rest, all, "open")
  PROVE  all \o line \in Streams /\ DirBooks(d, part, rest \o line, all \o line, "open")
<1> DEFINE p == part \o d.frame
<1>1. p \in Streams
  BY ConcatProperties DEF Streams, Directions
<1>2. p \o rest \in Streams /\ all = p \o rest
  BY <1>1, ConcatProperties DEF Streams, DirBooks
<1>3. all \o line = p \o (rest \o line) /\ all \o line \in Streams
  <2>1. (p \o rest) \o line \in Streams
    BY <1>2, ConcatProperties DEF Streams
  <2> HIDE DEF p
  <2>2. (p \o rest) \o line = p \o (rest \o line)
    BY <1>1, StreamsAssociate
  <2> QED BY <1>2, <2>1, <2>2
<1> QED BY <1>3 DEF DirBooks

\* Every step of the bridge, of the server and of whoever writes to stdin keeps the books.
LEMMA BridgeStep ==
  ASSUME BridgeAssumption, BridgeBooks, [BridgeNext]_bridgeVars
  PROVE  BridgeBooks'
<1>0. BridgeBooks
  OBVIOUS
<1> USE DEF BridgeBooks, SocketEnd
<1>1. ASSUME NEW line \in {<<"b", "nl">>, <<"b", "b", "b", "nl">>}, ServerSays(line) PROVE BridgeBooks'
  <2>1. line \in Streams
    <3>1. <<"b", "nl">> \in Seq(Bytes) /\ <<"b", "b", "b", "nl">> \in Seq(Bytes)
      BY DEF Bytes
    <3> QED BY <3>1 DEF Streams
  <2>2. gone = FALSE /\ said' = said \o line /\ wire' = wire \o line
        /\ UNCHANGED <<input, whole, up, down, heard, out, half, gone, bridge>>
    BY <1>1 DEF ServerSays
  <2>3. wire' \in Streams /\ said' \in Streams /\ DirBooks(down, out, wire', said', "open")
    BY <2>1, <2>2, ServerAdds, ConcatProperties DEF Streams
  <2> QED BY <2>2, <2>3
<1>2. CASE ServerCloses
  <2>1. gone' = TRUE /\ UNCHANGED <<input, whole, up, down, wire, heard, said, out, half, bridge>>
    BY <1>2 DEF ServerCloses
  <2>2. DirBooks(down, out, wire, said, "closed")
    BY DEF DirBooks
  <2> QED BY <2>1, <2>2
<1>3. ASSUME NEW n \in 0 .. Len(input), ReadStdin(n) PROVE BridgeBooks'
  <2> DEFINE r == read_bounded_frame(up, input, TRUE, input, n)
  <2>1. /\ up.pc = "read" /\ n \in 0 .. FirstNewline(input) /\ (n = 0 <=> input = <<>>)
        /\ up' = AfterRead(up, input, r, n) /\ input' = r.rest
        /\ UNCHANGED <<whole, down, wire, heard, said, out, half, gone, bridge>>
    BY <1>3 DEF ReadStdin
  <2>2. r.ended
    BY DEF read_bounded_frame
  <2>3. n \in Nat
    BY LenProperties DEF Streams
  <2>4. up' \in Directions /\ input' \in Streams /\ DirBooks(up', heard, input', whole, "closed")
    <3> HIDE DEF r
    <3>1. r = read_bounded_frame(up, input, "closed" = "closed", input, n)
      BY DEF r
    <3>2. AfterRead(up, input, r, n) \in Directions /\ r.rest \in Streams
          /\ DirBooks(AfterRead(up, input, r, n), heard, r.rest, whole, "closed")
      BY <2>1, <2>2, <2>3, <3>1, ReadKeeps
    <3> QED BY <2>1, <3>2
  <2> QED BY <2>1, <2>4
<1>4. ASSUME NEW n \in 0 .. Len(wire), ReadSocket(n) PROVE BridgeBooks'
  <2> DEFINE r == read_bounded_frame(down, wire, gone, wire, n)
  <2>1. /\ down.pc = "read" /\ n \in 0 .. FirstNewline(wire) /\ (n = 0 <=> wire = <<>>) /\ r.ended
        /\ down' = AfterRead(down, wire, r, n) /\ wire' = r.rest /\ bridge # "ok"
        /\ UNCHANGED <<input, whole, up, heard, said, out, half, gone, bridge>>
    BY <1>4 DEF ReadSocket, Live
  <2>3. n \in Nat
    BY LenProperties DEF Streams
  <2>4. down' \in Directions /\ wire' \in Streams /\ DirBooks(down', out, wire', said, SocketEnd)
    <3> HIDE DEF r
    <3>1. r = read_bounded_frame(down, wire, SocketEnd = "closed", wire, n)
      BY DEF r
    <3>2. AfterRead(down, wire, r, n) \in Directions /\ r.rest \in Streams
          /\ DirBooks(AfterRead(down, wire, r, n), out, r.rest, said, SocketEnd)
      <4> HIDE DEF SocketEnd
      <4> QED BY <2>1, <2>3, <3>1, ReadKeeps
    <3> QED BY <2>1, <3>2
  <2> QED BY <2>1, <2>4
<1>5. CASE WriteSocket
  <2>1. up.pc = "write" /\ UNCHANGED <<input, whole, down, wire, said, out, half, gone, bridge>>
    BY <1>5 DEF WriteSocket
  <2>2. CASE gone
    <3>1. up' = [up EXCEPT !.pc = "error"] /\ heard' = heard
      BY <1>5, <2>2 DEF WriteSocket
    <3>2. up' \in Directions /\ DirBooks(up', heard, input, whole, "closed")
      BY <3>1, DirOver
    <3> QED BY <2>1, <3>1, <3>2
  <2>3. CASE ~gone
    <3>1. up' = NoLine /\ heard' = heard \o up.frame
      BY <1>5, <2>3 DEF WriteSocket
    <3>2. heard' \in Streams /\ DirBooks(up', heard', input, whole, "closed")
      BY <2>1, <3>1, WriteKeeps
    <3>3. up' \in Directions
      BY <3>1, EmptySeq DEF NoLine, Directions, Streams
    <3> QED BY <2>1, <3>1, <3>2, <3>3
  <2> QED BY <2>2, <2>3
<1>6. ASSUME NEW done \in BOOLEAN, HalfClose(done) PROVE BridgeBooks'
  <2>1. /\ up.pc = "eof" /\ up' = [up EXCEPT !.pc = IF done THEN "over" ELSE "error"] /\ half' = done
        /\ UNCHANGED <<input, whole, down, wire, heard, said, out, gone, bridge>>
    BY <1>6 DEF HalfClose
  <2>2. up' \in Directions /\ DirBooks(up', heard, input, whole, "closed")
    BY <2>1, DirOver
  <2>3. done => up'.pc = "over"
    BY <2>1 DEF Directions
  <2> QED BY <2>1, <2>2, <2>3
<1>7. ASSUME NEW done \in BOOLEAN, WriteStdout(done) PROVE BridgeBooks'
  <2>1. down.pc = "write" /\ bridge # "ok" /\ UNCHANGED <<input, whole, up, wire, heard, said, half, gone, bridge>>
    BY <1>7 DEF WriteStdout, Live
  <2>2. CASE done
    <3>1. down' = NoLine /\ out' = out \o down.frame
      BY <1>7, <2>2 DEF WriteStdout
    <3>2. out' \in Streams /\ DirBooks(down', out', wire, said, SocketEnd)
      BY <2>1, <3>1, WriteKeeps
    <3>3. down' \in Directions
      BY <3>1, EmptySeq DEF NoLine, Directions, Streams
    <3> QED BY <2>1, <3>2, <3>3
  <2>3. CASE ~done
    <3>1. down' = [down EXCEPT !.pc = "error"] /\ out' = out
      BY <1>7, <2>3 DEF WriteStdout
    <3>2. down' \in Directions /\ DirBooks(down', out, wire, said, SocketEnd)
      BY <3>1, DirOver
    <3> QED BY <2>1, <3>1, <3>2
  <2> QED BY <2>2, <2>3
<1>8. CASE SocketFails
  <2>1. /\ down.pc = "read" /\ bridge # "ok" /\ down' = [down EXCEPT !.pc = "error"]
        /\ UNCHANGED <<input, whole, up, wire, heard, said, out, half, gone, bridge>>
    BY <1>8 DEF SocketFails, Live
  <2>2. down' \in Directions /\ DirBooks(down', out, wire, said, SocketEnd)
    BY <2>1, DirOver
  <2> QED BY <2>1, <2>2
<1>9. CASE StdinEnds
  BY <1>9 DEF StdinEnds
<1>10. CASE SocketEnds
  BY <1>10 DEF SocketEnds
<1>11. CASE UNCHANGED bridgeVars
  BY <1>11 DEF bridgeVars
<1> QED BY <1>1, <1>2, <1>3, <1>4, <1>5, <1>6, <1>7, <1>8, <1>9, <1>10, <1>11 DEF BridgeNext

\* What a direction has written is a prefix of all there was, in whole lines.
LEMMA PartIsPrefix ==
  ASSUME BridgeAssumption, NEW d \in Directions, NEW part \in Streams, NEW rest \in Streams,
         NEW all \in Streams, NEW end, DirBooks(d, part, rest, all, end)
  PROVE  /\ IsPrefix(part, all)
         /\ part = <<>> \/ part = all \/ part[Len(part)] = "nl"
         /\ \A i \in DOMAIN part : i + MAX_FRAME_BYTES \in DOMAIN part =>
               "nl" \in ToSet(SubSeq(part, i, i + MAX_FRAME_BYTES))
         /\ d.pc \in {"eof", "over"} => part = all /\ end = "closed"
<1> DEFINE M == MAX_FRAME_BYTES
           t == d.frame \o rest
<1>1. d.frame \in Streams /\ t \in Streams /\ all = part \o t
  <2>1. d.frame \in Streams
    BY DEF Directions
  <2>2. all = (part \o d.frame) \o rest
    BY DEF DirBooks
  <2> QED BY <2>1, <2>2, StreamsAssociate, ConcatProperties, ZenonT(60) DEF Streams
<1>2. /\ Len(part) \in Nat /\ Len(t) \in Nat /\ M \in Nat /\ DOMAIN part = 1 .. Len(part)
      /\ Len(all) = Len(part) + Len(t)
      /\ \A i \in 1 .. Len(part) : all[i] = part[i]
  BY <1>1, LenProperties, ConcatProperties DEF Streams, BridgeAssumption
<1>3. IsPrefix(part, all)
  <2>1. SubSeq(part, 1, Len(part)) = part
    BY SubSeqFull DEF Streams
  <2>2. \A i \in 1 .. Len(part) : all[i] \in Bytes
    BY <1>2, ElementOfSeq DEF Streams
  <2>3. /\ SubSeq(all, 1, Len(part)) \in Streams /\ Len(SubSeq(all, 1, Len(part))) = Len(part)
        /\ \A i \in 1 .. Len(part) : SubSeq(all, 1, Len(part))[i] = part[i]
    BY <1>2, <2>2, SubSeqProperties DEF Streams
  <2>4. SubSeq(all, 1, Len(part)) = part
    BY <2>3, SeqEqual DEF Streams
  <2> QED BY <1>2, <2>1, <2>4 DEF IsPrefix
<1>4. d.frame = <<>> /\ rest = <<>> => part = all
  <2>1. part \o <<>> = part
    BY ConcatEmptySeq DEF Streams
  <2> QED BY <2>1 DEF DirBooks
<1>5. ASSUME NEW i \in DOMAIN part, i + M \in DOMAIN part
      PROVE  "nl" \in ToSet(SubSeq(part, i, i + M))
  <2>0. i \in 1 .. Len(part) /\ i + M <= Len(part)
    BY <1>2, <1>5
  <2>1. PICK j \in i .. i + M : part[j] = "nl"
    BY <2>0 DEF DirBooks, NoLongLine
  <2>2. \A k \in i .. i + M : part[k] \in Bytes
    BY <1>2, <1>5, ElementOfSeq DEF Streams
  <2> DEFINE u == SubSeq(part, i, i + M)
  <2>3. /\ u \in Seq(Bytes) /\ Len(u) = M + 1 /\ \A k \in 1 .. M + 1 : u[k] = part[i + k - 1]
    BY <1>2, <1>5, <2>2, SubSeqProperties, SMTT(30)
  <2>4. j - i + 1 \in 1 .. M + 1 /\ i + (j - i + 1) - 1 = j
    BY <1>2, <1>5
  <2>5. u[j - i + 1] = "nl" /\ j - i + 1 \in DOMAIN u
    BY <2>1, <2>3, <2>4, LenProperties
  <2> QED BY <2>5 DEF ToSet
<1> QED BY <1>2, <1>3, <1>4, <1>5 DEF DirBooks, EndsLine

\* The books say what the bridge promises.
LEMMA BridgeBooksCarry ==
  ASSUME BridgeAssumption, BridgeBooks
  PROVE  BridgeCarries
<1>0. DirBooks(up, heard, input, whole, "closed") /\ DirBooks(down, out, wire, said, SocketEnd)
  BY DEF BridgeBooks
<1>1. /\ IsPrefix(heard, whole) /\ (heard = <<>> \/ heard = whole \/ heard[Len(heard)] = "nl")
      /\ \A i \in DOMAIN heard : i + MAX_FRAME_BYTES \in DOMAIN heard =>
            "nl" \in ToSet(SubSeq(heard, i, i + MAX_FRAME_BYTES))
      /\ half => heard = whole
  BY <1>0, PartIsPrefix DEF BridgeBooks, SocketEnd
<1>2. /\ IsPrefix(out, said) /\ (out = <<>> \/ out = said \/ out[Len(out)] = "nl")
      /\ \A i \in DOMAIN out : i + MAX_FRAME_BYTES \in DOMAIN out =>
            "nl" \in ToSet(SubSeq(out, i, i + MAX_FRAME_BYTES))
      /\ bridge = "ok" => gone /\ out = said
  BY <1>0, PartIsPrefix DEF BridgeBooks, SocketEnd
<1> QED BY <1>1, <1>2 DEF BridgeCarries

\* `dotagent api' carries the lines of stdin and of the server as they were, for every input, every limit
\* and however the bytes arrive; the server is told of the end when it has everything, and a bridge that
\* reports success has printed all the server said (forward_stdin, forward_frames, bridge).
THEOREM BridgeSafe == BridgeSpec => []BridgeCarries
<1>1. BridgeInit => BridgeBooks
  BY BridgeAssumption, BridgeBegins
<1>2. BridgeBooks /\ [BridgeNext]_bridgeVars => BridgeBooks'
  BY BridgeAssumption, BridgeStep
<1>3. BridgeBooks => BridgeCarries
  BY BridgeAssumption, BridgeBooksCarry
<1> QED BY <1>1, <1>2, <1>3, PTL DEF BridgeSpec

-----------------------------------------------------------------------------
(* The socket: what a client reads, and what is counted of it.             *)

Frames == [kind : {"response", "closing", "accepted", "started", "event"}, req : Requests \union {"none"}]
Conns == [client : {"open", "halfclosed", "stalled", "gone"}, reader : Readers,
          on : Requests \union {"none"}, writer : {"none", "waiting", "writing", "gone"},
          frame : Frames \union {NoFrame}, queue : Seq(Frames), bytes : Int, poisoned : BOOLEAN,
          permit : BOOLEAN, got : Seq(Frames)]
Reqs == [from : Clients \union {"none"}, pc : Runs, what : {"none", "started", "event"},
         left : 0 .. RunEvents, held : BOOLEAN, releasing : BOOLEAN, released : BOOLEAN, woken : BOOLEAN]

Hand(k) == IF k.frame = NoFrame THEN <<>> ELSE <<k.frame>>
StreamOf(k) == (k.got \o Hand(k)) \o k.queue
Has(s, f) == \E i \in DOMAIN s : s[i] = f

\* AcceptedFirst, of one stream.
Ordered(s) ==
    \A j \in DOMAIN s :
        s[j].req # "none" =>
           /\ s[j].kind # "accepted" => \E i \in 1 .. j - 1 : s[i] = Frame("accepted", s[j].req)
           /\ s[j].kind = "event" => \E i \in 1 .. j - 1 : s[i] = Frame("started", s[j].req)

\* What comes before f when f may be told.
MayFollow(s, f) ==
    f.req # "none" =>
       /\ f.kind # "accepted" => Has(s, Frame("accepted", f.req))
       /\ f.kind = "event" => Has(s, Frame("started", f.req))

LEMMA FrameFacts ==
  /\ NoFrame \notin Frames /\ NoFrame.req = "none" /\ NoFrame.kind = "none"
  /\ \A r \in Requests \union {"none"}, kind \in {"response", "closing", "accepted", "started", "event"} :
        Frame(kind, r) \in Frames /\ Frame(kind, r).kind = kind /\ Frame(kind, r).req = r
  BY DEF Frames, NoFrame, Frame

\* A frame at the end of a stream.
LEMMA OrderedAppend ==
  ASSUME NEW s \in Seq(Frames), NEW f \in Frames, Ordered(s), MayFollow(s, f)
  PROVE  /\ Append(s, f) \in Seq(Frames) /\ Ordered(Append(s, f))
         /\ Has(Append(s, f), f) /\ \A g : Has(s, g) => Has(Append(s, f), g)
<1> DEFINE t == Append(s, f)
<1>1. /\ t \in Seq(Frames) /\ Len(s) \in Nat /\ DOMAIN s = 1 .. Len(s)
      /\ DOMAIN t = 1 .. Len(s) + 1
      /\ \A i \in 1 .. Len(s) : t[i] = s[i]
      /\ t[Len(s) + 1] = f
  BY AppendProperties, LenProperties
<1> HIDE DEF t
<1>2. ASSUME NEW j \in DOMAIN t, t[j].req # "none"
      PROVE  /\ t[j].kind # "accepted" => \E i \in 1 .. j - 1 : t[i] = Frame("accepted", t[j].req)
             /\ t[j].kind = "event" => \E i \in 1 .. j - 1 : t[i] = Frame("started", t[j].req)
  <2>1. CASE j = Len(s) + 1
    <3>1. t[j] = f /\ j - 1 = Len(s)
      BY <1>1, <2>1
    <3>2. /\ f.kind # "accepted" => \E i \in 1 .. Len(s) : s[i] = Frame("accepted", f.req)
          /\ f.kind = "event" => \E i \in 1 .. Len(s) : s[i] = Frame("started", f.req)
      BY <1>1, <1>2, <3>1 DEF MayFollow, Has
    <3> QED BY <1>1, <3>1, <3>2
  <2>2. CASE j \in 1 .. Len(s)
    <3>1. t[j] = s[j] /\ \A i \in 1 .. j - 1 : t[i] = s[i]
      BY <1>1, <2>2
    <3>2. /\ s[j].kind # "accepted" => \E i \in 1 .. j - 1 : s[i] = Frame("accepted", s[j].req)
          /\ s[j].kind = "event" => \E i \in 1 .. j - 1 : s[i] = Frame("started", s[j].req)
      BY <1>1, <1>2, <2>2, <3>1 DEF Ordered
    <3> QED BY <3>1, <3>2
  <2> QED BY <1>1, <2>1, <2>2
<1>3. Ordered(t)
  BY <1>2 DEF Ordered
<1>4. Has(t, f) /\ \A g : Has(s, g) => Has(t, g)
  BY <1>1 DEF Has
<1> QED BY <1>1, <1>3, <1>4 DEF t

\* A frame of no request goes out of a stream.
LEMMA OrderedWithout ==
  ASSUME NEW a \in Seq(Frames), NEW q \in Seq(Frames), NEW f \in Frames, f.req = "none",
         Ordered((a \o <<f>>) \o q)
  PROVE  /\ Ordered(a \o q)
         /\ \A g : g.req # "none" /\ Has((a \o <<f>>) \o q, g) => Has(a \o q, g)
<1> DEFINE s == (a \o <<f>>) \o q
           t == a \o q
           At(i) == IF i <= Len(a) THEN i ELSE i + 1
<1>1. Len(a) \in Nat /\ Len(q) \in Nat
  BY LenProperties
<1>2. <<f>> \in Seq(Frames) /\ Len(<<f>>) = 1 /\ <<f>>[1] = f
  OBVIOUS
<1>3. a \o <<f>> \in Seq(Frames) /\ Len(a \o <<f>>) = Len(a) + 1
      /\ \A i \in 1 .. Len(a) + 1 : (a \o <<f>>)[i] = IF i <= Len(a) THEN a[i] ELSE f
  <2> DEFINE g == <<f>>
  <2>1. g \in Seq(Frames) /\ Len(g) = 1 /\ g[1] = f
    BY <1>2
  <2> HIDE DEF g, s, t, At
  <2>2. /\ a \o g \in Seq(Frames) /\ Len(a \o g) = Len(a) + 1
        /\ \A i \in 1 .. Len(a) + 1 : (a \o g)[i] = IF i <= Len(a) THEN a[i] ELSE g[i - Len(a)]
    <3>1. g \in Seq(Frames)
      BY <2>1
    <3>2. /\ a \o g \in Seq(Frames) /\ Len(a \o g) = Len(a) + Len(g)
          /\ \A i \in 1 .. Len(a) + Len(g) : (a \o g)[i] = IF i <= Len(a) THEN a[i] ELSE g[i - Len(a)]
      BY ONLY <3>1, a \in Seq(Frames), ConcatProperties
    <3> QED BY <2>1, <3>2
  <2>3. \A i \in 1 .. Len(a) + 1 : ~(i <= Len(a)) => i - Len(a) = 1
    BY <1>1
  <2>4. \A i \in 1 .. Len(a) + 1 : (a \o g)[i] = IF i <= Len(a) THEN a[i] ELSE f
    BY <2>1, <2>2, <2>3
  <2> QED BY <2>2, <2>4 DEF g
<1>4. /\ s \in Seq(Frames) /\ DOMAIN s = 1 .. Len(a) + 1 + Len(q)
      /\ \A i \in 1 .. Len(a) + 1 + Len(q) : s[i] = IF i <= Len(a) + 1 THEN (a \o <<f>>)[i] ELSE q[i - (Len(a) + 1)]
  BY <1>1, <1>3, ConcatProperties, LenProperties
<1>5. /\ t \in Seq(Frames) /\ DOMAIN t = 1 .. Len(a) + Len(q)
      /\ \A i \in 1 .. Len(a) + Len(q) : t[i] = IF i <= Len(a) THEN a[i] ELSE q[i - Len(a)]
  BY <1>1, ConcatProperties, LenProperties
<1> HIDE DEF s, t
<1>6. \A i \in DOMAIN t : At(i) \in DOMAIN s /\ t[i] = s[At(i)]
  <2> SUFFICES ASSUME NEW i \in 1 .. Len(a) + Len(q) PROVE At(i) \in 1 .. Len(a) + 1 + Len(q) /\ t[i] = s[At(i)]
    BY <1>4, <1>5
  <2>1. CASE i <= Len(a)
    <3>1. At(i) = i /\ i \in 1 .. Len(a) + 1 /\ i \in 1 .. Len(a) + 1 + Len(q)
      BY <1>1, <2>1
    <3>2. (a \o <<f>>)[i] = a[i]
      BY <1>3, <2>1, <3>1
    <3>3. s[i] = (a \o <<f>>)[i]
      <4>1. i <= Len(a) + 1
        BY <3>1
      <4> QED BY <1>4, <3>1, <4>1
    <3>4. t[i] = a[i]
      BY <1>5, <2>1
    <3> HIDE DEF At
    <3> QED BY <3>1, <3>2, <3>3, <3>4
  <2>2. CASE i > Len(a)
    <3>1. /\ i \in Int /\ i + 1 \in 1 .. Len(a) + 1 + Len(q) /\ ~(i + 1 <= Len(a) + 1)
          /\ (i + 1) - (Len(a) + 1) = i - Len(a)
      BY <1>1, <2>2
    <3>2. s[i + 1] = q[i - Len(a)] /\ t[i] = q[i - Len(a)]
      BY <1>1, <1>4, <1>5, <2>2, <3>1
    <3> QED BY <1>1, <2>2, <3>1, <3>2
  <2> QED BY <1>1, <2>1, <2>2
<1>7. \A i \in DOMAIN s : s[i].req # "none" =>
         IF i <= Len(a) THEN i \in DOMAIN t /\ t[i] = s[i]
         ELSE i - 1 \in DOMAIN t /\ t[i - 1] = s[i] /\ i - 1 > Len(a)
  <2> SUFFICES ASSUME NEW i \in 1 .. Len(a) + 1 + Len(q), s[i].req # "none"
               PROVE  IF i <= Len(a) THEN i \in DOMAIN t /\ t[i] = s[i]
                      ELSE i - 1 \in DOMAIN t /\ t[i - 1] = s[i] /\ i - 1 > Len(a)
    BY <1>4
  <2>1. CASE i <= Len(a)
    BY <1>1, <1>3, <1>4, <1>5, <2>1
  <2>2. CASE i > Len(a)
    <3>1. i # Len(a) + 1
      BY <1>1, <1>3, <1>4, SMTT(30)
    <3>2. /\ i \in Int /\ i - 1 \in 1 .. Len(a) + Len(q) /\ i - 1 > Len(a) /\ ~(i <= Len(a) + 1)
          /\ (i - 1) - Len(a) = i - (Len(a) + 1)
      BY <1>1, <2>2, <3>1
    <3>3. At(i - 1) = i
      BY <1>1, <3>2
    <3>4. t[i - 1] = s[i]
      <4> HIDE DEF At
      <4> QED BY <1>5, <1>6, <3>2, <3>3
    <3> QED BY <1>1, <1>5, <2>2, <3>2, <3>4
  <2> QED BY <1>1, <2>1, <2>2
<1>8. ASSUME NEW j \in DOMAIN t, t[j].req # "none", NEW kind \in {"accepted", "started"},
             \E i \in 1 .. At(j) - 1 : s[i] = Frame(kind, t[j].req)
      PROVE  \E i \in 1 .. j - 1 : t[i] = Frame(kind, t[j].req)
  <2>1. PICK i \in 1 .. At(j) - 1 : s[i] = Frame(kind, t[j].req)
    BY <1>8
  <2>2. i \in DOMAIN s /\ s[i].req # "none"
    BY <1>1, <1>4, <1>5, <1>6, <1>8, <2>1 DEF Frame
  <2>3. CASE i <= Len(a)
    BY <1>1, <1>5, <1>7, <2>1, <2>2, <2>3
  <2>4. CASE i > Len(a)
    <3>1. i - 1 \in DOMAIN t /\ t[i - 1] = s[i] /\ i - 1 > Len(a)
      BY <1>1, <1>4, <1>7, <2>2, <2>4
    <3>2. i - 1 \in 1 .. j - 1
      BY <1>1, <1>5, <2>1, <3>1
    <3> QED BY <2>1, <3>1, <3>2
  <2> QED BY <1>1, <2>1, <2>3, <2>4
<1>9. Ordered(t)
  <2> SUFFICES ASSUME NEW j \in DOMAIN t, t[j].req # "none"
               PROVE  /\ t[j].kind # "accepted" => \E i \in 1 .. j - 1 : t[i] = Frame("accepted", t[j].req)
                      /\ t[j].kind = "event" => \E i \in 1 .. j - 1 : t[i] = Frame("started", t[j].req)
    BY DEF Ordered
  <2>1. At(j) \in DOMAIN s /\ t[j] = s[At(j)]
    BY <1>6
  <2>2. /\ t[j].kind # "accepted" => \E i \in 1 .. At(j) - 1 : s[i] = Frame("accepted", t[j].req)
        /\ t[j].kind = "event" => \E i \in 1 .. At(j) - 1 : s[i] = Frame("started", t[j].req)
    <3> HIDE DEF At
    <3> QED BY <2>1 DEF Ordered, s
  <2> HIDE DEF At
  <2> QED BY <1>8, <2>2
<1>10. \A g : g.req # "none" /\ Has(s, g) => Has(t, g)
  BY <1>7 DEF Has
<1> QED BY <1>9, <1>10 DEF s, t

\* Events of a queue.
Ev(f) == IF f.kind \in ServerEvent THEN 1 ELSE 0
EvAt(s) == {i \in DOMAIN s : s[i].kind \in ServerEvent}
EvCount(s) == Cardinality(EvAt(s))

LEMMA CountNat ==
  ASSUME NEW s \in Seq(Frames)
  PROVE  IsFiniteSet(EvAt(s)) /\ EvCount(s) \in Nat
<1>1. Len(s) \in Nat /\ DOMAIN s = 1 .. Len(s)
  BY LenProperties
<1>2. IsFiniteSet(EvAt(s))
  <2>1. EvAt(s) \in SUBSET (1 .. Len(s)) /\ IsFiniteSet(1 .. Len(s))
    BY <1>1, FS_Interval DEF EvAt
  <2> QED BY <2>1, FS_Subset
<1> QED BY <1>2, FS_CardinalityType DEF EvCount

LEMMA CountAppend ==
  ASSUME NEW s \in Seq(Frames), NEW f
  PROVE  EvCount(Append(s, f)) = EvCount(s) + Ev(f)
<1>1. /\ Len(s) \in Nat /\ DOMAIN s = 1 .. Len(s)
      /\ DOMAIN Append(s, f) = 1 .. Len(s) + 1
      /\ \A i \in 1 .. Len(s) : Append(s, f)[i] = s[i]
      /\ Append(s, f)[Len(s) + 1] = f
  BY LenProperties
<1>2. Len(s) + 1 \notin EvAt(s)
  BY <1>1 DEF EvAt
<1>3. CASE f.kind \in ServerEvent
  <2>1. EvAt(Append(s, f)) = EvAt(s) \union {Len(s) + 1}
    BY <1>1, <1>3 DEF EvAt
  <2> QED BY <1>2, <1>3, <2>1, CountNat, FS_AddElement DEF EvCount, Ev
<1>4. CASE f.kind \notin ServerEvent
  <2>1. EvAt(Append(s, f)) = EvAt(s)
    BY <1>1, <1>4 DEF EvAt
  <2> QED BY <1>4, <2>1, CountNat DEF EvCount, Ev
<1> QED BY <1>3, <1>4

LEMMA CountTail ==
  ASSUME NEW s \in Seq(Frames), s # <<>>
  PROVE  EvCount(s) = EvCount(Tail(s)) + Ev(Head(s))
<1> DEFINE t == Tail(s)
           up1 == [i \in EvAt(t) |-> i + 1]
<1>1. /\ t \in Seq(Frames) /\ Len(s) \in Nat \ {0} /\ DOMAIN s = 1 .. Len(s)
      /\ DOMAIN t = 1 .. Len(s) - 1 /\ \A i \in 1 .. Len(s) - 1 : t[i] = s[i + 1]
      /\ Head(s) = s[1]
  BY HeadTailProperties, LenProperties, EmptySeq
<1>2. EvAt(t) \subseteq Nat \ {0}
  BY <1>1 DEF EvAt
<1>3. EvAt(s) \ {1} = {i + 1 : i \in EvAt(t)}
  <2>1. \A i \in EvAt(t) : i + 1 \in EvAt(s) \ {1}
    BY <1>1, <1>2 DEF EvAt
  <2>2. \A j \in EvAt(s) \ {1} : j - 1 \in EvAt(t) /\ (j - 1) + 1 = j
    BY <1>1 DEF EvAt
  <2> QED BY <2>1, <2>2
<1>4. up1 \in Bijection(EvAt(t), EvAt(s) \ {1})
  <2>1. up1 \in [EvAt(t) -> EvAt(s) \ {1}]
    BY <1>3
  <2>2. \A a, b \in EvAt(t) : up1[a] = up1[b] => a = b
    BY <1>2
  <2>3. \A j \in EvAt(s) \ {1} : \E i \in EvAt(t) : up1[i] = j
    BY <1>3
  <2> QED BY <2>1, <2>2, <2>3 DEF Bijection, Injection, Surjection, IsInjective
<1>5. Cardinality(EvAt(s) \ {1}) = EvCount(t)
  BY <1>1, <1>4, CountNat, FS_Bijection DEF ExistsBijection, EvCount
<1>6. Cardinality(EvAt(s) \ {1}) = IF 1 \in EvAt(s) THEN EvCount(s) - 1 ELSE EvCount(s)
  BY CountNat, FS_RemoveElement DEF EvCount
<1>7. 1 \in EvAt(s) <=> Head(s).kind \in ServerEvent
  BY <1>1 DEF EvAt
<1>8. EvCount(s) \in Nat /\ EvCount(t) \in Nat
  BY <1>1, CountNat
<1> HIDE DEF t
<1> QED BY <1>5, <1>6, <1>7, <1>8 DEF Ev, t
-----------------------------------------------------------------------------
(* What is kept of a connection and of a run.                              *)

Closing(k) == \E i \in DOMAIN k.queue : k.queue[i].kind = "closing"

\* What a step of one connection never takes back: the poison, the end of the writer, and, while there is a
\* writer, what the client was or will be told of a run.
Keeps(k, k2) ==
    /\ k.poisoned => k2.poisoned
    /\ k.writer = "gone" => k2.writer = "gone"
    /\ k2.writer = "gone" \/ \A g : g.req # "none" /\ Has(StreamOf(k), g) => Has(StreamOf(k2), g)

\* LastWordIsHeard, of one connection.
Hears(k, k2) == Closing(k2) /\ k2.permit /\ ~k.permit => Len(k2.queue) = EVENT_QUEUE_SLOTS

\* The client was or will be told this of the run, or there is nobody to tell it.
Told(k, kind, r) == k.writer = "gone" \/ Has(StreamOf(k), Frame(kind, r))

\* The queue and the writer.
QueueBooks(k) ==
    /\ Ordered(StreamOf(k)) /\ Len(k.queue) <= EVENT_QUEUE_SLOTS
    /\ k.writer \in {"none", "gone"} => k.queue = <<>> /\ k.frame = NoFrame /\ k.got = <<>>
    /\ k.writer = "writing" <=> k.frame # NoFrame
    /\ Closing(k) => k.poisoned

\* The reader beside them.
ReaderBooks(k) ==
    /\ k.reader \in {"answer", "release", "enqueue", "open"} <=> k.on # "none"
    /\ k.reader \in {"waiting", "foreign"} => k.writer = "none"
    /\ k.writer = "none" => k.reader \in {"waiting", "foreign", "ended"}
    /\ k.reader = "ended" => k.writer \in {"none", "gone"}
    /\ k.reader = "waiting" => k = NoConn
    /\ Closing(k) => k.reader \in {"draining", "ended"}

\* The account, when so many runs are about to queue an event.
Account(k, n) ==
    k.writer \in {"waiting", "writing"} =>
        k.bytes = n + EvCount(k.queue) + Ev(k.frame) /\ k.bytes <= MAX_EVENT_QUEUE_BYTES

\* The reader has this run's gate in its hands.
Opens(k, r) == k.reader \in {"enqueue", "open"} /\ k.on = r

\* A run r of connection k.  Its gate is not open before the client is told of the message, nor is the run past
\* the gate before run.started is in the queue, on its way there, or lost with the connection.
RunBooks(r, q, k) ==
    /\ q.pc # "none" /\ k.reader \notin {"waiting", "foreign"}
    /\ q.pc # "done" => q.left \in 1 .. RunEvents
    /\ q.releasing <=> Opens(k, r)
    /\ k.on = r => ~q.released
    /\ Opens(k, r) => ~q.held
    /\ k.on = r /\ k.reader # "answer" => Told(k, "accepted", r)
    /\ q.released => Told(k, "accepted", r) \/ k.poisoned
    /\ q.pc \in {"reserve", "look", "push"} =>
          q.what # "none" /\ (q.released \/ q.releasing) /\ (q.what = "event" => q.released)
    /\ q.pc \in {"look", "push"} => Told(k, "accepted", r) /\ (q.what = "event" => Told(k, "started", r))
    /\ q.pc = "reserve" /\ q.what = "event" => Told(k, "started", r) \/ k.poisoned
    /\ q.pc \in {"check", "arm", "recheck", "parked"} =>
          \/ q.held /\ ~q.releasing /\ ~q.released
          \/ k.reader = "enqueue" /\ k.on = r
          \/ Told(k, "started", r) \/ k.poisoned

InFlight(c) == {r \in Requests : req[r].from = c /\ req[r].pc \in {"look", "push"}}

ApiTyped ==
    /\ listener \in {"accepting", "closed"} \union {c \in Clients : conn[c].reader = "waiting"}
    /\ served \in Nat /\ stopping \in BOOLEAN /\ taken \in 0 .. MaxRead
    /\ conn \in [Clients -> Conns] /\ req \in [Requests -> Reqs]

Links ==
    /\ \A c \in Clients : /\ QueueBooks(conn[c]) /\ ReaderBooks(conn[c])
                          /\ Account(conn[c], Cardinality(InFlight(c)))
                          /\ conn[c].on # "none" => req[conn[c].on].from = c
    /\ \A r \in Requests : IF req[r].from = "none" THEN req[r] = NoReq
                           ELSE RunBooks(r, req[r], conn[req[r].from])

ApiBooks == ApiTyped /\ SlotsAreConnections /\ Links

-----------------------------------------------------------------------------
(* Streams of a connection.                                                *)

LEMMA FramesAssociate ==
  \A s, t, u \in Seq(Frames) : (s \o t) \o u = s \o (t \o u)
  BY ConcatAssociative

LEMMA FramesAround ==
  ASSUME NEW s \in Seq(Frames), NEW t \in Seq(Frames), NEW f \in Frames
  PROVE  /\ (s \o t) \o <<f>> = s \o (t \o <<f>>)
         /\ (s \o <<f>>) \o t = s \o (<<f>> \o t)
<1> DEFINE e == <<f>>
<1>1. e \in Seq(Frames)
  OBVIOUS
<1> HIDE DEF e
<1>2. (s \o t) \o e = s \o (t \o e) /\ (s \o e) \o t = s \o (e \o t)
  BY <1>1, FramesAssociate
<1> QED BY <1>2 DEF e

LEMMA StreamTyped ==
  ASSUME NEW k \in Conns
  PROVE  /\ Hand(k) \in Seq(Frames) /\ k.got \o Hand(k) \in Seq(Frames) /\ StreamOf(k) \in Seq(Frames)
         /\ k.queue \in Seq(Frames) /\ k.got \in Seq(Frames) /\ Len(k.queue) \in Nat
<1>1. k.queue \in Seq(Frames) /\ k.got \in Seq(Frames) /\ k.frame \in Frames \union {NoFrame}
  BY DEF Conns
<1>2. Hand(k) \in Seq(Frames)
  BY <1>1 DEF Hand
<1> QED BY <1>1, <1>2, ConcatProperties, LenProperties DEF StreamOf

\* A frame at the end of the queue.
LEMMA StreamAppend ==
  ASSUME NEW k \in Conns, NEW k2 \in Conns, NEW f \in Frames,
         k2.got = k.got, k2.frame = k.frame, k2.queue = Append(k.queue, f)
  PROVE  StreamOf(k2) = Append(StreamOf(k), f)
<1>1. <<f>> \in Seq(Frames)
  OBVIOUS
<1>2. k2.queue = k.queue \o <<f>> /\ Append(StreamOf(k), f) = StreamOf(k) \o <<f>>
  BY StreamTyped, AppendIsConcat
<1>3. Hand(k2) = Hand(k)
  BY DEF Hand
<1>4. ((k.got \o Hand(k)) \o k.queue) \o <<f>> = (k.got \o Hand(k)) \o (k.queue \o <<f>>)
  BY <1>1, StreamTyped, FramesAround, ZenonT(60)
<1> QED BY <1>2, <1>3, <1>4 DEF StreamOf

\* A frame taken into the hand.
LEMMA StreamTake ==
  ASSUME NEW k \in Conns, NEW k2 \in Conns, k.queue # <<>>, k.frame = NoFrame,
         k2.got = k.got, k2.frame = Head(k.queue), k2.queue = Tail(k.queue)
  PROVE  /\ StreamOf(k2) = StreamOf(k) /\ k2.frame \in Frames /\ k2.frame # NoFrame
         /\ Len(k2.queue) + 1 = Len(k.queue)
<1>1. /\ k2.frame \in Frames /\ k2.frame # NoFrame /\ Tail(k.queue) \in Seq(Frames)
      /\ Len(k2.queue) + 1 = Len(k.queue)
  BY StreamTyped, HeadTailProperties, FrameFacts, LenProperties, EmptySeq
<1>2. <<Head(k.queue)>> \in Seq(Frames)
  BY <1>1
<1>3. k.queue = <<Head(k.queue)>> \o Tail(k.queue)
  <2>1. k.queue \in Seq(Frames) /\ k.queue # <<>>
    BY StreamTyped
  <2> HIDE DEF Frames
  <2> QED BY <2>1
<1>4. Hand(k2) = <<Head(k.queue)>> /\ Hand(k) = <<>>
  BY <1>1 DEF Hand
<1>5. k.got \o <<>> = k.got
  BY StreamTyped, ConcatEmptySeq
<1>6. (k.got \o <<Head(k.queue)>>) \o Tail(k.queue) = k.got \o (<<Head(k.queue)>> \o Tail(k.queue))
  <2> DEFINE a == k.got
             h == Head(k.queue)
             t == Tail(k.queue)
  <2>1. a \in Seq(Frames) /\ h \in Frames /\ t \in Seq(Frames)
    BY <1>1, StreamTyped
  <2> HIDE DEF a, h, t
  <2>2. (a \o <<h>>) \o t = a \o (<<h>> \o t)
    BY <2>1, FramesAround
  <2> QED BY <2>2 DEF a, h, t
<1> QED BY <1>1, <1>3, <1>4, <1>5, <1>6 DEF StreamOf

\* A frame written: the client has got it, or it answered no message.
LEMMA StreamWritten ==
  ASSUME NEW k \in Conns, NEW k2 \in Conns, k.frame # NoFrame, Ordered(StreamOf(k)),
         k2.got = IF k.frame.req = "none" THEN k.got ELSE Append(k.got, k.frame),
         k2.frame = NoFrame, k2.queue = k.queue
  PROVE  Ordered(StreamOf(k2)) /\ \A g : g.req # "none" /\ Has(StreamOf(k), g) => Has(StreamOf(k2), g)
<1>1. k.frame \in Frames /\ Hand(k) = <<k.frame>> /\ Hand(k2) = <<>>
  BY DEF Conns, Hand
<1>2. StreamOf(k) = (k.got \o <<k.frame>>) \o k.queue /\ StreamOf(k2) = k2.got \o k.queue
  BY <1>1, StreamTyped, ConcatEmptySeq DEF StreamOf
<1>3. CASE k.frame.req = "none"
  <2>1. k2.got = k.got
    BY <1>3
  <2> QED BY <1>1, <1>2, <1>3, <2>1, StreamTyped, OrderedWithout
<1>4. CASE k.frame.req # "none"
  <2>1. k2.got = k.got \o <<k.frame>>
    BY <1>1, <1>4, StreamTyped, AppendIsConcat
  <2> QED BY <1>2, <2>1
<1> QED BY <1>3, <1>4

\* Nothing of it changed.
LEMMA StreamSame ==
  ASSUME NEW k, NEW k2, k2.got = k.got, k2.frame = k.frame, k2.queue = k.queue
  PROVE  StreamOf(k2) = StreamOf(k) /\ (Closing(k2) <=> Closing(k))
  BY DEF StreamOf, Hand, Closing
-----------------------------------------------------------------------------
(* The operations on a connection, one by one.                             *)

\* The books of the queue go on, and who reads and writes stays.
OnQueue(k, k2) ==
    /\ QueueBooks(k2) /\ Keeps(k, k2) /\ Hears(k, k2)
    /\ k2.client = k.client /\ k2.reader = k.reader /\ k2.on = k.on /\ k2.writer = k.writer

LEMMA QueueStays ==
  ASSUME NEW k \in Conns, NEW k2 \in Conns, QueueBooks(k), k.poisoned => k2.poisoned,
         k2.got = k.got, k2.frame = k.frame, k2.queue = k.queue, k2.writer = k.writer
  PROVE  QueueBooks(k2) /\ Keeps(k, k2) /\ (Closing(k2) <=> Closing(k))
<1>1. StreamOf(k2) = StreamOf(k) /\ (Closing(k2) <=> Closing(k))
  BY StreamSame
<1>2. QueueBooks(k2)
  BY <1>1 DEF QueueBooks
<1>3. Keeps(k, k2)
  BY <1>1 DEF Keeps
<1> QED BY <1>1, <1>2, <1>3

LEMMA QueueGrows ==
  ASSUME NEW k \in Conns, NEW k2 \in Conns, NEW f \in Frames, QueueBooks(k),
         k.writer \in {"waiting", "writing"}, Len(k.queue) # EVENT_QUEUE_SLOTS, MayFollow(StreamOf(k), f),
         k2.got = k.got, k2.frame = k.frame, k2.queue = Append(k.queue, f), k2.writer = k.writer,
         k.poisoned => k2.poisoned, f.kind = "closing" => k2.poisoned
  PROVE  /\ QueueBooks(k2) /\ Keeps(k, k2) /\ Has(StreamOf(k2), f)
         /\ Closing(k2) => Closing(k) \/ f.kind = "closing"
         /\ EvCount(k2.queue) = EvCount(k.queue) + Ev(f)
<1>1. k.queue \in Seq(Frames) /\ Len(k.queue) \in Nat /\ StreamOf(k) \in Seq(Frames)
  BY StreamTyped
<1>2. StreamOf(k2) = Append(StreamOf(k), f)
  BY StreamAppend
<1>3. Ordered(StreamOf(k2)) /\ Has(StreamOf(k2), f) /\ \A g : Has(StreamOf(k), g) => Has(StreamOf(k2), g)
  BY <1>1, <1>2, OrderedAppend DEF QueueBooks
<1>4. Keeps(k, k2)
  BY <1>3 DEF Keeps
<1>5. Closing(k2) => Closing(k) \/ f.kind = "closing"
  <2>1. /\ DOMAIN k.queue = 1 .. Len(k.queue)
        /\ \A i \in DOMAIN k2.queue : (i \in 1 .. Len(k.queue) /\ k2.queue[i] = k.queue[i]) \/ k2.queue[i] = f
    BY <1>1, AppendProperties, LenProperties
  <2> QED BY <2>1 DEF Closing
<1>6. Len(k2.queue) <= EVENT_QUEUE_SLOTS
  <2>1. Len(k2.queue) = Len(k.queue) + 1
    BY <1>1, AppendProperties
  <2>2. Len(k.queue) <= EVENT_QUEUE_SLOTS /\ EVENT_QUEUE_SLOTS \in Nat
    BY ApiAssumption DEF QueueBooks
  <2> QED BY <1>1, <2>1, <2>2
<1>7. QueueBooks(k2)
  BY <1>3, <1>5, <1>6 DEF QueueBooks
<1>8. EvCount(k2.queue) = EvCount(k.queue) + Ev(f)
  BY <1>1, CountAppend
<1> QED BY <1>3, <1>4, <1>5, <1>7, <1>8

\* poison_connection, with the bytes as they may be.
LEMMA Poisoned ==
  ASSUME NEW k \in Conns, NEW b \in Int, QueueBooks(k)
  PROVE  LET k2 == poison_connection([k EXCEPT !.bytes = b])
         IN  /\ k2 \in Conns /\ QueueBooks(k2) /\ Keeps(k, k2) /\ (Closing(k2) <=> Closing(k))
             /\ k2.poisoned /\ k2.permit /\ k2.bytes = b
             /\ k2.got = k.got /\ k2.frame = k.frame /\ k2.queue = k.queue
             /\ k2.client = k.client /\ k2.reader = k.reader /\ k2.on = k.on /\ k2.writer = k.writer
<1> DEFINE k2 == poison_connection([k EXCEPT !.bytes = b])
<1>1. /\ k2 \in Conns /\ k2.poisoned /\ k2.permit /\ k2.bytes = b
      /\ k2.got = k.got /\ k2.frame = k.frame /\ k2.queue = k.queue
      /\ k2.client = k.client /\ k2.reader = k.reader /\ k2.on = k.on /\ k2.writer = k.writer
  BY DEF poison_connection, Conns
<1> HIDE DEF k2
<1>2. QueueBooks(k2) /\ Keeps(k, k2) /\ (Closing(k2) <=> Closing(k))
  BY <1>1, QueueStays
<1> QED BY <1>1, <1>2 DEF k2

\* What an assignment to a field does.
LEMMA AppendFacts ==
  ASSUME NEW k \in Conns, NEW f \in Frames
  PROVE  LET k2 == [k EXCEPT !.queue = Append(@, f)]
         IN  /\ k2 \in Conns /\ k2.got = k.got /\ k2.frame = k.frame /\ k2.queue = Append(k.queue, f)
             /\ k2.writer = k.writer /\ k2.poisoned = k.poisoned /\ k2.permit = k.permit /\ k2.bytes = k.bytes
             /\ k2.client = k.client /\ k2.reader = k.reader /\ k2.on = k.on
<1> DEFINE q == Append(k.queue, f)
<1>1. q \in Seq(Frames)
  BY StreamTyped, AppendProperties
<1>2. [k EXCEPT !.queue = Append(@, f)] = [k EXCEPT !.queue = q]
  BY DEF Conns
<1> HIDE DEF q
<1>3. LET k2 == [k EXCEPT !.queue = q]
      IN  /\ k2 \in Conns /\ k2.got = k.got /\ k2.frame = k.frame /\ k2.queue = q
          /\ k2.writer = k.writer /\ k2.poisoned = k.poisoned /\ k2.permit = k.permit /\ k2.bytes = k.bytes
          /\ k2.client = k.client /\ k2.reader = k.reader /\ k2.on = k.on
  BY <1>1 DEF Conns
<1> QED BY <1>2, <1>3 DEF q

LEMMA BytesFacts ==
  ASSUME NEW k \in Conns, NEW b \in Int
  PROVE  LET k2 == [k EXCEPT !.bytes = b]
         IN  /\ k2 \in Conns /\ k2.got = k.got /\ k2.frame = k.frame /\ k2.queue = k.queue
             /\ k2.writer = k.writer /\ k2.poisoned = k.poisoned /\ k2.permit = k.permit /\ k2.bytes = b
             /\ k2.client = k.client /\ k2.reader = k.reader /\ k2.on = k.on
  BY DEF Conns

LEMMA PushFacts ==
  ASSUME NEW k \in Conns, NEW f \in Frames, NEW n \in Int, QueueBooks(k), f.kind \in {"started", "event"},
         k.writer = "gone" \/ (k.writer # "none" /\ MayFollow(StreamOf(k), f))
  PROVE  LET k2 == Push(k, f)
         IN  /\ k2 \in Conns /\ OnQueue(k, k2) /\ (Closing(k2) => Closing(k))
             /\ k2.poisoned \/ Has(StreamOf(k2), f)
             /\ Account(k, n + 1) => Account(k2, n)
<1>0. Len(k.queue) \in Nat /\ k.bytes \in Int /\ EvCount(k.queue) \in Nat /\ Ev(k.frame) \in Nat /\ Ev(f) = 1
      /\ k.queue \in Seq(Frames) /\ EVENT_QUEUE_SLOTS \in Nat /\ MAX_EVENT_QUEUE_BYTES \in Nat
  BY StreamTyped, CountNat, ApiAssumption DEF Conns, Ev, ServerEvent
<1>1. CASE try_send_fails(k)
  <2> DEFINE k2 == poison_connection([k EXCEPT !.bytes = @ - 1])
  <2>1. /\ k2 \in Conns /\ QueueBooks(k2) /\ Keeps(k, k2) /\ (Closing(k2) <=> Closing(k))
        /\ k2.poisoned /\ k2.bytes = k.bytes - 1 /\ k2.frame = k.frame /\ k2.queue = k.queue
        /\ k2.client = k.client /\ k2.reader = k.reader /\ k2.on = k.on /\ k2.writer = k.writer
    <3> DEFINE b == k.bytes - 1
    <3>1. b \in Int /\ k2 = poison_connection([k EXCEPT !.bytes = b])
      BY <1>0
    <3> HIDE DEF b, k2
    <3>2. k2.bytes = b /\ k2 \in Conns /\ QueueBooks(k2) /\ Keeps(k, k2) /\ (Closing(k2) <=> Closing(k))
          /\ k2.poisoned /\ k2.frame = k.frame /\ k2.queue = k.queue
          /\ k2.client = k.client /\ k2.reader = k.reader /\ k2.on = k.on /\ k2.writer = k.writer
      BY <3>1, Poisoned
    <3> QED BY <3>2 DEF b
  <2>2. Push(k, f) = k2
    BY <1>1 DEF Push
  <2> HIDE DEF k2
  <2>3. Hears(k, k2)
    <3>1. CASE k.writer = "gone"
      <4>1. k.queue = <<>>
        BY <3>1 DEF QueueBooks
      <4> QED BY <2>1, <4>1 DEF Hears, Closing
    <3>2. CASE Len(k.queue) = EVENT_QUEUE_SLOTS
      BY <2>1, <3>2 DEF Hears
    <3> QED BY <1>1, <3>1, <3>2 DEF try_send_fails
  <2>4. Account(k, n + 1) => Account(k2, n)
    BY <1>0, <2>1 DEF Account
  <2> QED BY <2>1, <2>2, <2>3, <2>4 DEF OnQueue
<1>2. CASE ~try_send_fails(k)
  <2> DEFINE k2 == [k EXCEPT !.queue = Append(@, f)]
  <2>1. /\ k2 \in Conns /\ k2.got = k.got /\ k2.frame = k.frame /\ k2.queue = Append(k.queue, f)
        /\ k2.writer = k.writer /\ k2.poisoned = k.poisoned /\ k2.permit = k.permit /\ k2.bytes = k.bytes
        /\ k2.client = k.client /\ k2.reader = k.reader /\ k2.on = k.on
    BY <1>0, AppendFacts
  <2>2. Push(k, f) = k2
    BY <1>2 DEF Push
  <2> HIDE DEF k2
  <2>3. k.writer \in {"waiting", "writing"} /\ Len(k.queue) # EVENT_QUEUE_SLOTS /\ MayFollow(StreamOf(k), f)
    BY <1>2 DEF try_send_fails, Conns
  <2>4. /\ QueueBooks(k2) /\ Keeps(k, k2) /\ Has(StreamOf(k2), f) /\ (Closing(k2) => Closing(k))
        /\ EvCount(k2.queue) = EvCount(k.queue) + 1
    BY <1>0, <2>1, <2>3, QueueGrows
  <2>5. Hears(k, k2)
    BY <2>1 DEF Hears
  <2>6. Account(k, n + 1) => Account(k2, n)
    BY <1>0, <2>1, <2>4 DEF Account
  <2> QED BY <2>1, <2>2, <2>4, <2>5, <2>6 DEF OnQueue
<1> QED BY <1>1, <1>2

LEMMA ReserveFacts ==
  ASSUME NEW k \in Conns, NEW n \in Int, QueueBooks(k), ~k.poisoned
  PROVE  LET k2 == reserve_bytes(k)
         IN  /\ k2 \in Conns /\ OnQueue(k, k2) /\ (Closing(k2) <=> Closing(k))
             /\ k2.got = k.got /\ k2.frame = k.frame /\ k2.queue = k.queue
             /\ Reserved(k) => k2.poisoned = k.poisoned /\ (Account(k, n) => Account(k2, n + 1))
             /\ ~Reserved(k) => k2.poisoned /\ (Account(k, n) => Account(k2, n))
<1>0. k.bytes \in Int /\ EvCount(k.queue) \in Nat /\ Ev(k.frame) \in Nat /\ MAX_EVENT_QUEUE_BYTES \in Nat /\ ~Closing(k)
  BY StreamTyped, CountNat, ApiAssumption DEF Conns, Ev, QueueBooks
<1>1. CASE k.bytes + 1 > MAX_EVENT_QUEUE_BYTES
  <2> DEFINE k2 == poison_connection([k EXCEPT !.bytes = k.bytes])
  <2>1. reserve_bytes(k) = k2
    <3>1. [k EXCEPT !.bytes = k.bytes] = k
      BY DEF Conns
    <3> QED BY <1>1, <3>1 DEF reserve_bytes
  <2> HIDE DEF k2
  <2>2. /\ k2 \in Conns /\ QueueBooks(k2) /\ Keeps(k, k2) /\ (Closing(k2) <=> Closing(k))
        /\ k2.poisoned /\ k2.bytes = k.bytes /\ k2.got = k.got /\ k2.frame = k.frame /\ k2.queue = k.queue
        /\ k2.client = k.client /\ k2.reader = k.reader /\ k2.on = k.on /\ k2.writer = k.writer
    BY <1>0, Poisoned DEF k2
  <2>3. ~Reserved(k) /\ Hears(k, k2) /\ (Account(k, n) => Account(k2, n))
    BY <1>0, <2>1, <2>2 DEF Reserved, Hears, Account
  <2> QED BY <2>1, <2>2, <2>3 DEF OnQueue
<1>2. CASE ~(k.bytes + 1 > MAX_EVENT_QUEUE_BYTES)
  <2> DEFINE k2 == [k EXCEPT !.bytes = @ + 1]
  <2>1. /\ k2 \in Conns /\ k2.got = k.got /\ k2.frame = k.frame /\ k2.queue = k.queue
        /\ k2.writer = k.writer /\ k2.poisoned = k.poisoned /\ k2.permit = k.permit /\ k2.bytes = k.bytes + 1
        /\ k2.client = k.client /\ k2.reader = k.reader /\ k2.on = k.on
    <3> DEFINE b == k.bytes + 1
    <3>1. b \in Int /\ k2 = [k EXCEPT !.bytes = b]
      BY <1>0
    <3> HIDE DEF b, k2
    <3>2. /\ k2 \in Conns /\ k2.got = k.got /\ k2.frame = k.frame /\ k2.queue = k.queue
          /\ k2.writer = k.writer /\ k2.poisoned = k.poisoned /\ k2.permit = k.permit /\ k2.bytes = b
          /\ k2.client = k.client /\ k2.reader = k.reader /\ k2.on = k.on
      BY <3>1, BytesFacts
    <3> QED BY <3>2 DEF b
  <2>2. reserve_bytes(k) = k2
    BY <1>2 DEF reserve_bytes
  <2> HIDE DEF k2
  <2>3. QueueBooks(k2) /\ Keeps(k, k2) /\ (Closing(k2) <=> Closing(k))
    BY <2>1, QueueStays
  <2>4. Reserved(k) /\ Hears(k, k2) /\ (Account(k, n) => Account(k2, n + 1))
    BY <1>0, <1>2, <2>1, <2>2 DEF Reserved, Hears, Account
  <2> QED BY <2>1, <2>2, <2>3, <2>4 DEF OnQueue
<1> QED BY <1>1, <1>2
LEMMA SendFacts ==
  ASSUME NEW k \in Conns, NEW f \in Frames, NEW n \in Int, QueueBooks(k), f.kind \in {"started", "event"},
         k.writer = "gone" \/ (k.writer # "none" /\ MayFollow(StreamOf(k), f))
  PROVE  LET k2 == send(k, f)
         IN  /\ k2 \in Conns /\ OnQueue(k, k2) /\ (Closing(k2) => Closing(k))
             /\ k2.poisoned \/ Has(StreamOf(k2), f)
             /\ Account(k, n) => Account(k2, n)
<1>1. CASE k.poisoned
  <2>1. send(k, f) = k
    BY <1>1 DEF send
  <2>2. OnQueue(k, k)
    BY DEF OnQueue, Keeps, Hears
  <2> QED BY <1>1, <2>1, <2>2
<1>2. CASE ~k.poisoned
  <2> DEFINE k1 == reserve_bytes(k)
  <2>1. /\ k1 \in Conns /\ OnQueue(k, k1) /\ (Closing(k1) <=> Closing(k))
        /\ k1.got = k.got /\ k1.frame = k.frame /\ k1.queue = k.queue
        /\ Reserved(k) => (Account(k, n) => Account(k1, n + 1))
        /\ ~Reserved(k) => k1.poisoned /\ (Account(k, n) => Account(k1, n))
    BY <1>2, ReserveFacts
  <2>2. send(k, f) = IF Reserved(k) THEN Push(k1, f) ELSE k1
    BY <1>2 DEF send
  <2> HIDE DEF k1
  <2>3. CASE ~Reserved(k)
    BY <2>1, <2>2, <2>3
  <2>4. CASE Reserved(k)
    <3> DEFINE k2 == Push(k1, f)
    <3>1. QueueBooks(k1) /\ (k1.writer = "gone" \/ (k1.writer # "none" /\ MayFollow(StreamOf(k1), f)))
      <4>1. StreamOf(k1) = StreamOf(k) /\ k1.writer = k.writer
        BY <2>1, StreamSame DEF OnQueue
      <4> QED BY <2>1, <4>1 DEF OnQueue
    <3>2. /\ k2 \in Conns /\ OnQueue(k1, k2) /\ (Closing(k2) => Closing(k1))
          /\ k2.poisoned \/ Has(StreamOf(k2), f)
          /\ Account(k1, n + 1) => Account(k2, n)
      BY <2>1, <3>1, PushFacts
    <3> HIDE DEF k2
    <3>3. ~Closing(k2)
      BY <1>2, <2>1, <3>2 DEF QueueBooks
    <3>4. Keeps(k, k2)
      BY <2>1, <3>2 DEF OnQueue, Keeps
    <3>5. OnQueue(k, k2)
      BY <2>1, <3>2, <3>3, <3>4 DEF OnQueue, Hears
    <3>6. send(k, f) = k2
      BY <2>2, <2>4 DEF k2
    <3> QED BY <2>1, <2>4, <3>2, <3>3, <3>5, <3>6
  <2> QED BY <2>3, <2>4
<1> QED BY <1>1, <1>2

LEMMA ResponseFacts ==
  ASSUME NEW k \in Conns, NEW f \in Frames, NEW n \in Int, QueueBooks(k), k.writer # "none",
         f.kind = "accepted" \/ (f.kind = "response" /\ f.req = "none")
  PROVE  LET k2 == send_response(k, f)
         IN  /\ k2 \in Conns /\ OnQueue(k, k2) /\ (Closing(k2) => Closing(k))
             /\ IF Queued(k) THEN Has(StreamOf(k2), f) ELSE k2.poisoned
             /\ Account(k, n) => Account(k2, n)
<1>1. CASE k.poisoned
  <2>1. send_response(k, f) = k /\ ~Queued(k)
    BY <1>1 DEF send_response, Queued
  <2>2. OnQueue(k, k)
    BY DEF OnQueue, Keeps, Hears
  <2> QED BY <1>1, <2>1, <2>2
<1>2. CASE ~k.poisoned /\ try_send_fails(k)
  <2> DEFINE k2 == poison_connection([k EXCEPT !.bytes = k.bytes])
  <2>1. send_response(k, f) = k2 /\ ~Queued(k)
    <3>1. [k EXCEPT !.bytes = k.bytes] = k
      BY DEF Conns
    <3> QED BY <1>2, <3>1 DEF send_response, Queued
  <2>2. k.bytes \in Int
    BY DEF Conns
  <2> HIDE DEF k2
  <2>3. /\ k2 \in Conns /\ QueueBooks(k2) /\ Keeps(k, k2) /\ (Closing(k2) <=> Closing(k))
        /\ k2.poisoned /\ k2.bytes = k.bytes /\ k2.frame = k.frame /\ k2.queue = k.queue
        /\ k2.client = k.client /\ k2.reader = k.reader /\ k2.on = k.on /\ k2.writer = k.writer
    BY <2>2, Poisoned DEF k2
  <2>4. OnQueue(k, k2) /\ (Account(k, n) => Account(k2, n))
    BY <1>2, <2>3 DEF OnQueue, Hears, QueueBooks, Account
  <2> QED BY <2>1, <2>3, <2>4
<1>3. CASE ~k.poisoned /\ ~try_send_fails(k)
  <2> DEFINE k2 == [k EXCEPT !.queue = Append(@, f)]
  <2>1. send_response(k, f) = k2 /\ Queued(k)
    BY <1>3 DEF send_response, Queued
  <2>2. /\ k2 \in Conns /\ k2.got = k.got /\ k2.frame = k.frame /\ k2.queue = Append(k.queue, f)
        /\ k2.writer = k.writer /\ k2.poisoned = k.poisoned /\ k2.permit = k.permit /\ k2.bytes = k.bytes
        /\ k2.client = k.client /\ k2.reader = k.reader /\ k2.on = k.on
    BY AppendFacts
  <2> HIDE DEF k2
  <2>3. k.writer \in {"waiting", "writing"} /\ Len(k.queue) # EVENT_QUEUE_SLOTS /\ MayFollow(StreamOf(k), f)
    BY <1>3 DEF try_send_fails, Conns, MayFollow
  <2>4. /\ QueueBooks(k2) /\ Keeps(k, k2) /\ Has(StreamOf(k2), f) /\ (Closing(k2) => Closing(k))
        /\ EvCount(k2.queue) = EvCount(k.queue) + Ev(f)
    BY <2>2, <2>3, QueueGrows
  <2>5. Ev(f) = 0 /\ EvCount(k.queue) \in Nat
    BY StreamTyped, CountNat DEF Ev, ServerEvent
  <2>6. OnQueue(k, k2) /\ (Account(k, n) => Account(k2, n))
    BY <2>2, <2>4, <2>5 DEF OnQueue, Hears, Account
  <2> QED BY <2>1, <2>2, <2>4, <2>6
<1> QED BY <1>1, <1>2, <1>3

LEMMA CloseFacts ==
  ASSUME NEW k \in Conns, NEW n \in Int, QueueBooks(k), k.writer # "none"
  PROVE  LET k2 == send_response_and_close(k)
         IN  k2 \in Conns /\ OnQueue(k, k2) /\ (Account(k, n) => Account(k2, n))
<1>1. CASE k.poisoned
  <2>1. send_response_and_close(k) = k
    BY <1>1 DEF send_response_and_close
  <2>2. OnQueue(k, k)
    BY DEF OnQueue, Keeps, Hears
  <2> QED BY <1>1, <2>1, <2>2
<1>2. CASE ~k.poisoned /\ try_send_fails(k)
  <2>1. send_response_and_close(k) = send_response(k, Frame("accepted", "none"))
    BY <1>2 DEF send_response_and_close, send_response
  <2> DEFINE k2 == send_response(k, Frame("accepted", "none"))
  <2>2. Frame("accepted", "none") \in Frames /\ Frame("accepted", "none").kind = "accepted"
    BY FrameFacts
  <2>3. k2 \in Conns /\ OnQueue(k, k2) /\ (Account(k, n) => Account(k2, n))
    BY <2>2, ResponseFacts
  <2> HIDE DEF k2
  <2> QED BY <2>1, <2>3 DEF k2
<1>3. CASE ~k.poisoned /\ ~try_send_fails(k)
  <2> DEFINE f == Frame("closing", "none")
             k1 == [k EXCEPT !.queue = Append(@, f)]
             k2 == [k1 EXCEPT !.poisoned = TRUE]
  <2>1. f \in Frames /\ f.kind = "closing" /\ f.req = "none"
    BY FrameFacts
  <2>2. send_response_and_close(k) = k2
    BY <1>3 DEF send_response_and_close
  <2> HIDE DEF f
  <2>3. /\ k1 \in Conns /\ k1.got = k.got /\ k1.frame = k.frame /\ k1.queue = Append(k.queue, f)
        /\ k1.writer = k.writer /\ k1.permit = k.permit /\ k1.bytes = k.bytes
        /\ k1.client = k.client /\ k1.reader = k.reader /\ k1.on = k.on
    BY <2>1, AppendFacts
  <2> HIDE DEF k1
  <2>4. /\ k2 \in Conns /\ k2.got = k.got /\ k2.frame = k.frame /\ k2.queue = Append(k.queue, f)
        /\ k2.writer = k.writer /\ k2.poisoned /\ k2.permit = k.permit /\ k2.bytes = k.bytes
        /\ k2.client = k.client /\ k2.reader = k.reader /\ k2.on = k.on
    BY <2>3 DEF Conns
  <2> HIDE DEF k2
  <2>5. k.writer \in {"waiting", "writing"} /\ Len(k.queue) # EVENT_QUEUE_SLOTS /\ MayFollow(StreamOf(k), f)
    BY <1>3, <2>1 DEF try_send_fails, Conns, MayFollow
  <2>6. /\ QueueBooks(k2) /\ Keeps(k, k2) /\ EvCount(k2.queue) = EvCount(k.queue) + Ev(f)
    BY <2>1, <2>4, <2>5, QueueGrows
  <2>7. Ev(f) = 0 /\ EvCount(k.queue) \in Nat
    BY <2>1, StreamTyped, CountNat DEF Ev, ServerEvent
  <2>8. OnQueue(k, k2) /\ (Account(k, n) => Account(k2, n))
    BY <2>4, <2>6, <2>7 DEF OnQueue, Hears, Account
  <2> QED BY <2>2, <2>4, <2>8
<1> QED BY <1>1, <1>2, <1>3
-----------------------------------------------------------------------------
(* Steps of a connection and of a run, beside all the others.              *)

\* A run's books go on when its connection moves without it.
LEMMA RunKeeps ==
  ASSUME NEW r \in Requests, NEW q, NEW k, NEW k2, RunBooks(r, q, k), Keeps(k, k2),
         \/ k2.reader = k.reader /\ k2.on = k.on
         \/ k.on # r /\ k2.on # r /\ k2.reader \notin {"waiting", "foreign"}
  PROVE  RunBooks(r, q, k2)
<1>1. \A kind : Told(k, kind, r) => Told(k2, kind, r)
  <2> TAKE kind
  <2>1. Frame(kind, r).req # "none"
    BY ApiAssumption DEF Frame
  <2> QED BY <2>1 DEF Told, Keeps
<1>2. k.poisoned => k2.poisoned
  BY DEF Keeps
<1>3. CASE k2.reader = k.reader /\ k2.on = k.on
  BY <1>1, <1>2, <1>3 DEF RunBooks, Opens
<1>4. CASE k.on # r /\ k2.on # r /\ k2.reader \notin {"waiting", "foreign"}
  BY <1>1, <1>2, <1>4 DEF RunBooks, Opens
<1> QED BY <1>3, <1>4

LEMMA FlightCount ==
  ASSUME NEW c
  PROVE  IsFiniteSet(InFlight(c)) /\ Cardinality(InFlight(c)) \in Nat
<1>1. InFlight(c) \in SUBSET Requests
  BY DEF InFlight
<1> QED BY <1>1, ApiAssumption, FS_Subset, FS_CardinalityType

LEMMA NoReqFacts ==
  NoReq.from = "none" /\ NoReq.pc = "none" /\ \A c \in Clients : c # "none"
  BY ApiAssumption DEF NoReq

\* Before a connection is served nothing runs for it.
LEMMA NobodyYet ==
  ASSUME Links, NEW c \in Clients, conn[c].reader \in {"waiting", "foreign"}
  PROVE  (\A r \in Requests : req[r].from # c) /\ InFlight(c) = {} /\ Cardinality(InFlight(c)) = 0
<1>1. \A r \in Requests : req[r].from # c
  BY ApiAssumption DEF Links, RunBooks
<1>2. InFlight(c) = {}
  BY <1>1 DEF InFlight
<1> QED BY <1>1, <1>2, FS_EmptySet

\* The reader's hands stay as they are, or they are empty.
HandsStay(k, k2) ==
    \/ k2.reader = k.reader /\ k2.on = k.on
    \/ k.on = "none" /\ k2.on = "none" /\ k2.reader \notin {"waiting", "foreign"}

LEMMA ClientLinks ==
  ASSUME ApiBooks, NEW c \in Clients, NEW k2 \in Conns, conn' = [conn EXCEPT ![c] = k2], req' = req,
         QueueBooks(k2), ReaderBooks(k2), Account(k2, Cardinality(InFlight(c))),
         k2.on # "none" => k2.on = conn[c].on,
         (Keeps(conn[c], k2) /\ HandsStay(conn[c], k2)) \/ conn[c].reader \in {"waiting", "foreign"}
  PROVE  Links'
<1>1. conn'[c] = k2 /\ \A d \in Clients : d # c => conn'[d] = conn[d]
  BY DEF ApiBooks, ApiTyped
<1>2. ASSUME NEW d \in Clients
      PROVE  /\ QueueBooks(conn'[d]) /\ ReaderBooks(conn'[d])
             /\ Account(conn'[d], Cardinality(InFlight(d)'))
             /\ conn'[d].on # "none" => req'[conn'[d].on].from = d
  <2>1. InFlight(d)' = InFlight(d)
    BY DEF InFlight
  <2>2. CASE d = c
    BY <1>1, <2>1, <2>2 DEF ApiBooks, Links
  <2>3. CASE d # c
    BY <1>1, <2>1, <2>3 DEF ApiBooks, Links
  <2> QED BY <2>2, <2>3
<1>3. ASSUME NEW r \in Requests
      PROVE  IF req'[r].from = "none" THEN req'[r] = NoReq ELSE RunBooks(r, req'[r], conn'[req'[r].from])
  <2>1. IF req[r].from = "none" THEN req[r] = NoReq ELSE RunBooks(r, req[r], conn[req[r].from])
    BY DEF ApiBooks, Links
  <2>2. CASE req[r].from # c
    <3>1. req[r].from \in Clients \union {"none"}
      BY DEF ApiBooks, ApiTyped, Reqs
    <3> QED BY <1>1, <2>1, <2>2, <3>1
  <2>3. CASE req[r].from = c
    <3>1. c # "none" /\ conn[c].reader \notin {"waiting", "foreign"}
      BY <2>3, ApiAssumption, NobodyYet DEF ApiBooks
    <3>2. RunBooks(r, req[r], conn[c]) /\ Keeps(conn[c], k2) /\ HandsStay(conn[c], k2)
      BY <2>1, <2>3, <3>1
    <3>3. \/ k2.reader = conn[c].reader /\ k2.on = conn[c].on
          \/ conn[c].on # r /\ k2.on # r /\ k2.reader \notin {"waiting", "foreign"}
      BY <3>2, ApiAssumption DEF HandsStay
    <3>4. RunBooks(r, req[r], k2)
      BY <3>2, <3>3, RunKeeps
    <3> QED BY <1>1, <2>3, <3>1, <3>4
  <2> QED BY <2>2, <2>3
<1> QED BY <1>2, <1>3 DEF Links

\* One event more or less about to be queued.
Moving(q) == IF q.pc \in {"look", "push"} THEN 1 ELSE 0

LEMMA FlightMoves ==
  ASSUME ApiTyped, NEW c \in Clients, NEW r \in Requests, NEW q2 \in Reqs, req' = [req EXCEPT ![r] = q2],
         q2.from = c, req[r].from = c \/ req[r] = NoReq
  PROVE  /\ Cardinality(InFlight(c)') = Cardinality(InFlight(c)) - Moving(req[r]) + Moving(q2)
         /\ \A d \in Clients : d # c => InFlight(d)' = InFlight(d)
<1>1. req'[r] = q2 /\ \A o \in Requests : o # r => req'[o] = req[o]
  BY DEF ApiTyped
<1>2. \A d \in Clients : d # c => InFlight(d)' = InFlight(d)
  BY <1>1, NoReqFacts DEF InFlight
<1>3. InFlight(c)' = IF q2.pc \in {"look", "push"} THEN (InFlight(c) \ {r}) \union {r} ELSE InFlight(c) \ {r}
  BY <1>1 DEF InFlight
<1>4. r \in InFlight(c) <=> req[r].pc \in {"look", "push"}
  BY NoReqFacts DEF InFlight
<1> DEFINE S == InFlight(c)
           T == S \ {r}
<1>5. IsFiniteSet(S) /\ Cardinality(S) \in Nat
  BY FlightCount
<1> HIDE DEF S
<1>6. IsFiniteSet(T) /\ Cardinality(T) = IF r \in S THEN Cardinality(S) - 1 ELSE Cardinality(S)
  BY <1>5, FS_RemoveElement
<1>7. r \notin T
  OBVIOUS
<1> HIDE DEF T
<1>8. Cardinality(T \union {r}) = Cardinality(T) + 1
  BY <1>6, <1>7, FS_AddElement
<1>9. Cardinality(T) = Cardinality(S) - Moving(req[r])
  BY <1>4, <1>5, <1>6 DEF Moving, S
<1>10. Cardinality(IF q2.pc \in {"look", "push"} THEN T \union {r} ELSE T) = Cardinality(T) + Moving(q2)
  <2>1. Cardinality(T) \in Int
    BY <1>5, <1>6
  <2> QED BY <1>8, <2>1 DEF Moving
<1> QED BY <1>2, <1>3, <1>9, <1>10 DEF S, T

LEMMA RunLinks ==
  ASSUME ApiBooks, NEW c \in Clients, NEW r \in Requests, NEW k2 \in Conns, NEW q2 \in Reqs,
         conn' = [conn EXCEPT ![c] = k2], req' = [req EXCEPT ![r] = q2],
         q2.from = c, req[r].from = c \/ req[r] = NoReq,
         QueueBooks(k2), ReaderBooks(k2), RunBooks(r, q2, k2),
         Account(k2, Cardinality(InFlight(c)) - Moving(req[r]) + Moving(q2)),
         k2.on \notin {"none", r} => k2.on = conn[c].on,
         Keeps(conn[c], k2),
         \/ k2.reader = conn[c].reader /\ k2.on = conn[c].on
         \/ {conn[c].on, k2.on} \subseteq {"none", r} /\ k2.reader \notin {"waiting", "foreign"}
  PROVE  Links'
<1>1. conn'[c] = k2 /\ \A d \in Clients : d # c => conn'[d] = conn[d]
  BY DEF ApiBooks, ApiTyped
<1>2. req'[r] = q2 /\ \A o \in Requests : o # r => req'[o] = req[o]
  BY DEF ApiBooks, ApiTyped
<1>3. /\ Cardinality(InFlight(c)') = Cardinality(InFlight(c)) - Moving(req[r]) + Moving(q2)
      /\ \A d \in Clients : d # c => InFlight(d)' = InFlight(d)
  BY FlightMoves DEF ApiBooks
<1>4. ASSUME NEW d \in Clients
      PROVE  /\ QueueBooks(conn'[d]) /\ ReaderBooks(conn'[d])
             /\ Account(conn'[d], Cardinality(InFlight(d)'))
             /\ conn'[d].on # "none" => req'[conn'[d].on].from = d
  <2>1. conn[d] \in Conns /\ (conn[d].on # "none" => conn[d].on \in Requests /\ req[conn[d].on].from = d)
    BY DEF ApiBooks, ApiTyped, Links, Conns
  <2>2. CASE d = c
    <3>1. QueueBooks(conn'[d]) /\ ReaderBooks(conn'[d]) /\ Account(conn'[d], Cardinality(InFlight(d)'))
      BY <1>1, <1>3, <2>2
    <3>2. k2.on # "none" => req'[k2.on].from = c
      BY <1>2, <2>1, <2>2
    <3> QED BY <1>1, <2>2, <3>1, <3>2
  <2>3. CASE d # c
    <3>1. QueueBooks(conn'[d]) /\ ReaderBooks(conn'[d]) /\ Account(conn'[d], Cardinality(InFlight(d)'))
      BY <1>1, <1>3, <2>3 DEF ApiBooks, Links
    <3>2. conn[d].on # "none" => req'[conn[d].on].from = d
      BY <1>2, <2>1, <2>3, NoReqFacts
    <3> QED BY <1>1, <2>3, <3>1, <3>2
  <2> QED BY <2>2, <2>3
<1>5. ASSUME NEW o \in Requests
      PROVE  IF req'[o].from = "none" THEN req'[o] = NoReq ELSE RunBooks(o, req'[o], conn'[req'[o].from])
  <2>1. IF req[o].from = "none" THEN req[o] = NoReq ELSE RunBooks(o, req[o], conn[req[o].from])
    BY DEF ApiBooks, Links
  <2>2. CASE o = r
    <3>1. c # "none"
      BY ApiAssumption
    <3> QED BY <1>1, <1>2, <2>2, <3>1
  <2>3. CASE o # r /\ req[o].from # c
    <3>1. req[o].from \in Clients \union {"none"}
      BY DEF ApiBooks, ApiTyped, Reqs
    <3> QED BY <1>1, <1>2, <2>1, <2>3, <3>1
  <2>4. CASE o # r /\ req[o].from = c
    <3>1. c # "none" /\ RunBooks(o, req[o], conn[c])
      BY <2>1, <2>4, ApiAssumption
    <3>2. \/ k2.reader = conn[c].reader /\ k2.on = conn[c].on
          \/ conn[c].on # o /\ k2.on # o /\ k2.reader \notin {"waiting", "foreign"}
      BY <2>4, ApiAssumption
    <3>3. RunBooks(o, req[o], k2)
      BY <3>1, <3>2, RunKeeps
    <3> QED BY <1>1, <1>2, <2>4, <3>1, <3>3
  <2> QED BY <2>2, <2>3, <2>4
<1> QED BY <1>4, <1>5 DEF Links
\* LastWordIsHeard, of one step.
WordKept == \A c \in Clients : Hears(conn[c], conn'[c])

LEMMA SlotsStay ==
  ASSUME ApiBooks, NEW c \in Clients, NEW k2, conn' = [conn EXCEPT ![c] = k2], served' = served,
         conn[c].reader \in {"waiting", "ended"} <=> k2.reader \in {"waiting", "ended"}
  PROVE  SlotsAreConnections'
<1>1. \A d \in Clients : Serving(d)' <=> Serving(d)
  BY DEF ApiBooks, ApiTyped, Serving
<1>2. {d \in Clients : Serving(d)}' = {d \in Clients : Serving(d)}
  BY <1>1
<1> QED BY <1>2 DEF ApiBooks, SlotsAreConnections

LEMMA OneConnMoves ==
  ASSUME ApiBooks, NEW c \in Clients, NEW k2 \in Conns, conn' = [conn EXCEPT ![c] = k2]
  PROVE  /\ conn' \in [Clients -> Conns] /\ conn'[c] = k2 /\ \A d \in Clients : d # c => conn'[d] = conn[d]
         /\ Hears(conn[c], k2) => WordKept
<1>1. conn' \in [Clients -> Conns] /\ conn'[c] = k2 /\ \A d \in Clients : d # c => conn'[d] = conn[d]
  BY DEF ApiBooks, ApiTyped
<1>2. \A d \in Clients : Hears(conn[d], conn[d])
  BY DEF Hears
<1> QED BY <1>1, <1>2 DEF WordKept

\* Whoever is turned away waits for it.
LEMMA TurnedAwayStays ==
  ASSUME ApiBooks, NEW c \in Clients, NEW k2 \in Conns, conn' = [conn EXCEPT ![c] = k2],
         conn[c].reader # "waiting"
  PROVE  listener \in {"accepting", "closed"} \union {d \in Clients : conn'[d].reader = "waiting"}
  BY OneConnMoves DEF ApiBooks, ApiTyped

\* One connection moves, and no run with it.
LEMMA ClientMoves ==
  ASSUME ApiBooks, NEW c \in Clients, NEW k2 \in Conns, conn' = [conn EXCEPT ![c] = k2],
         UNCHANGED <<listener, served, stopping, req>>, taken' \in 0 .. MaxRead,
         QueueBooks(k2), ReaderBooks(k2), Account(k2, Cardinality(InFlight(c))),
         Keeps(conn[c], k2), Hears(conn[c], k2), HandsStay(conn[c], k2),
         conn[c].reader # "waiting", conn[c].reader = "ended" <=> k2.reader = "ended", k2.reader # "waiting"
  PROVE  ApiBooks' /\ WordKept
<1>1. k2.on # "none" => k2.on = conn[c].on
  BY DEF HandsStay
<1>2. Links'
  BY <1>1, ClientLinks
<1>3. SlotsAreConnections'
  BY SlotsStay
<1>4. ApiTyped' /\ WordKept
  BY OneConnMoves, TurnedAwayStays DEF ApiBooks, ApiTyped
<1> QED BY <1>2, <1>3, <1>4 DEF ApiBooks

\* A connection and a run move.
LEMMA RunMoves ==
  ASSUME ApiBooks, NEW c \in Clients, NEW r \in Requests, NEW k2 \in Conns, NEW q2 \in Reqs,
         conn' = [conn EXCEPT ![c] = k2], req' = [req EXCEPT ![r] = q2],
         UNCHANGED <<listener, served, stopping>>, taken' \in 0 .. MaxRead,
         q2.from = c, req[r].from = c \/ req[r] = NoReq,
         QueueBooks(k2), ReaderBooks(k2), RunBooks(r, q2, k2),
         Account(k2, Cardinality(InFlight(c)) - Moving(req[r]) + Moving(q2)),
         k2.on \notin {"none", r} => k2.on = conn[c].on,
         Keeps(conn[c], k2), Hears(conn[c], k2), conn[c].reader # "waiting",
         \/ k2.reader = conn[c].reader /\ k2.on = conn[c].on
         \/ /\ {conn[c].on, k2.on} \subseteq {"none", r} /\ k2.reader \notin {"waiting", "foreign"}
            /\ conn[c].reader = "ended" <=> k2.reader = "ended"
  PROVE  ApiBooks' /\ WordKept
<1>1. Links'
  BY RunLinks
<1>2. SlotsAreConnections'
  BY SlotsStay
<1>3. ApiTyped' /\ WordKept
  <2>1. req' \in [Requests -> Reqs]
    BY DEF ApiBooks, ApiTyped
  <2> QED BY <2>1, OneConnMoves, TurnedAwayStays DEF ApiBooks, ApiTyped
<1> QED BY <1>1, <1>2, <1>3 DEF ApiBooks

\* All but the reader and what it holds is the same.
SameButReader(k1, k2) ==
    /\ k2.got = k1.got /\ k2.frame = k1.frame /\ k2.queue = k1.queue
    /\ k2.writer = k1.writer /\ k2.poisoned = k1.poisoned /\ k2.permit = k1.permit /\ k2.bytes = k1.bytes

LEMMA ReaderSet ==
  ASSUME NEW k1 \in Conns, NEW x \in Readers
  PROVE  LET k2 == [k1 EXCEPT !.reader = x]
         IN  k2 \in Conns /\ SameButReader(k1, k2) /\ k2.reader = x /\ k2.on = k1.on /\ k2.client = k1.client
  BY DEF Conns, SameButReader

InHand(k, x, o) == [k EXCEPT !.reader = x, !.on = o]

LEMMA HandsSet ==
  ASSUME NEW k1 \in Conns, NEW x \in Readers, NEW o \in Requests \union {"none"}
  PROVE  LET k2 == InHand(k1, x, o)
         IN  k2 \in Conns /\ SameButReader(k1, k2) /\ k2.reader = x /\ k2.on = o /\ k2.client = k1.client
  BY DEF Conns, SameButReader, InHand

LEMMA ReaderTurns ==
  ASSUME NEW k \in Conns, NEW k1 \in Conns, NEW k2 \in Conns, SameButReader(k1, k2),
         QueueBooks(k1), Keeps(k, k1), Hears(k, k1)
  PROVE  /\ QueueBooks(k2) /\ Keeps(k, k2) /\ Hears(k, k2)
         /\ StreamOf(k2) = StreamOf(k1) /\ (Closing(k2) <=> Closing(k1))
         /\ \A n : Account(k1, n) => Account(k2, n)
<1>1. /\ k2.writer = k1.writer /\ k2.poisoned = k1.poisoned
      /\ k2.got = k1.got /\ k2.frame = k1.frame /\ k2.queue = k1.queue
      /\ k2.bytes = k1.bytes /\ k2.permit = k1.permit
  BY DEF SameButReader
<1>2. StreamOf(k2) = StreamOf(k1) /\ (Closing(k2) <=> Closing(k1)) /\ QueueBooks(k2)
  BY <1>1, StreamSame, QueueStays
<1>3. Keeps(k, k2) /\ Hears(k, k2)
  BY <1>1, <1>2 DEF Keeps, Hears
<1>4. \A n : Account(k1, n) => Account(k2, n)
  BY <1>1 DEF Account
<1> QED BY <1>2, <1>3, <1>4

\* What the books say of one connection.
LEMMA AtClient ==
  ASSUME ApiBooks, NEW c \in Clients
  PROVE  /\ conn[c] \in Conns /\ QueueBooks(conn[c]) /\ ReaderBooks(conn[c])
         /\ Account(conn[c], Cardinality(InFlight(c))) /\ Cardinality(InFlight(c)) \in Nat
         /\ Keeps(conn[c], conn[c]) /\ Hears(conn[c], conn[c]) /\ taken \in 0 .. MaxRead
<1>1. Cardinality(InFlight(c)) \in Nat
  BY FlightCount
<1> QED BY <1>1 DEF ApiBooks, ApiTyped, Links, Keeps, Hears

\* The reader, and what it leaves of the connection.
LEMMA ReaderMoves ==
  ASSUME ApiBooks, NEW c \in Clients, NEW k1 \in Conns, NEW x \in Readers,
         conn' = [conn EXCEPT ![c] = [k1 EXCEPT !.reader = x]],
         UNCHANGED <<listener, served, stopping, req>>, taken' \in 0 .. MaxRead,
         conn[c].reader \in {"idle", "typed"}, x \in {"idle", "typed", "draining"},
         OnQueue(conn[c], k1), Closing(k1) => x = "draining",
         Account(conn[c], Cardinality(InFlight(c))) => Account(k1, Cardinality(InFlight(c)))
  PROVE  ApiBooks' /\ WordKept
<1> DEFINE k == conn[c]
           k2 == [k1 EXCEPT !.reader = x]
<1>1. k \in Conns /\ ReaderBooks(k) /\ Account(k1, Cardinality(InFlight(c)))
  BY AtClient
<1>2. k1.on = "none" /\ k.on = "none" /\ k1.writer \notin {"none"}
  BY <1>1 DEF OnQueue, ReaderBooks
<1>3. k2 \in Conns /\ SameButReader(k1, k2) /\ k2.reader = x /\ k2.on = k1.on
  BY ReaderSet
<1> HIDE DEF k2
<1>4. /\ QueueBooks(k2) /\ Keeps(k, k2) /\ Hears(k, k2) /\ (Closing(k2) <=> Closing(k1))
      /\ Account(k2, Cardinality(InFlight(c))) /\ k2.writer = k1.writer
  BY <1>1, <1>3, ReaderTurns DEF OnQueue, SameButReader
<1>5. ReaderBooks(k2)
  BY <1>2, <1>3, <1>4 DEF ReaderBooks
<1>6. HandsStay(k, k2)
  BY <1>2, <1>3 DEF HandsStay
<1> QED BY <1>3, <1>4, <1>5, <1>6, ClientMoves DEF k2
-----------------------------------------------------------------------------
(* The reader, between messages.                                           *)

LEMMA IdleReader ==
  ASSUME ApiBooks, NEW c \in Clients, conn[c].reader \in {"idle", "typed"}
  PROVE  /\ conn[c] \in Conns /\ QueueBooks(conn[c]) /\ conn[c].writer # "none"
         /\ conn[c].on = "none" /\ ~Closing(conn[c]) /\ OnQueue(conn[c], conn[c])
         /\ Cardinality(InFlight(c)) \in Int
<1>1. /\ conn[c] \in Conns /\ QueueBooks(conn[c]) /\ ReaderBooks(conn[c])
      /\ Keeps(conn[c], conn[c]) /\ Hears(conn[c], conn[c]) /\ Cardinality(InFlight(c)) \in Nat
  BY AtClient
<1> QED BY <1>1 DEF ReaderBooks, OnQueue

LEMMA OneLineMore ==
  ASSUME ApiBooks, taken < MaxRead
  PROVE  taken + 1 \in 0 .. MaxRead
<1>1. taken \in 0 .. MaxRead /\ MaxRead \in Nat
  BY ApiAssumption DEF ApiBooks, ApiTyped
<1> QED BY <1>1

LEMMA StepReadPlain ==
  ASSUME ApiBooks, NEW c \in Clients, NEW l \in Lines, NEW over \in BOOLEAN, ReadPlain(c, l, over)
  PROVE  ApiBooks' /\ WordKept
<1> DEFINE k == conn[c]
           f == Frame("response", "none")
           k1 == send_response(k, f)
           x == IF Queued(k) THEN "idle" ELSE "draining"
<1>1. /\ k.reader = "idle" /\ taken' \in 0 .. MaxRead
      /\ conn' = [conn EXCEPT ![c] = [k1 EXCEPT !.reader = x]]
      /\ UNCHANGED <<listener, served, stopping, req>>
  BY OneLineMore DEF ReadPlain, Reading
<1>2. f \in Frames /\ f.kind = "response" /\ f.req = "none"
  BY FrameFacts
<1> HIDE DEF f
<1>3. /\ k \in Conns /\ QueueBooks(k) /\ k.writer # "none" /\ ~Closing(k) /\ Cardinality(InFlight(c)) \in Int
  BY <1>1, IdleReader
<1>4. /\ k1 \in Conns /\ OnQueue(k, k1) /\ (Closing(k1) => Closing(k))
      /\ Account(k, Cardinality(InFlight(c))) => Account(k1, Cardinality(InFlight(c)))
  BY <1>2, <1>3, ResponseFacts
<1>5. x \in Readers /\ x \in {"idle", "typed", "draining"}
  BY DEF Readers
<1> HIDE DEF k1, x
<1> QED BY <1>1, <1>3, <1>4, <1>5, ReaderMoves

LEMMA StepReadOversized ==
  ASSUME ApiBooks, NEW c \in Clients, NEW l \in Lines, ReadOversized(c, l)
  PROVE  ApiBooks' /\ WordKept
<1> DEFINE k == conn[c]
           k1 == send_response_and_close(k)
<1>1. /\ k.reader = "idle" /\ taken' \in 0 .. MaxRead
      /\ conn' = [conn EXCEPT ![c] = [k1 EXCEPT !.reader = "draining"]]
      /\ UNCHANGED <<listener, served, stopping, req>>
  BY OneLineMore DEF ReadOversized, Reading
<1>2. k \in Conns /\ QueueBooks(k) /\ k.writer # "none" /\ Cardinality(InFlight(c)) \in Int
  BY <1>1, IdleReader
<1>3. /\ k1 \in Conns /\ OnQueue(k, k1)
      /\ Account(k, Cardinality(InFlight(c))) => Account(k1, Cardinality(InFlight(c)))
  BY <1>2, CloseFacts
<1>4. "draining" \in Readers
  BY DEF Readers
<1> HIDE DEF k1
<1> QED BY <1>1, <1>3, <1>4, ReaderMoves

LEMMA StepReadTyped ==
  ASSUME ApiBooks, NEW c \in Clients, NEW l \in Lines, ReadTyped(c, l)
  PROVE  ApiBooks' /\ WordKept
<1>1. /\ conn[c].reader = "idle" /\ taken' \in 0 .. MaxRead
      /\ conn' = [conn EXCEPT ![c] = [conn[c] EXCEPT !.reader = "typed"]]
      /\ UNCHANGED <<listener, served, stopping, req>>
  BY OneLineMore DEF ReadTyped, Reading
<1>2. conn[c] \in Conns /\ ~Closing(conn[c]) /\ OnQueue(conn[c], conn[c])
  BY <1>1, IdleReader
<1>3. "typed" \in Readers
  BY DEF Readers
<1> QED BY <1>1, <1>2, <1>3, ReaderMoves

LEMMA StepTypedAnswer ==
  ASSUME ApiBooks, NEW c \in Clients, TypedAnswer(c)
  PROVE  ApiBooks' /\ WordKept
<1> DEFINE k == conn[c]
           e == Frame("event", "none")
           f == Frame("response", "none")
           k0 == send(k, e)
           k1 == send_response(k0, f)
           x == IF Queued(k0) THEN "idle" ELSE "draining"
           n == Cardinality(InFlight(c))
<1>1. /\ k.reader = "typed" /\ taken' \in 0 .. MaxRead
      /\ conn' = [conn EXCEPT ![c] = [k1 EXCEPT !.reader = x]]
      /\ UNCHANGED <<listener, served, stopping, req>>
  BY AtClient DEF TypedAnswer
<1>2. /\ f \in Frames /\ f.kind = "response" /\ f.req = "none"
      /\ e \in Frames /\ e.kind = "event" /\ e.req = "none"
  BY FrameFacts
<1> HIDE DEF f, e
<1>3. /\ k \in Conns /\ QueueBooks(k) /\ k.writer # "none" /\ ~Closing(k) /\ n \in Int
  BY <1>1, IdleReader
<1>4. k0 \in Conns /\ OnQueue(k, k0) /\ (Closing(k0) => Closing(k)) /\ (Account(k, n) => Account(k0, n))
  <2>1. MayFollow(StreamOf(k), e)
    BY <1>2 DEF MayFollow
  <2> QED BY <1>2, <1>3, <2>1, SendFacts
<1>x. x \in Readers /\ x \in {"idle", "typed", "draining"}
  BY DEF Readers
<1> HIDE DEF k0, n, x
<1>5. QueueBooks(k0) /\ k0.writer # "none"
  BY <1>3, <1>4 DEF OnQueue
<1>6. k1 \in Conns /\ OnQueue(k0, k1) /\ (Closing(k1) => Closing(k0)) /\ (Account(k0, n) => Account(k1, n))
  BY <1>2, <1>3, <1>4, <1>5, ResponseFacts
<1> HIDE DEF k1
<1>7. OnQueue(k, k1)
  BY <1>3, <1>4, <1>6 DEF OnQueue, Keeps, Hears
<1> QED BY <1>1, <1>3, <1>4, <1>6, <1>7, <1>x, ReaderMoves DEF n

LEMMA StepLeaveLoop ==
  ASSUME ApiBooks, NEW c \in Clients, LeaveLoop(c)
  PROVE  ApiBooks' /\ WordKept
<1>1. /\ conn[c].reader = "idle" /\ taken' \in 0 .. MaxRead
      /\ conn' = [conn EXCEPT ![c] = [conn[c] EXCEPT !.reader = "draining"]]
      /\ UNCHANGED <<listener, served, stopping, req>>
  BY AtClient DEF LeaveLoop
<1>2. conn[c] \in Conns /\ ~Closing(conn[c]) /\ OnQueue(conn[c], conn[c])
  BY <1>1, IdleReader
<1>3. "draining" \in Readers
  BY DEF Readers
<1> QED BY <1>1, <1>2, <1>3, ReaderMoves

LEMMA StepReadError ==
  ASSUME ApiBooks, NEW c \in Clients, ReadError(c)
  PROVE  ApiBooks' /\ WordKept
<1> DEFINE k == conn[c]
           k1 == poison_connection(k)
<1>1. /\ k.reader = "idle" /\ taken' \in 0 .. MaxRead
      /\ conn' = [conn EXCEPT ![c] = [k1 EXCEPT !.reader = "draining"]]
      /\ UNCHANGED <<listener, served, stopping, req>>
  BY AtClient DEF ReadError, Reading
<1>2. k \in Conns /\ QueueBooks(k) /\ k.bytes \in Int /\ ~Closing(k) /\ k = [k EXCEPT !.bytes = k.bytes]
  BY <1>1, IdleReader DEF Conns
<1>3. /\ k1 \in Conns /\ QueueBooks(k1) /\ Keeps(k, k1) /\ (Closing(k1) <=> Closing(k))
      /\ k1.bytes = k.bytes /\ k1.got = k.got /\ k1.frame = k.frame /\ k1.queue = k.queue
      /\ k1.client = k.client /\ k1.reader = k.reader /\ k1.on = k.on /\ k1.writer = k.writer
  <2> DEFINE k0 == [k EXCEPT !.bytes = k.bytes]
             p == poison_connection(k0)
  <2>1. /\ p \in Conns /\ QueueBooks(p) /\ Keeps(k, p) /\ (Closing(p) <=> Closing(k))
        /\ p.bytes = k.bytes /\ p.got = k.got /\ p.frame = k.frame /\ p.queue = k.queue
        /\ p.client = k.client /\ p.reader = k.reader /\ p.on = k.on /\ p.writer = k.writer
    BY <1>2, Poisoned
  <2>2. k1 = p
    BY <1>2
  <2> HIDE DEF p, k1
  <2> QED BY <2>1, <2>2
<1> HIDE DEF k1
<1>4. OnQueue(k, k1)
  BY <1>2, <1>3 DEF OnQueue, Hears
<1>5. "draining" \in Readers /\ \A n : Account(k, n) => Account(k1, n)
  BY <1>3 DEF Readers, Account
<1> QED BY <1>1, <1>2, <1>3, <1>4, <1>5, ReaderMoves
-----------------------------------------------------------------------------
(* The reader, with a message's gate in its hands.                         *)

LEMMA AtRun ==
  ASSUME ApiBooks, NEW r \in Requests, req[r].pc # "none"
  PROVE  /\ req[r] \in Reqs /\ req[r].from \in Clients /\ RunBooks(r, req[r], conn[req[r].from])
<1>1. req[r] \in Reqs /\ req[r] # NoReq
  BY NoReqFacts DEF ApiBooks, ApiTyped
<1>2. req[r].from # "none" /\ req[r].from \in Clients \union {"none"}
  BY <1>1 DEF ApiBooks, Links, Reqs
<1> QED BY <1>1, <1>2 DEF ApiBooks, Links

LEMMA GateInHand ==
  ASSUME ApiBooks, NEW c \in Clients, conn[c].reader \in {"answer", "release", "enqueue", "open"}
  PROVE  /\ conn[c].on \in Requests /\ req[conn[c].on] \in Reqs /\ req[conn[c].on].from = c
         /\ RunBooks(conn[c].on, req[conn[c].on], conn[c])
         /\ conn[c].writer # "none" /\ ~Closing(conn[c])
         /\ OnQueue(conn[c], conn[c]) /\ Cardinality(InFlight(c)) \in Int
<1>1. /\ conn[c] \in Conns /\ ReaderBooks(conn[c]) /\ QueueBooks(conn[c])
      /\ Keeps(conn[c], conn[c]) /\ Hears(conn[c], conn[c]) /\ Cardinality(InFlight(c)) \in Nat
  BY AtClient
<1>2. conn[c].on \in Requests /\ conn[c].on # "none"
  BY <1>1 DEF Conns, ReaderBooks
<1>3. req[conn[c].on] \in Reqs /\ req[conn[c].on].from = c /\ c # "none"
  BY <1>2, NoReqFacts DEF ApiBooks, ApiTyped, Links
<1>4. RunBooks(conn[c].on, req[conn[c].on], conn[c])
  BY <1>2, <1>3 DEF ApiBooks, Links
<1>5. conn[c].writer # "none" /\ ~Closing(conn[c])
  BY <1>1 DEF ReaderBooks
<1> QED BY <1>1, <1>2, <1>3, <1>4, <1>5 DEF OnQueue

LEMMA NoReqTyped ==
  NoReq \in Reqs /\ NoReq.left = RunEvents /\ ~NoReq.releasing /\ ~NoReq.released /\ RunEvents \in 1 .. RunEvents
<1>1. RunEvents \in Nat \ {0}
  BY ApiAssumption
<1>2. RunEvents \in 0 .. RunEvents /\ RunEvents \in 1 .. RunEvents
  BY <1>1
<1> QED BY <1>2 DEF NoReq, Reqs, Runs

LEMMA NotifiedFacts ==
  ASSUME NEW q \in Reqs
  PROVE  LET q2 == Notified(q)
         IN  /\ q2 \in Reqs /\ q2.from = q.from /\ q2.pc = q.pc /\ q2.left = q.left /\ q2.what = q.what
             /\ q2.held = q.held /\ q2.releasing = q.releasing /\ q2.released = q.released
<1>1. CASE q.pc \in {"recheck", "parked"}
  <2>1. Notified(q) = [q EXCEPT !.woken = TRUE]
    BY <1>1 DEF Notified
  <2> QED BY <2>1 DEF Reqs
<1>2. CASE q.pc \notin {"recheck", "parked"}
  <2>1. (q.pc \in {"recheck", "parked"}) = FALSE
    BY <1>2
  <2>2. Notified(q) = [q EXCEPT !.woken = FALSE]
    BY <2>1, Zenon DEF Notified
  <2> QED BY <2>2 DEF Reqs
<1> QED BY <1>1, <1>2

LEMMA CancelFacts ==
  ASSUME NEW q \in Reqs
  PROVE  LET q2 == cancel(q)
         IN  /\ q2 \in Reqs /\ q2.from = q.from /\ q2.pc = q.pc /\ q2.left = q.left /\ q2.what = q.what
             /\ ~q2.held /\ ~q2.releasing /\ q2.released
<1> DEFINE q1 == [q EXCEPT !.held = FALSE, !.releasing = FALSE, !.released = TRUE]
<1>1. /\ q1 \in Reqs /\ q1.from = q.from /\ q1.pc = q.pc /\ q1.left = q.left /\ q1.what = q.what
      /\ ~q1.held /\ ~q1.releasing /\ q1.released
  BY DEF Reqs
<1>2. cancel(q) = Notified(q1)
  BY DEF cancel
<1> HIDE DEF q1
<1> QED BY <1>1, <1>2, NotifiedFacts

LEMMA StepHandleMessage ==
  ASSUME ApiBooks, NEW c \in Clients, NEW r \in Requests, NEW l \in Lines, handle_message(c, r, l)
  PROVE  ApiBooks' /\ WordKept
<1> DEFINE k == conn[c]
           k2 == InHand(k, "answer", r)
           q2 == [NoReq EXCEPT !.from = c, !.pc = "starting"]
           n == Cardinality(InFlight(c))
<1>1. /\ k.reader = "idle" /\ req[r].from = "none"
      /\ taken' \in 0 .. MaxRead /\ UNCHANGED <<listener, served, stopping>>
      /\ conn' = [conn EXCEPT ![c].reader = "answer", ![c].on = r]
      /\ req' = [req EXCEPT ![r].from = c, ![r].pc = "starting"]
  BY OneLineMore DEF handle_message, Reading
<1>2. req[r] = NoReq
  BY <1>1 DEF ApiBooks, Links
<1>3. conn' = [conn EXCEPT ![c] = k2] /\ req' = [req EXCEPT ![r] = q2]
  BY <1>1, <1>2 DEF ApiBooks, ApiTyped, InHand
<1>4. /\ k \in Conns /\ QueueBooks(k) /\ k.writer # "none" /\ k.on = "none" /\ ~Closing(k)
      /\ Keeps(k, k) /\ Hears(k, k) /\ ReaderBooks(k) /\ Account(k, n) /\ n \in Int
  BY <1>1, IdleReader, AtClient
<1>5. /\ q2 \in Reqs /\ q2.from = c /\ q2.pc = "starting" /\ q2.left = RunEvents
      /\ ~q2.releasing /\ ~q2.released
  BY NoReqFacts, NoReqTyped DEF Reqs, Runs
<1>6. Moving(req[r]) = 0 /\ Moving(q2) = 0
  BY <1>2, <1>5, NoReqFacts DEF Moving
<1>7. k2 \in Conns /\ SameButReader(k, k2) /\ k2.reader = "answer" /\ k2.on = r
  <2>1. "answer" \in Readers /\ r \in Requests \union {"none"}
    BY DEF Readers
  <2> QED BY <1>4, <2>1, HandsSet
<1> HIDE DEF k2, q2
<1>8. QueueBooks(k2) /\ Keeps(k, k2) /\ Hears(k, k2) /\ (Closing(k2) <=> Closing(k)) /\ Account(k2, n)
  BY <1>4, <1>7, ReaderTurns
<1>9. ReaderBooks(k2)
  BY <1>4, <1>7, <1>8, ApiAssumption DEF ReaderBooks, SameButReader
<1>10. RunBooks(r, q2, k2)
  <2>1. RunEvents \in 1 .. RunEvents /\ r # "none"
    BY NoReqTyped, ApiAssumption
  <2> QED BY <1>5, <1>7, <2>1 DEF RunBooks, Opens
<1>11. Account(k2, n - Moving(req[r]) + Moving(q2))
  <2>1. n - Moving(req[r]) + Moving(q2) = n
    BY <1>4, <1>6
  <2> QED BY <1>8, <2>1
<1>12. {k.on, k2.on} \subseteq {"none", r} /\ k2.reader \notin {"waiting", "foreign", "ended"}
  BY <1>4, <1>7
<1> QED BY <1>1, <1>2, <1>3, <1>5, <1>7, <1>8, <1>9, <1>10, <1>11, <1>12, RunMoves

LEMMA StepSendResponseAfter ==
  ASSUME ApiBooks, NEW c \in Clients, send_response_after(c)
  PROVE  ApiBooks' /\ WordKept
<1> DEFINE k == conn[c]
           r == k.on
           q == req[r]
           f == Frame("accepted", r)
           k1 == send_response(k, f)
           x == IF Queued(k) THEN "release" ELSE "draining"
           o == IF Queued(k) THEN r ELSE "none"
           k2 == InHand(k1, x, o)
           q2 == IF Queued(k) THEN q ELSE cancel(q)
           n == Cardinality(InFlight(c))
<1>1. /\ k.reader = "answer"
      /\ taken' \in 0 .. MaxRead /\ UNCHANGED <<listener, served, stopping>>
      /\ conn' = [conn EXCEPT ![c] = k2] /\ req' = [req EXCEPT ![r] = q2]
  BY AtClient DEF send_response_after, InHand
<1>2. /\ r \in Requests /\ q \in Reqs /\ q.from = c /\ RunBooks(r, q, k) /\ r # "none"
      /\ k \in Conns /\ QueueBooks(k) /\ k.writer # "none" /\ ~Closing(k) /\ Account(k, n) /\ n \in Int
  BY <1>1, GateInHand, AtClient, ApiAssumption
<1>3. f \in Frames /\ f.kind = "accepted" /\ f.req = r
  BY <1>2, FrameFacts
<1>4. k1 \in Conns /\ OnQueue(k, k1) /\ (Closing(k1) => Closing(k)) /\ Account(k1, n)
      /\ (IF Queued(k) THEN Has(StreamOf(k1), f) ELSE k1.poisoned)
  BY <1>2, <1>3, ResponseFacts
<1>5. x \in Readers /\ o \in Requests \union {"none"} /\ x \notin {"waiting", "foreign", "ended"}
  BY <1>2 DEF Readers
<1> HIDE DEF k1
<1>6. k2 \in Conns /\ SameButReader(k1, k2) /\ k2.reader = x /\ k2.on = o
  <2> HIDE DEF x, o
  <2> QED BY <1>4, <1>5, HandsSet
<1> HIDE DEF k2
<1>7. /\ QueueBooks(k2) /\ Keeps(k, k2) /\ Hears(k, k2) /\ (Closing(k2) <=> Closing(k1)) /\ Account(k2, n)
      /\ StreamOf(k2) = StreamOf(k1)
  BY <1>2, <1>4, <1>6, ReaderTurns DEF OnQueue
<1>8. k2.writer = k.writer /\ k2.poisoned = k1.poisoned
  BY <1>4, <1>6 DEF OnQueue, SameButReader
<1>9. ReaderBooks(k2)
  BY <1>2, <1>4, <1>5, <1>6, <1>7, <1>8 DEF ReaderBooks
<1>10. q2 \in Reqs /\ q2.from = c /\ q2.pc = q.pc
  BY <1>2, CancelFacts
<1>11. RunBooks(r, q2, k2)
  <2>1. ~q.releasing /\ ~q.released
    BY <1>1, <1>2 DEF RunBooks, Opens
  <2>2. CASE Queued(k)
    <3>1. k2.reader = "release" /\ k2.on = r /\ q2 = q /\ Told(k2, "accepted", r)
      BY <1>4, <1>6, <1>7, <2>2 DEF Told, f
    <3>2. Told(k, "started", r) => Told(k2, "started", r)
      <4>1. Frame("started", r).req = r
        BY DEF Frame
      <4> QED BY <1>2, <1>7, <4>1 DEF Told, Keeps
    <3>3. k.poisoned => k2.poisoned
      BY <1>7 DEF Keeps
    <3> QED BY <1>1, <1>2, <2>1, <3>1, <3>2, <3>3 DEF RunBooks, Opens
  <2>3. CASE ~Queued(k)
    <3>1. k2.reader = "draining" /\ k2.on = "none" /\ k2.poisoned
      BY <1>4, <1>6, <1>8, <2>3
    <3>2. /\ q2.pc = q.pc /\ q2.left = q.left /\ q2.what = q.what
          /\ ~q2.held /\ ~q2.releasing /\ q2.released
      BY <1>2, <2>3, CancelFacts
    <3> HIDE DEF q2
    <3> QED BY <1>2, <2>1, <3>1, <3>2 DEF RunBooks, Opens
  <2> QED BY <2>2, <2>3
<1>12. Account(k2, n - Moving(q) + Moving(q2))
  <2>1. n - Moving(q) + Moving(q2) = n
    BY <1>2, <1>10 DEF Moving
  <2> QED BY <1>7, <2>1
<1>13. /\ {k.on, k2.on} \subseteq {"none", r} /\ k2.reader \notin {"waiting", "foreign", "ended"}
       /\ k2.on \notin {"none", r} => k2.on = k.on
  BY <1>5, <1>6
<1> HIDE DEF q2, n, x, o
<1> QED BY <1>1, <1>2, <1>6, <1>7, <1>9, <1>10, <1>11, <1>12, <1>13, RunMoves DEF n

LEMMA StepRelease ==
  ASSUME ApiBooks, NEW c \in Clients, release(c)
  PROVE  ApiBooks' /\ WordKept
<1> DEFINE k == conn[c]
           r == k.on
           q == req[r]
           x == IF q.held THEN "enqueue" ELSE "open"
           k2 == [k EXCEPT !.reader = x]
           q2 == [q EXCEPT !.releasing = TRUE, !.held = FALSE]
           n == Cardinality(InFlight(c))
<1>1. /\ k.reader = "release" /\ taken' \in 0 .. MaxRead /\ UNCHANGED <<listener, served, stopping>>
      /\ conn' = [conn EXCEPT ![c] = k2]
      /\ req' = [req EXCEPT ![r].releasing = TRUE, ![r].held = FALSE]
  BY AtClient DEF release
<1>2. /\ r \in Requests /\ q \in Reqs /\ q.from = c /\ RunBooks(r, q, k) /\ r # "none"
      /\ k \in Conns /\ QueueBooks(k) /\ k.writer # "none" /\ ~Closing(k) /\ Account(k, n) /\ n \in Int
      /\ Keeps(k, k) /\ Hears(k, k)
  BY <1>1, GateInHand, AtClient, ApiAssumption
<1>3. req' = [req EXCEPT ![r] = q2]
  BY <1>1, <1>2 DEF ApiBooks, ApiTyped
<1>4. x \in Readers /\ x \notin {"waiting", "foreign", "ended"}
  BY DEF Readers
<1>5. k2 \in Conns /\ SameButReader(k, k2) /\ k2.reader = x /\ k2.on = r
  BY <1>2, <1>4, ReaderSet
<1> HIDE DEF k2
<1>6. /\ QueueBooks(k2) /\ Keeps(k, k2) /\ Hears(k, k2) /\ (Closing(k2) <=> Closing(k)) /\ Account(k2, n)
  BY <1>2, <1>5, ReaderTurns
<1>7. ReaderBooks(k2)
  BY <1>2, <1>4, <1>5, <1>6 DEF ReaderBooks, SameButReader
<1>8. /\ q2 \in Reqs /\ q2.from = c /\ q2.pc = q.pc /\ q2.left = q.left /\ q2.what = q.what
      /\ ~q2.held /\ q2.releasing /\ q2.released = q.released
  BY <1>2 DEF Reqs
<1> HIDE DEF q2
<1>9. RunBooks(r, q2, k2)
  <2>1. ~q.releasing /\ ~q.released /\ Told(k, "accepted", r)
    BY <1>1, <1>2 DEF RunBooks, Opens
  <2>2. \A kind : Told(k, kind, r) => Told(k2, kind, r)
    BY <1>2, <1>6 DEF Told, Keeps, Frame
  <2>3. k.poisoned => k2.poisoned
    BY <1>6 DEF Keeps
  <2>4. IF q.held THEN k2.reader = "enqueue" ELSE k2.reader = "open"
    BY <1>5
  <2> QED BY <1>1, <1>2, <1>5, <1>8, <2>1, <2>2, <2>3, <2>4 DEF RunBooks, Opens
<1>10. Account(k2, n - Moving(q) + Moving(q2))
  <2>1. n - Moving(q) + Moving(q2) = n
    BY <1>2, <1>8 DEF Moving
  <2> QED BY <1>6, <2>1
<1>11. {k.on, k2.on} \subseteq {"none", r} /\ k2.reader \notin {"waiting", "foreign", "ended"}
  BY <1>4, <1>5
<1> QED BY <1>1, <1>2, <1>3, <1>5, <1>6, <1>7, <1>8, <1>9, <1>10, <1>11, RunMoves
LEMMA StepEnqueueStarted ==
  ASSUME ApiBooks, NEW c \in Clients, enqueue_started(c)
  PROVE  ApiBooks' /\ WordKept
<1> DEFINE k == conn[c]
           r == k.on
           q == req[r]
           f == Frame("started", r)
           k1 == send(k, f)
           k2 == [k1 EXCEPT !.reader = "open"]
           n == Cardinality(InFlight(c))
<1>1. /\ k.reader = "enqueue" /\ taken' \in 0 .. MaxRead /\ UNCHANGED <<listener, served, stopping, req>>
      /\ conn' = [conn EXCEPT ![c] = k2]
  BY AtClient DEF enqueue_started
<1>2. /\ r \in Requests /\ q \in Reqs /\ q.from = c /\ RunBooks(r, q, k) /\ r # "none"
      /\ k \in Conns /\ QueueBooks(k) /\ k.writer # "none" /\ ~Closing(k) /\ Account(k, n) /\ n \in Int
  BY <1>1, GateInHand, AtClient, ApiAssumption
<1>3. req' = [req EXCEPT ![r] = q]
  BY <1>1, <1>2 DEF ApiBooks, ApiTyped
<1>4. f \in Frames /\ f.kind = "started" /\ f.req = r
  BY <1>2, FrameFacts
<1>5. q.releasing /\ ~q.released /\ ~q.held /\ Told(k, "accepted", r)
  BY <1>1, <1>2 DEF RunBooks, Opens
<1>6. k.writer = "gone" \/ MayFollow(StreamOf(k), f)
  BY <1>4, <1>5 DEF Told, MayFollow
<1>7. /\ k1 \in Conns /\ OnQueue(k, k1) /\ (Closing(k1) => Closing(k)) /\ Account(k1, n)
      /\ k1.poisoned \/ Has(StreamOf(k1), f)
  BY <1>2, <1>4, <1>6, SendFacts
<1> HIDE DEF k1
<1>8. k2 \in Conns /\ SameButReader(k1, k2) /\ k2.reader = "open" /\ k2.on = k1.on
  <2>1. "open" \in Readers
    BY DEF Readers
  <2> QED BY <1>7, <2>1, ReaderSet
<1> HIDE DEF k2
<1>9. /\ QueueBooks(k2) /\ Keeps(k, k2) /\ Hears(k, k2) /\ (Closing(k2) <=> Closing(k1)) /\ Account(k2, n)
      /\ StreamOf(k2) = StreamOf(k1)
  BY <1>2, <1>7, <1>8, ReaderTurns DEF OnQueue
<1>10. k2.writer = k.writer /\ k2.poisoned = k1.poisoned /\ k2.on = r
  BY <1>7, <1>8 DEF OnQueue, SameButReader
<1>11. ReaderBooks(k2)
  BY <1>2, <1>7, <1>8, <1>9, <1>10 DEF ReaderBooks
<1>12. RunBooks(r, q, k2)
  <2>1. k2.poisoned \/ Told(k2, "started", r)
    BY <1>7, <1>9, <1>10 DEF Told, f
  <2>2. \A kind : Told(k, kind, r) => Told(k2, kind, r)
    BY <1>2, <1>9 DEF Told, Keeps, Frame
  <2>3. k.poisoned => k2.poisoned
    BY <1>9 DEF Keeps
  <2> QED BY <1>1, <1>2, <1>5, <1>8, <1>10, <2>1, <2>2, <2>3 DEF RunBooks, Opens
<1>13. Account(k2, n - Moving(q) + Moving(q))
  <2>1. n - Moving(q) + Moving(q) = n
    BY <1>2 DEF Moving
  <2> QED BY <1>9, <2>1
<1>14. {k.on, k2.on} \subseteq {"none", r} /\ k2.reader \notin {"waiting", "foreign", "ended"}
  BY <1>8, <1>10
<1> QED BY <1>1, <1>2, <1>3, <1>8, <1>9, <1>11, <1>12, <1>13, <1>14, RunMoves

LEMMA StepOpenGate ==
  ASSUME ApiBooks, NEW c \in Clients, OpenGate(c)
  PROVE  ApiBooks' /\ WordKept
<1> DEFINE k == conn[c]
           r == k.on
           q == req[r]
           k2 == InHand(k, "idle", "none")
           q1 == [q EXCEPT !.releasing = FALSE, !.released = TRUE]
           q2 == Notified(q1)
           n == Cardinality(InFlight(c))
<1>1. /\ k.reader = "open" /\ taken' \in 0 .. MaxRead /\ UNCHANGED <<listener, served, stopping>>
      /\ conn' = [conn EXCEPT ![c].reader = "idle", ![c].on = "none"]
      /\ req' = [req EXCEPT ![r] = q2]
  BY AtClient DEF OpenGate
<1>2. /\ r \in Requests /\ q \in Reqs /\ q.from = c /\ RunBooks(r, q, k) /\ r # "none"
      /\ k \in Conns /\ QueueBooks(k) /\ k.writer # "none" /\ ~Closing(k) /\ Account(k, n) /\ n \in Int
      /\ Keeps(k, k) /\ Hears(k, k)
  BY <1>1, GateInHand, AtClient, ApiAssumption
<1>3. conn' = [conn EXCEPT ![c] = k2]
  BY <1>1 DEF ApiBooks, ApiTyped, InHand
<1>4. k2 \in Conns /\ SameButReader(k, k2) /\ k2.reader = "idle" /\ k2.on = "none"
  <2>1. "idle" \in Readers
    BY DEF Readers
  <2> QED BY <1>2, <2>1, HandsSet
<1> HIDE DEF k2
<1>5. QueueBooks(k2) /\ Keeps(k, k2) /\ Hears(k, k2) /\ (Closing(k2) <=> Closing(k)) /\ Account(k2, n)
  BY <1>2, <1>4, ReaderTurns
<1>6. ReaderBooks(k2)
  BY <1>2, <1>4, <1>5 DEF ReaderBooks, SameButReader
<1>7. /\ q1 \in Reqs /\ q1.from = c /\ q1.pc = q.pc /\ q1.left = q.left /\ q1.what = q.what
      /\ q1.held = q.held /\ ~q1.releasing /\ q1.released
  BY <1>2 DEF Reqs
<1> HIDE DEF q1
<1>8. /\ q2 \in Reqs /\ q2.from = c /\ q2.pc = q.pc /\ q2.left = q.left /\ q2.what = q.what
      /\ q2.held = q.held /\ ~q2.releasing /\ q2.released
  BY <1>7, NotifiedFacts
<1> HIDE DEF q2
<1>9. RunBooks(r, q2, k2)
  <2>1. q.releasing /\ ~q.held /\ Told(k, "accepted", r)
    BY <1>1, <1>2 DEF RunBooks, Opens
  <2>2. \A kind : Told(k, kind, r) => Told(k2, kind, r)
    BY <1>2, <1>5 DEF Told, Keeps, Frame
  <2>3. k.poisoned => k2.poisoned
    BY <1>5 DEF Keeps
  <2> QED BY <1>1, <1>2, <1>4, <1>8, <2>1, <2>2, <2>3 DEF RunBooks, Opens
<1>10. Account(k2, n - Moving(q) + Moving(q2))
  <2>1. n - Moving(q) + Moving(q2) = n
    BY <1>2, <1>8 DEF Moving
  <2> QED BY <1>5, <2>1
<1>11. {k.on, k2.on} \subseteq {"none", r} /\ k2.reader \notin {"waiting", "foreign", "ended"}
       /\ k2.on \notin {"none", r} => k2.on = k.on
  BY <1>4
<1> QED BY <1>1, <1>2, <1>3, <1>4, <1>5, <1>6, <1>8, <1>9, <1>10, <1>11, RunMoves, ZenonT(60)

-----------------------------------------------------------------------------
(* Slots: who is let in, turned away, and gone.                            *)

LEMMA SlotsFinite ==
  LET S == {d \in Clients : Serving(d)}
  IN  IsFiniteSet(S) /\ Cardinality(S) \in Nat
<1> DEFINE S == {d \in Clients : Serving(d)}
<1>1. S \in SUBSET Clients
  OBVIOUS
<1> HIDE DEF S
<1> QED BY <1>1, ApiAssumption, FS_Subset, FS_CardinalityType DEF S

\* A connection more is served, or one less.
LEMMA SlotTaken ==
  ASSUME ApiBooks, NEW c \in Clients, NEW k2, conn' = [conn EXCEPT ![c] = k2], ~Serving(c),
         k2.reader \notin {"waiting", "ended"}, served < MAX_CONNECTIONS, served' = served + 1
  PROVE  SlotsAreConnections' /\ served' \in Nat
<1> DEFINE S == {d \in Clients : Serving(d)}
<1>1. IsFiniteSet(S) /\ Cardinality(S) = served /\ served \in Nat /\ MAX_CONNECTIONS \in Nat
  BY SlotsFinite, ApiAssumption DEF ApiBooks, ApiTyped, SlotsAreConnections
<1>2. S' = S \union {c} /\ c \notin S
  BY DEF ApiBooks, ApiTyped, Serving
<1> HIDE DEF S
<1>3. Cardinality(S') = served'
  BY <1>1, <1>2, FS_AddElement
<1> QED BY <1>1, <1>3 DEF SlotsAreConnections, S

LEMMA SlotFreed ==
  ASSUME ApiBooks, NEW c \in Clients, NEW k2, conn' = [conn EXCEPT ![c] = k2], Serving(c),
         k2.reader \in {"waiting", "ended"}, served' = served - 1
  PROVE  SlotsAreConnections' /\ served' \in Nat
<1> DEFINE S == {d \in Clients : Serving(d)}
<1>1. IsFiniteSet(S) /\ Cardinality(S) = served /\ served \in Nat /\ served <= MAX_CONNECTIONS /\ MAX_CONNECTIONS \in Nat
  BY SlotsFinite, ApiAssumption DEF ApiBooks, ApiTyped, SlotsAreConnections
<1>2. S' = S \ {c} /\ c \in S
  BY DEF ApiBooks, ApiTyped, Serving
<1> HIDE DEF S
<1>3. Cardinality(S') = served' /\ IsFiniteSet(S')
  BY <1>1, <1>2, FS_RemoveElement
<1>4. Cardinality(S') \in Nat
  BY <1>3, FS_CardinalityType
<1> QED BY <1>1, <1>3, <1>4 DEF SlotsAreConnections, S

LEMMA NoConnFacts ==
  /\ NoConn \in Conns /\ NoConn.reader = "waiting" /\ NoConn.on = "none" /\ NoConn.writer = "none"
  /\ NoConn.queue = <<>> /\ NoConn.frame = NoFrame /\ NoConn.got = <<>> /\ NoConn.bytes = 0
  /\ ~NoConn.poisoned /\ ~NoConn.permit
  /\ Ordered(<<>>) /\ Len(<<>>) = 0 /\ EvCount(<<>>) = 0 /\ Ev(NoFrame) = 0
<1>1. <<>> \in Seq(Frames) /\ Len(<<>>) = 0
  BY EmptySeq
<1>2. DOMAIN <<>> = {}
  OBVIOUS
<1>3. Ordered(<<>>)
  BY <1>2 DEF Ordered
<1>4. EvCount(<<>>) = 0
  <2>1. EvAt(<<>>) = {}
    BY <1>2 DEF EvAt
  <2> QED BY <2>1, FS_EmptySet DEF EvCount
<1>5. Ev(NoFrame) = 0
  BY DEF Ev, ServerEvent, NoFrame, Frame
<1>6. /\ NoConn.reader = "waiting" /\ NoConn.on = "none" /\ NoConn.writer = "none"
      /\ NoConn.queue = <<>> /\ NoConn.frame = NoFrame /\ NoConn.got = <<>> /\ NoConn.bytes = 0
      /\ ~NoConn.poisoned /\ ~NoConn.permit
  BY DEF NoConn
<1>7. NoConn \in Conns
  BY <1>1 DEF NoConn, Conns, Readers
<1> QED BY <1>1, <1>3, <1>4, <1>5, <1>6, <1>7

LEMMA StepDisconnect ==
  ASSUME ApiBooks, NEW c \in Clients, Disconnect(c)
  PROVE  ApiBooks' /\ WordKept
<1> DEFINE k == conn[c]
<1>1. /\ k.reader = "draining" /\ k.writer = "gone" /\ conn' = [conn EXCEPT ![c] = Ended]
      /\ served' = served - 1 /\ UNCHANGED <<listener, stopping, req, taken>>
  BY DEF Disconnect
<1>2. /\ Ended \in Conns /\ Ended.reader = "ended" /\ Ended.on = "none" /\ Ended.writer = "gone" /\ Ended.poisoned
      /\ Ended.queue = <<>> /\ Ended.frame = NoFrame /\ Ended.got = <<>>
  BY NoConnFacts DEF Ended, Conns, Readers
<1>3. StreamOf(Ended) = <<>> /\ ~Closing(Ended)
  BY <1>2, ConcatEmptySeq DEF StreamOf, Hand, Closing
<1>4. QueueBooks(Ended) /\ ReaderBooks(Ended) /\ Keeps(k, Ended) /\ Hears(k, Ended)
      /\ \A n : Account(Ended, n)
  <2>1. Ordered(<<>>) /\ Len(<<>>) = 0 /\ EVENT_QUEUE_SLOTS \in Nat
    BY ApiAssumption, NoConnFacts DEF StreamOf
  <2>2. QueueBooks(Ended)
    BY <1>2, <1>3, <2>1 DEF QueueBooks
  <2> QED BY <1>2, <1>3, <2>2 DEF ReaderBooks, Keeps, Hears, Account
<1>5. k.on = "none"
  BY <1>1, AtClient DEF ReaderBooks
<1> HIDE DEF k
<1>6. Links'
  BY <1>1, <1>2, <1>4, <1>5, ClientLinks DEF HandsStay, k
<1>7. SlotsAreConnections' /\ served' \in Nat
  BY <1>1, <1>2, SlotFreed DEF Serving, k
<1>8. WordKept /\ conn' \in [Clients -> Conns]
  BY <1>1, <1>2, <1>4, OneConnMoves DEF k
<1>9. listener' \in {"accepting", "closed"} \union {d \in Clients : conn'[d].reader = "waiting"}
  BY <1>1, <1>2, TurnedAwayStays DEF k
<1> QED BY <1>1, <1>6, <1>7, <1>8, <1>9 DEF ApiBooks, ApiTyped

LEMMA StepRejectPeer ==
  ASSUME ApiBooks, NEW c \in Clients, reject_peer(c)
  PROVE  ApiBooks' /\ WordKept
<1> DEFINE k == conn[c]
           k2 == [k EXCEPT !.reader = "ended"]
<1>1. /\ k.reader = "foreign" /\ conn' = [conn EXCEPT ![c] = k2]
      /\ served' = served - 1 /\ UNCHANGED <<listener, stopping, req, taken>>
  BY DEF reject_peer
<1>2. /\ k \in Conns /\ QueueBooks(k) /\ ReaderBooks(k) /\ Keeps(k, k) /\ Hears(k, k)
      /\ Account(k, Cardinality(InFlight(c)))
  BY AtClient
<1>3. k2 \in Conns /\ SameButReader(k, k2) /\ k2.reader = "ended" /\ k2.on = k.on
  <2>1. "ended" \in Readers
    BY DEF Readers
  <2> QED BY <1>2, <2>1, ReaderSet
<1> HIDE DEF k2
<1>4. /\ QueueBooks(k2) /\ Keeps(k, k2) /\ Hears(k, k2) /\ (Closing(k2) <=> Closing(k))
      /\ Account(k2, Cardinality(InFlight(c)))
  BY <1>2, <1>3, ReaderTurns
<1>5. ReaderBooks(k2)
  BY <1>1, <1>2, <1>3, <1>4 DEF ReaderBooks, SameButReader
<1>6. Links'
  BY <1>1, <1>3, <1>4, <1>5, ClientLinks
<1>7. SlotsAreConnections' /\ served' \in Nat
  BY <1>1, <1>3, SlotFreed DEF Serving
<1>8. WordKept /\ conn' \in [Clients -> Conns]
  BY <1>1, <1>3, <1>4, OneConnMoves
<1>9. listener' \in {"accepting", "closed"} \union {d \in Clients : conn'[d].reader = "waiting"}
  BY <1>1, <1>3, TurnedAwayStays
<1> QED BY <1>1, <1>6, <1>7, <1>8, <1>9 DEF ApiBooks, ApiTyped
LEMMA Limits ==
  /\ MAX_CONNECTIONS \in Nat /\ EVENT_QUEUE_SLOTS \in Nat /\ MAX_EVENT_QUEUE_BYTES \in Nat
  /\ 0 <= EVENT_QUEUE_SLOTS /\ 0 <= MAX_EVENT_QUEUE_BYTES
<1>1. MAX_CONNECTIONS \in Nat /\ EVENT_QUEUE_SLOTS \in Nat /\ MAX_EVENT_QUEUE_BYTES \in Nat
  BY ApiAssumption
<1> QED BY <1>1

LEMMA NothingMoves ==
  ASSUME ApiBooks, UNCHANGED <<served, conn, req, taken>>, stopping' \in BOOLEAN,
         listener' \in {"accepting", "closed"} \union {c \in Clients : conn[c].reader = "waiting"}
  PROVE  ApiBooks' /\ WordKept
<1>1. ApiTyped'
  BY DEF ApiBooks, ApiTyped
<1>2. SlotsAreConnections'
  BY DEF ApiBooks, SlotsAreConnections, Serving
<1>3. Links'
  BY DEF ApiBooks, Links, InFlight
<1>4. WordKept
  BY DEF WordKept, Hears
<1> QED BY <1>1, <1>2, <1>3, <1>4 DEF ApiBooks

LEMMA StepShutdown ==
  ASSUME ApiBooks, Shutdown
  PROVE  ApiBooks' /\ WordKept
<1>1. UNCHANGED <<listener, served, conn, req, taken>> /\ stopping' \in BOOLEAN
  BY DEF Shutdown
<1>2. listener' \in {"accepting", "closed"} \union {c \in Clients : conn[c].reader = "waiting"}
  BY <1>1 DEF ApiBooks, ApiTyped
<1> QED BY <1>1, <1>2, NothingMoves

\* Who is let in: a foreign peer to be told so, or a client with a writer.
LetIn(foreign) == [NoConn EXCEPT !.reader = IF foreign THEN "foreign" ELSE "idle",
                                    !.writer = IF foreign THEN "none" ELSE "waiting"]

LEMMA LetInFacts ==
  ASSUME NEW foreign \in BOOLEAN
  PROVE  LET k2 == LetIn(foreign)
         IN  /\ k2 \in Conns /\ k2.reader \in {"foreign", "idle"} /\ k2.on = "none"
             /\ QueueBooks(k2) /\ ReaderBooks(k2) /\ Account(k2, 0) /\ Hears(NoConn, k2)
<1> DEFINE k2 == LetIn(foreign)
<1>1. /\ k2 \in Conns /\ k2.reader = (IF foreign THEN "foreign" ELSE "idle") /\ k2.on = "none"
      /\ k2.writer = (IF foreign THEN "none" ELSE "waiting")
      /\ k2.queue = <<>> /\ k2.frame = NoFrame /\ k2.got = <<>> /\ k2.bytes = 0
  BY NoConnFacts DEF LetIn, Conns, Readers
<1> HIDE DEF k2
<1>2. StreamOf(k2) = <<>> /\ ~Closing(k2)
  BY <1>1, ConcatEmptySeq DEF StreamOf, Hand, Closing
<1>3. QueueBooks(k2)
  BY <1>1, <1>2, NoConnFacts, Limits DEF QueueBooks
<1>4. ReaderBooks(k2)
  BY <1>1, <1>2 DEF ReaderBooks
<1>5. Account(k2, 0)
  BY <1>1, NoConnFacts, Limits DEF Account
<1>6. Hears(NoConn, k2)
  BY <1>2 DEF Hears
<1> QED BY <1>1, <1>3, <1>4, <1>5, <1>6 DEF k2

LEMMA StepRunBound ==
  ASSUME ApiBooks, NEW c \in Clients, NEW foreign \in BOOLEAN, run_bound(c, foreign)
  PROVE  ApiBooks' /\ WordKept
<1>1. /\ listener = "accepting" /\ conn[c].reader = "waiting"
      /\ UNCHANGED <<stopping, req, taken>>
  BY DEF run_bound
<1>2. CASE served >= MAX_CONNECTIONS
  <2>1. listener' = c /\ UNCHANGED <<served, conn>>
    BY <1>2 DEF run_bound
  <2>2. stopping' \in BOOLEAN
    BY <1>1 DEF ApiBooks, ApiTyped
  <2> QED BY <1>1, <2>1, <2>2, NothingMoves
<1>3. CASE ~(served >= MAX_CONNECTIONS)
  <2> DEFINE k2 == LetIn(foreign)
  <2>1. /\ conn[c] = NoConn /\ conn[c] \in Conns /\ InFlight(c) = {} /\ Cardinality(InFlight(c)) = 0
    BY <1>1, AtClient, NobodyYet DEF ReaderBooks, ApiBooks
  <2>2. /\ served' = served + 1 /\ UNCHANGED listener
        /\ conn' = [conn EXCEPT ![c].reader = IF foreign THEN "foreign" ELSE "idle",
                                ![c].writer = IF foreign THEN "none" ELSE "waiting"]
    BY <1>3 DEF run_bound
  <2>3. conn' = [conn EXCEPT ![c] = k2]
    BY <2>1, <2>2 DEF ApiBooks, ApiTyped, LetIn
  <2>4. /\ k2 \in Conns /\ k2.reader \in {"foreign", "idle"} /\ k2.on = "none"
        /\ QueueBooks(k2) /\ ReaderBooks(k2) /\ Account(k2, 0) /\ Hears(NoConn, k2)
    BY LetInFacts
  <2> HIDE DEF k2
  <2>5. Links'
    BY <1>1, <2>1, <2>3, <2>4, ClientLinks
  <2>6. served < MAX_CONNECTIONS
    BY <1>3, Limits DEF ApiBooks, ApiTyped
  <2>7. SlotsAreConnections' /\ served' \in Nat
    <3>1. ~Serving(c) /\ k2.reader \notin {"waiting", "ended"}
      BY <1>1, <2>4 DEF Serving
    <3> QED BY <2>2, <2>3, <2>6, <3>1, SlotTaken
  <2>8. WordKept /\ conn' \in [Clients -> Conns]
    BY <2>1, <2>3, <2>4, OneConnMoves
  <2> QED BY <1>1, <2>2, <2>5, <2>7, <2>8 DEF ApiBooks, ApiTyped
<1> QED BY <1>2, <1>3

\* A connection that is over before it began.
Refused == [NoConn EXCEPT !.reader = "ended"]

LEMMA RefusedFacts ==
  /\ Refused \in Conns /\ Refused.reader = "ended" /\ Refused.on = "none"
  /\ QueueBooks(Refused) /\ ReaderBooks(Refused) /\ Hears(NoConn, Refused) /\ \A n : Account(Refused, n)
<1>1. Refused \in Conns /\ SameButReader(NoConn, Refused) /\ Refused.reader = "ended" /\ Refused.on = "none"
  BY NoConnFacts, ReaderSet DEF Refused, Readers
<1>2. /\ Refused.queue = <<>> /\ Refused.frame = NoFrame /\ Refused.got = <<>> /\ Refused.writer = "none"
  BY <1>1, NoConnFacts DEF SameButReader
<1>3. StreamOf(Refused) = <<>> /\ ~Closing(Refused)
  BY <1>2, ConcatEmptySeq DEF StreamOf, Hand, Closing
<1>4. QueueBooks(Refused)
  BY <1>2, <1>3, NoConnFacts, Limits DEF QueueBooks
<1>5. ReaderBooks(Refused)
  BY <1>1, <1>2, <1>3 DEF ReaderBooks
<1>6. Hears(NoConn, Refused) /\ \A n : Account(Refused, n)
  BY <1>2, <1>3 DEF Hears, Account
<1> QED BY <1>1, <1>4, <1>5, <1>6

LEMMA StepRejectOverflow ==
  ASSUME ApiBooks, reject_overflow
  PROVE  ApiBooks' /\ WordKept
<1> DEFINE c == listener
<1>1. /\ c \in Clients /\ conn' = [conn EXCEPT ![c] = [conn[c] EXCEPT !.reader = "ended"]]
      /\ listener' = "accepting" /\ UNCHANGED <<served, stopping, req, taken>>
  BY DEF reject_overflow
<1>2. conn[c].reader = "waiting"
  BY <1>1, ApiAssumption DEF ApiBooks, ApiTyped
<1> HIDE DEF c
<1>3. conn[c] = NoConn /\ conn' = [conn EXCEPT ![c] = Refused]
  BY <1>1, <1>2, AtClient DEF ReaderBooks, Refused
<1>4. /\ Refused \in Conns /\ Refused.reader = "ended" /\ Refused.on = "none"
      /\ QueueBooks(Refused) /\ ReaderBooks(Refused) /\ Hears(conn[c], Refused) /\ \A n : Account(Refused, n)
  BY <1>3, RefusedFacts
<1>5. Links'
  BY <1>1, <1>2, <1>3, <1>4, ClientLinks
<1>6. SlotsAreConnections'
  BY <1>1, <1>2, <1>3, <1>4, SlotsStay
<1>7. WordKept /\ conn' \in [Clients -> Conns]
  BY <1>1, <1>3, <1>4, OneConnMoves
<1> QED BY <1>1, <1>5, <1>6, <1>7 DEF ApiBooks, ApiTyped

LEMMA StepCloseSocket ==
  ASSUME ApiBooks, CloseSocket
  PROVE  ApiBooks' /\ WordKept
<1>1. /\ listener' = "closed" /\ UNCHANGED <<served, stopping, req, taken>>
      /\ conn' = [c \in Clients |-> IF conn[c].reader = "waiting"
                                    THEN [conn[c] EXCEPT !.reader = "ended"] ELSE conn[c]]
  BY DEF CloseSocket
<1>2. ASSUME NEW c \in Clients
      PROVE  /\ conn'[c] \in Conns /\ Hears(conn[c], conn'[c])
             /\ conn[c].reader # "waiting" => conn'[c] = conn[c]
             /\ conn[c].reader = "waiting" => conn[c] = NoConn /\ conn'[c] = Refused
  <2>1. /\ conn[c] \in Conns /\ ReaderBooks(conn[c]) /\ Hears(conn[c], conn[c])
    BY AtClient
  <2>2. CASE conn[c].reader = "waiting"
    <3>1. conn[c] = NoConn
      BY <2>1, <2>2 DEF ReaderBooks
    <3>2. conn'[c] = Refused
      BY <1>1, <2>2, <3>1 DEF Refused
    <3> QED BY <2>2, <3>1, <3>2, RefusedFacts
  <2>3. CASE conn[c].reader # "waiting"
    BY <1>1, <2>1, <2>3
  <2> QED BY <2>2, <2>3
<1>3. ApiTyped' /\ WordKept
  <2>1. conn' \in [Clients -> Conns]
    BY <1>1, <1>2
  <2> QED BY <1>1, <1>2, <2>1 DEF WordKept, ApiBooks, ApiTyped
<1>4. SlotsAreConnections'
  <2>1. \A c \in Clients : Serving(c)' <=> Serving(c)
    BY <1>2, RefusedFacts DEF Serving
  <2>2. {c \in Clients : Serving(c)}' = {c \in Clients : Serving(c)}
    BY <2>1
  <2> QED BY <1>1, <2>2 DEF ApiBooks, SlotsAreConnections
<1>5. Links'
  <2>1. ASSUME NEW c \in Clients
        PROVE  /\ QueueBooks(conn'[c]) /\ ReaderBooks(conn'[c]) /\ Account(conn'[c], Cardinality(InFlight(c)'))
               /\ conn'[c].on # "none" => req'[conn'[c].on].from = c
    <3>1. InFlight(c)' = InFlight(c)
      BY <1>1 DEF InFlight
    <3>2. CASE conn[c].reader = "waiting"
      BY <1>2, <3>2, RefusedFacts
    <3>3. CASE conn[c].reader # "waiting"
      BY <1>1, <1>2, <3>1, <3>3 DEF ApiBooks, Links
    <3> QED BY <3>2, <3>3
  <2>2. ASSUME NEW r \in Requests
        PROVE  IF req'[r].from = "none" THEN req'[r] = NoReq ELSE RunBooks(r, req'[r], conn'[req'[r].from])
    <3>1. IF req[r].from = "none" THEN req[r] = NoReq ELSE RunBooks(r, req[r], conn[req[r].from])
      BY DEF ApiBooks, Links
    <3>2. CASE req[r].from = "none"
      BY <1>1, <3>1, <3>2
    <3>3. CASE req[r].from # "none"
      <4>1. req[r].from \in Clients
        BY <3>3 DEF ApiBooks, ApiTyped, Reqs
      <4>2. conn[req[r].from].reader # "waiting"
        BY <3>1, <3>3 DEF RunBooks
      <4>3. conn'[req[r].from] = conn[req[r].from]
        BY <1>2, <4>1, <4>2
      <4> QED BY <1>1, <3>1, <3>3, <4>3
    <3> QED BY <3>2, <3>3
  <2> QED BY <2>1, <2>2 DEF Links
<1> QED BY <1>3, <1>4, <1>5 DEF ApiBooks

\* What the client does is seen by the reader and the writer only.
LEMMA StepClientTurns ==
  ASSUME ApiBooks, NEW c \in Clients, NEW how \in {"halfclosed", "stalled", "gone"}, ClientTurns(c, how)
  PROVE  ApiBooks' /\ WordKept
<1> DEFINE k == conn[c]
           k2 == [k EXCEPT !.client = how]
<1>1. /\ k.writer \in {"waiting", "writing"} /\ conn' = [conn EXCEPT ![c] = k2] /\ taken' \in 0 .. MaxRead
      /\ UNCHANGED <<listener, served, stopping, req>>
  BY AtClient DEF ClientTurns
<1>2. /\ k \in Conns /\ QueueBooks(k) /\ ReaderBooks(k) /\ Keeps(k, k) /\ Hears(k, k)
      /\ Account(k, Cardinality(InFlight(c)))
  BY AtClient
<1>3. k2 \in Conns /\ SameButReader(k, k2) /\ k2.reader = k.reader /\ k2.on = k.on
  BY <1>2 DEF Conns, SameButReader
<1> HIDE DEF k2
<1>4. /\ QueueBooks(k2) /\ Keeps(k, k2) /\ Hears(k, k2) /\ (Closing(k2) <=> Closing(k))
      /\ Account(k2, Cardinality(InFlight(c)))
  BY <1>2, <1>3, ReaderTurns
<1>5. k.reader \notin {"waiting", "foreign", "ended"}
  BY <1>1, <1>2 DEF ReaderBooks
<1>6. ReaderBooks(k2)
  BY <1>2, <1>3, <1>4, <1>5 DEF ReaderBooks, SameButReader
<1> QED BY <1>1, <1>3, <1>4, <1>5, <1>6, ClientMoves DEF HandsStay
-----------------------------------------------------------------------------
(* The writer.                                                             *)

LEMMA WriterMoves ==
  ASSUME ApiBooks, NEW c \in Clients, NEW k2 \in Conns, conn' = [conn EXCEPT ![c] = k2],
         UNCHANGED <<listener, served, stopping, req, taken>>, conn[c].writer \in {"waiting", "writing"},
         k2.writer # "none", k2.reader = conn[c].reader, k2.on = conn[c].on, k2.permit => conn[c].permit,
         QueueBooks(k2), Keeps(conn[c], k2), Closing(k2) => Closing(conn[c]),
         Account(conn[c], Cardinality(InFlight(c))) => Account(k2, Cardinality(InFlight(c)))
  PROVE  ApiBooks' /\ WordKept
<1> DEFINE k == conn[c]
<1>1. ReaderBooks(k) /\ Account(k2, Cardinality(InFlight(c))) /\ taken' \in 0 .. MaxRead
  BY AtClient
<1>2. k.reader \notin {"waiting", "foreign", "ended"}
  BY <1>1 DEF ReaderBooks
<1>3. ReaderBooks(k2)
  BY <1>1, <1>2 DEF ReaderBooks
<1>4. HandsStay(k, k2) /\ Hears(k, k2)
  BY DEF HandsStay, Hears
<1> QED BY <1>1, <1>2, <1>3, <1>4, ClientMoves

LEMMA EndsFacts ==
  ASSUME NEW k \in Conns
  PROVE  LET k2 == WriterEnds(k)
         IN  /\ k2 \in Conns /\ QueueBooks(k2) /\ k2.writer = "gone" /\ ~Closing(k2) /\ ~k2.permit
             /\ k2.reader = k.reader /\ k2.on = k.on /\ k2.poisoned = k.poisoned
             /\ \A n : Account(k2, n)
<1> DEFINE k2 == WriterEnds(k)
<1>1. <<>> \in Seq(Frames)
  BY EmptySeq
<1>2. /\ k2 \in Conns /\ k2.writer = "gone" /\ ~k2.permit /\ k2.queue = <<>> /\ k2.frame = NoFrame /\ k2.got = <<>>
      /\ k2.reader = k.reader /\ k2.on = k.on /\ k2.poisoned = k.poisoned
  BY <1>1 DEF WriterEnds, Conns
<1> HIDE DEF k2
<1>3. StreamOf(k2) = <<>> /\ ~Closing(k2)
  BY <1>2, ConcatEmptySeq DEF StreamOf, Hand, Closing
<1>4. QueueBooks(k2)
  BY <1>2, <1>3, NoConnFacts, Limits DEF QueueBooks
<1>5. \A n : Account(k2, n)
  BY <1>2 DEF Account
<1> QED BY <1>2, <1>3, <1>4, <1>5 DEF k2

\* A writer that ends takes the queue with it.
LEMMA WriterLeaves ==
  ASSUME ApiBooks, NEW c \in Clients, conn' = [conn EXCEPT ![c] = WriterEnds(@)],
         UNCHANGED <<listener, served, stopping, req, taken>>, conn[c].writer \in {"waiting", "writing"}
  PROVE  ApiBooks' /\ WordKept
<1> DEFINE k == conn[c]
           k2 == WriterEnds(k)
<1>1. k \in Conns
  BY AtClient
<1>2. /\ k2 \in Conns /\ QueueBooks(k2) /\ k2.writer = "gone" /\ ~Closing(k2) /\ ~k2.permit
      /\ k2.reader = k.reader /\ k2.on = k.on /\ k2.poisoned = k.poisoned
      /\ \A n : Account(k2, n)
  BY <1>1, EndsFacts
<1>3. conn' = [conn EXCEPT ![c] = k2]
  OBVIOUS
<1> HIDE DEF k2
<1>4. Keeps(k, k2)
  BY <1>2 DEF Keeps
<1> QED BY <1>2, <1>3, <1>4, WriterMoves

LEMMA StepWriterStops ==
  ASSUME ApiBooks, NEW c \in Clients, WriterStops(c)
  PROVE  ApiBooks' /\ WordKept
  BY WriterLeaves DEF WriterStops

LEMMA StepWriteFailed ==
  ASSUME ApiBooks, NEW c \in Clients, WriteFailed(c)
  PROVE  ApiBooks' /\ WordKept
  BY WriterLeaves DEF WriteFailed

LEMMA StepTakeFrame ==
  ASSUME ApiBooks, NEW c \in Clients, TakeFrame(c)
  PROVE  ApiBooks' /\ WordKept
<1> DEFINE k == conn[c]
           h == Head(k.queue)
           t == Tail(k.queue)
           k2 == [k EXCEPT !.frame = h, !.queue = t, !.writer = "writing"]
           n == Cardinality(InFlight(c))
<1>1. /\ k.writer = "waiting" /\ k.queue # <<>> /\ UNCHANGED <<listener, served, stopping, req, taken>>
      /\ conn' = [conn EXCEPT ![c].frame = h, ![c].queue = Tail(@), ![c].writer = "writing"]
  BY DEF TakeFrame
<1>2. /\ k \in Conns /\ QueueBooks(k) /\ n \in Nat
  BY AtClient
<1>3. conn' = [conn EXCEPT ![c] = k2]
  BY <1>1, <1>2 DEF ApiBooks, ApiTyped
<1>4. k.frame = NoFrame /\ k.queue \in Seq(Frames) /\ h \in Frames /\ t \in Seq(Frames)
  BY <1>1, <1>2, StreamTyped, HeadTailProperties DEF QueueBooks
<1>5. EvCount(k.queue) = EvCount(t) + Ev(h)
  BY <1>1, <1>4, CountTail
<1> HIDE DEF h, t
<1>6. /\ k2 \in Conns /\ k2.got = k.got /\ k2.frame = h /\ k2.queue = t /\ k2.writer = "writing" /\ k2.bytes = k.bytes
      /\ k2.poisoned = k.poisoned /\ k2.permit = k.permit /\ k2.reader = k.reader /\ k2.on = k.on
  BY <1>2, <1>4 DEF Conns
<1> HIDE DEF k2
<1>7. /\ StreamOf(k2) = StreamOf(k) /\ k2.frame \in Frames /\ k2.frame # NoFrame /\ Len(k2.queue) + 1 = Len(k.queue)
  BY <1>1, <1>2, <1>4, <1>6, StreamTake DEF h, t
<1>8. Len(k2.queue) \in Nat /\ Len(k.queue) \in Nat /\ Len(k2.queue) <= Len(k.queue)
  BY <1>2, <1>6, <1>7, StreamTyped
<1>9. Closing(k2) => Closing(k)
  <2>1. \A i \in DOMAIN t : i + 1 \in DOMAIN k.queue /\ t[i] = k.queue[i + 1]
    <3>1. /\ Len(t) = Len(k.queue) - 1 /\ Len(k.queue) \in Nat
          /\ DOMAIN k.queue = 1 .. Len(k.queue) /\ DOMAIN t = 1 .. Len(t)
          /\ \A i \in 1 .. Len(t) : t[i] = k.queue[i + 1]
      BY <1>1, <1>4, HeadTailProperties, LenProperties DEF t
    <3> QED BY <3>1
  <2> QED BY <1>6, <2>1 DEF Closing
<1>10. QueueBooks(k2)
  <2>1. Len(k2.queue) <= EVENT_QUEUE_SLOTS
    <3>1. Len(k.queue) <= EVENT_QUEUE_SLOTS
      BY <1>2 DEF QueueBooks
    <3> QED BY <1>8, <3>1, Limits
  <2> QED BY <1>2, <1>6, <1>7, <1>9, <2>1 DEF QueueBooks
<1>11. Keeps(k, k2)
  BY <1>1, <1>6, <1>7 DEF Keeps
<1>12. Account(k, n) => Account(k2, n)
  <2>1. EvCount(k.queue) \in Nat /\ EvCount(t) \in Nat /\ Ev(h) \in Nat /\ Ev(NoFrame) = 0
    BY <1>4, CountNat, NoConnFacts DEF Ev
  <2> QED BY <1>1, <1>2, <1>4, <1>5, <1>6, <2>1 DEF Account
<1> QED BY <1>1, <1>3, <1>6, <1>9, <1>10, <1>11, <1>12, WriterMoves

LEMMA StepWritten ==
  ASSUME ApiBooks, NEW c \in Clients, Written(c)
  PROVE  ApiBooks' /\ WordKept
<1> DEFINE k == conn[c]
           g == IF k.frame.req = "none" THEN k.got ELSE Append(k.got, k.frame)
           b == IF k.frame.kind \in ServerEvent THEN k.bytes - 1 ELSE k.bytes
           k1 == [k EXCEPT !.got = g, !.frame = NoFrame, !.writer = "waiting", !.bytes = b]
           n == Cardinality(InFlight(c))
<1>1. /\ k.writer = "writing" /\ UNCHANGED <<listener, served, stopping, req, taken>>
      /\ conn' = [conn EXCEPT ![c] = IF k.frame.kind = "closing" THEN WriterEnds(k1) ELSE k1]
  <2>1. /\ k.writer = "writing" /\ UNCHANGED <<listener, served, stopping, req, taken>>
    BY DEF Written
  <2>2. k \in Conns
    BY AtClient
  <2>3. [conn[c] EXCEPT !.got = IF conn[c].frame.req = "none" THEN @ ELSE Append(@, conn[c].frame),
                        !.frame = NoFrame, !.writer = "waiting",
                        !.bytes = IF conn[c].frame.kind \in ServerEvent THEN @ - 1 ELSE @] = k1
    BY <2>2 DEF Conns
  <2> QED BY <2>1, <2>3 DEF Written
<1>2. /\ k \in Conns /\ QueueBooks(k) /\ n \in Nat
  BY AtClient
<1>3. k.frame \in Frames /\ k.frame # NoFrame /\ k.bytes \in Int
  BY <1>1, <1>2 DEF QueueBooks, Conns
<1>4. g \in Seq(Frames) /\ b \in Int /\ b = k.bytes - Ev(k.frame)
  BY <1>2, <1>3, StreamTyped, AppendProperties DEF Ev
<1>5. g = IF k.frame.req = "none" THEN k.got ELSE Append(k.got, k.frame)
  OBVIOUS
<1> HIDE DEF g, b
<1>6. /\ k1 \in Conns /\ k1.got = g /\ k1.frame = NoFrame /\ k1.queue = k.queue /\ k1.writer = "waiting"
      /\ k1.bytes = b /\ k1.poisoned = k.poisoned /\ k1.permit = k.permit /\ k1.reader = k.reader /\ k1.on = k.on
  BY <1>2, <1>4 DEF Conns
<1> HIDE DEF k1
<1>7. Ordered(StreamOf(k1)) /\ \A e : e.req # "none" /\ Has(StreamOf(k), e) => Has(StreamOf(k1), e)
  <2>1. Ordered(StreamOf(k))
    BY <1>2 DEF QueueBooks
  <2> QED BY <1>2, <1>3, <1>5, <1>6, <2>1, StreamWritten
<1>8. Closing(k1) <=> Closing(k)
  BY <1>6 DEF Closing
<1>9. QueueBooks(k1)
  BY <1>2, <1>6, <1>7, <1>8 DEF QueueBooks
<1>10. Keeps(k, k1)
  BY <1>1, <1>6, <1>7 DEF Keeps
<1>11. Account(k, n) => Account(k1, n)
  <2>1. EvCount(k.queue) \in Nat /\ Ev(k.frame) \in {0, 1} /\ Ev(NoFrame) = 0
    BY <1>2, StreamTyped, CountNat, NoConnFacts DEF Ev
  <2> QED BY <1>1, <1>2, <1>3, <1>4, <1>6, <2>1, Limits DEF Account
<1>12. CASE k.frame.kind # "closing"
  <2>1. conn' = [conn EXCEPT ![c] = k1]
    BY <1>1, <1>12
  <2> QED BY <1>1, <1>6, <1>8, <1>9, <1>10, <1>11, <2>1, WriterMoves
<1>13. CASE k.frame.kind = "closing"
  <2> DEFINE k2 == WriterEnds(k1)
  <2>1. conn' = [conn EXCEPT ![c] = k2]
    BY <1>1, <1>13
  <2>2. /\ k2 \in Conns /\ QueueBooks(k2) /\ k2.writer = "gone" /\ ~Closing(k2) /\ ~k2.permit
        /\ k2.reader = k1.reader /\ k2.on = k1.on /\ k2.poisoned = k1.poisoned
        /\ \A m : Account(k2, m)
    BY <1>6, EndsFacts
  <2> HIDE DEF k2
  <2>3. Keeps(k, k2)
    BY <1>6, <2>2 DEF Keeps
  <2> QED BY <1>1, <1>6, <2>1, <2>2, <2>3, WriterMoves
<1> QED BY <1>12, <1>13
-----------------------------------------------------------------------------
(* A run.                                                                  *)

\* The thread of a run and what it does to the connection.
LEMMA ThreadMoves ==
  ASSUME ApiBooks, NEW r \in Requests, req[r].pc # "none", NEW k2 \in Conns, NEW q2 \in Reqs,
         conn' = [conn EXCEPT ![req[r].from] = k2], req' = [req EXCEPT ![r] = q2], q2.from = req[r].from,
         UNCHANGED <<listener, served, stopping, taken>>,
         OnQueue(conn[req[r].from], k2), Closing(k2) => Closing(conn[req[r].from]), RunBooks(r, q2, k2),
         Account(k2, Cardinality(InFlight(req[r].from)) - Moving(req[r]) + Moving(q2))
  PROVE  ApiBooks' /\ WordKept
<1> DEFINE c == req[r].from
           k == conn[c]
<1>1. c \in Clients /\ RunBooks(r, req[r], k)
  BY AtRun
<1>2. ReaderBooks(k) /\ taken' \in 0 .. MaxRead
  BY <1>1, AtClient
<1>3. k.reader # "waiting" /\ k2.reader = k.reader /\ k2.on = k.on /\ k2.writer = k.writer
  BY <1>1 DEF RunBooks, OnQueue
<1>4. ReaderBooks(k2)
  BY <1>2, <1>3 DEF ReaderBooks
<1>5. QueueBooks(k2) /\ Keeps(k, k2) /\ Hears(k, k2)
  BY DEF OnQueue
<1> HIDE DEF c
<1> QED BY <1>1, <1>2, <1>3, <1>4, <1>5, RunMoves DEF c

\* The thread of a run at its gate.
LEMMA GateMoves ==
  ASSUME ApiBooks, NEW r \in Requests, req[r].pc # "none", NEW q2 \in Reqs,
         req' = [req EXCEPT ![r] = q2], q2.from = req[r].from,
         UNCHANGED <<listener, served, stopping, conn, taken>>,
         RunBooks(r, q2, conn[req[r].from]), Moving(q2) = Moving(req[r])
  PROVE  ApiBooks' /\ WordKept
<1> DEFINE c == req[r].from
           k == conn[c]
           n == Cardinality(InFlight(c))
<1>1. c \in Clients
  BY AtRun
<1>2. k \in Conns /\ QueueBooks(k) /\ Account(k, n) /\ n \in Nat /\ Keeps(k, k) /\ Hears(k, k)
  BY <1>1, AtClient
<1>3. conn' = [conn EXCEPT ![c] = k]
  BY <1>1 DEF ApiBooks, ApiTyped
<1>4. OnQueue(k, k)
  BY <1>2 DEF OnQueue
<1>5. Account(k, n - Moving(req[r]) + Moving(q2))
  <2>1. n - Moving(req[r]) + Moving(q2) = n
    BY <1>2 DEF Moving
  <2> QED BY <1>2, <2>1
<1> QED BY <1>2, <1>3, <1>4, <1>5, ThreadMoves

LEMMA StepDeferStarted ==
  ASSUME ApiBooks, NEW r \in Requests, defer_started(r)
  PROVE  ApiBooks' /\ WordKept
<1> DEFINE q == req[r]
           k == conn[q.from]
           toSend == [q EXCEPT !.pc = "reserve", !.what = "started"]
           toWait == [q EXCEPT !.held = TRUE, !.pc = "check"]
           q2 == IF q.released \/ q.releasing THEN toSend ELSE toWait
<1>1. /\ q.pc = "starting" /\ req' = [req EXCEPT ![r] = q2]
      /\ UNCHANGED <<listener, served, stopping, conn, taken>>
  BY DEF defer_started
<1>2. q \in Reqs /\ RunBooks(r, q, k)
  BY <1>1, AtRun
<1>3. /\ toSend \in Reqs /\ toSend.pc = "reserve" /\ toSend.what = "started" /\ toSend.from = q.from
      /\ toSend.held = q.held /\ toSend.releasing = q.releasing /\ toSend.released = q.released /\ toSend.left = q.left
      /\ toWait \in Reqs /\ toWait.pc = "check" /\ toWait.from = q.from
      /\ toWait.held /\ toWait.releasing = q.releasing /\ toWait.released = q.released /\ toWait.left = q.left
  BY <1>2 DEF Reqs, Runs
<1> HIDE DEF toSend, toWait
<1>4. CASE q.released \/ q.releasing
  <2>1. RunBooks(r, toSend, k)
    BY <1>1, <1>2, <1>3, <1>4 DEF RunBooks
  <2>2. Moving(toSend) = Moving(q)
    BY <1>1, <1>3 DEF Moving
  <2> QED BY <1>1, <1>3, <1>4, <2>1, <2>2, GateMoves
<1>5. CASE ~(q.released \/ q.releasing)
  <2>1. RunBooks(r, toWait, k)
    BY <1>1, <1>2, <1>3, <1>5 DEF RunBooks
  <2>2. Moving(toWait) = Moving(q)
    BY <1>1, <1>3 DEF Moving
  <2> QED BY <1>1, <1>3, <1>5, <2>1, <2>2, GateMoves
<1> QED BY <1>4, <1>5

\* Past the gate, or elsewhere in the wait for it.
LEMMA WaitMoves ==
  ASSUME ApiBooks, NEW r \in Requests, req[r].pc \in {"check", "arm", "recheck", "parked"}, NEW q2,
         NEW x \in {"check", "arm", "recheck", "parked"}, NEW w \in BOOLEAN,
         \/ q2 = ToSend(req[r]) /\ req[r].released
         \/ q2 = [req[r] EXCEPT !.pc = x]
         \/ q2 = [req[r] EXCEPT !.pc = x, !.woken = w],
         req' = [req EXCEPT ![r] = q2], UNCHANGED <<listener, served, stopping, conn, taken>>
  PROVE  ApiBooks' /\ WordKept
<1> DEFINE q == req[r]
           k == conn[q.from]
<1>1. q \in Reqs /\ RunBooks(r, q, k)
  BY AtRun
<1>2. /\ q2 \in Reqs /\ q2.from = q.from /\ q2.left = q.left
      /\ q2.held = q.held /\ q2.releasing = q.releasing /\ q2.released = q.released
      /\ q2.pc \in {"check", "arm", "recheck", "parked"} \/ (q2.pc = "reserve" /\ q2.what = "event" /\ q.released)
  BY <1>1 DEF ToSend, Reqs, Runs
<1>3. Moving(q2) = Moving(q)
  BY <1>2 DEF Moving
<1>4. RunBooks(r, q2, k)
  <2>1. CASE q2.pc \in {"check", "arm", "recheck", "parked"}
    BY <1>1, <1>2, <2>1 DEF RunBooks
  <2>2. CASE q2.pc = "reserve" /\ q2.what = "event" /\ q.released
    <3>1. Told(k, "started", r) \/ k.poisoned
      BY <1>1, <2>2 DEF RunBooks
    <3> QED BY <1>1, <1>2, <2>2, <3>1 DEF RunBooks
  <2> QED BY <1>2, <2>1, <2>2
<1> QED BY <1>2, <1>3, <1>4, GateMoves

LEMMA StepWaitCheck ==
  ASSUME ApiBooks, NEW r \in Requests, WaitCheck(r)
  PROVE  ApiBooks' /\ WordKept
<1>1. CASE req[r].released
  BY <1>1, WaitMoves DEF WaitCheck
<1>2. CASE ~req[r].released
  BY <1>2, WaitMoves DEF WaitCheck
<1> QED BY <1>1, <1>2

LEMMA StepWaitRecheck ==
  ASSUME ApiBooks, NEW r \in Requests, WaitRecheck(r)
  PROVE  ApiBooks' /\ WordKept
<1>1. CASE req[r].released
  BY <1>1, WaitMoves DEF WaitRecheck
<1>2. CASE ~req[r].released
  BY <1>2, WaitMoves DEF WaitRecheck
<1> QED BY <1>1, <1>2

LEMMA StepWaitArm ==
  ASSUME ApiBooks, NEW r \in Requests, WaitArm(r)
  PROVE  ApiBooks' /\ WordKept
<1> DEFINE q2 == [req[r] EXCEPT !.pc = "recheck", !.woken = FALSE]
<1>1. /\ req[r].pc = "arm" /\ req' = [req EXCEPT ![r] = q2]
      /\ UNCHANGED <<listener, served, stopping, conn, taken>>
  BY DEF WaitArm, ApiBooks, ApiTyped
<1> QED BY <1>1, WaitMoves

LEMMA StepWaitWoken ==
  ASSUME ApiBooks, NEW r \in Requests, WaitWoken(r)
  PROVE  ApiBooks' /\ WordKept
  BY WaitMoves DEF WaitWoken
LEMMA SentBooks ==
  ASSUME NEW r \in Requests, NEW q \in Reqs, NEW k, NEW k2, RunBooks(r, q, k), Keeps(k, k2),
         q.pc \in {"reserve", "look", "push"}, k2.reader = k.reader, k2.on = k.on,
         k2.poisoned \/ Told(k2, "started", r)
  PROVE  /\ Sent(q) \in Reqs /\ Sent(q).from = q.from /\ Moving(Sent(q)) = 0 /\ RunBooks(r, Sent(q), k2)
<1> DEFINE q2 == Sent(q)
<1>1. RunBooks(r, q, k2)
  BY RunKeeps
<1>2. q.left \in 1 .. RunEvents /\ q.what \in {"started", "event"} /\ RunEvents \in Nat
  <2>1. RunEvents \in Nat
    BY ApiAssumption
  <2> QED BY <2>1 DEF RunBooks, Reqs
<1>3. CASE q.what = "started"
  <2>1. q2 = [q EXCEPT !.pc = "check"]
    BY <1>3 DEF Sent
  <2> HIDE DEF q2
  <2>2. /\ q2 \in Reqs /\ q2.from = q.from /\ q2.pc = "check" /\ q2.left = q.left
        /\ q2.held = q.held /\ q2.releasing = q.releasing /\ q2.released = q.released
    BY <2>1 DEF Reqs, Runs
  <2>3. RunBooks(r, q2, k2) /\ Moving(q2) = 0
    BY <1>1, <1>2, <2>2 DEF RunBooks, Moving
  <2> QED BY <2>2, <2>3 DEF q2
<1>4. CASE q.what = "event"
  <2> DEFINE e == q.left - 1
             x == IF q.left = 1 THEN "done" ELSE "check"
  <2>1. q2 = [q EXCEPT !.left = e, !.pc = x]
    BY <1>4 DEF Sent
  <2>2. e \in 0 .. RunEvents /\ x \in {"check", "done"} /\ (x # "done" => e \in 1 .. RunEvents)
    BY <1>2
  <2> HIDE DEF q2, e, x
  <2>3. /\ q2 \in Reqs /\ q2.from = q.from /\ q2.pc = x /\ q2.left = e
        /\ q2.held = q.held /\ q2.releasing = q.releasing /\ q2.released = q.released
    BY <2>1, <2>2 DEF Reqs, Runs
  <2>4. RunBooks(r, q2, k2) /\ Moving(q2) = 0
    BY <1>1, <2>2, <2>3 DEF RunBooks, Moving
  <2> QED BY <2>3, <2>4 DEF q2
<1> QED BY <1>2, <1>3, <1>4

LEMMA StepRunReserve ==
  ASSUME ApiBooks, NEW r \in Requests, RunReserve(r)
  PROVE  ApiBooks' /\ WordKept
<1> DEFINE q == req[r]
           c == q.from
           k == conn[c]
           n == Cardinality(InFlight(c))
           k2 == IF k.poisoned THEN k ELSE reserve_bytes(k)
           toLook == [q EXCEPT !.pc = "look"]
           q2 == IF ~k.poisoned /\ Reserved(k) THEN toLook ELSE Sent(q)
<1>1. /\ q.pc = "reserve" /\ conn' = [conn EXCEPT ![c] = k2] /\ req' = [req EXCEPT ![r] = q2]
      /\ UNCHANGED <<listener, served, stopping, taken>>
  BY DEF RunReserve
<1>2. q \in Reqs /\ c \in Clients /\ RunBooks(r, q, k)
  BY <1>1, AtRun
<1>3. /\ k \in Conns /\ QueueBooks(k) /\ Account(k, n) /\ n \in Nat /\ Keeps(k, k) /\ Hears(k, k)
  BY <1>2, AtClient
<1>4. Moving(q) = 0
  BY <1>1 DEF Moving
<1>5. CASE k.poisoned
  <2>1. OnQueue(k, k)
    BY <1>3 DEF OnQueue
  <2>2. Sent(q) \in Reqs /\ Sent(q).from = c /\ Moving(Sent(q)) = 0 /\ RunBooks(r, Sent(q), k)
    BY <1>1, <1>2, <1>3, <1>5, SentBooks
  <2>3. n - Moving(q) + Moving(Sent(q)) = n
    BY <1>3, <1>4, <2>2
  <2>4. conn' = [conn EXCEPT ![c] = k] /\ req' = [req EXCEPT ![r] = Sent(q)]
    BY <1>1, <1>5
  <2>5. Account(k, n - Moving(q) + Moving(Sent(q)))
    BY <1>3, <2>3
  <2> QED BY <1>1, <1>3, <2>1, <2>2, <2>4, <2>5, ThreadMoves
<1>6. CASE ~k.poisoned
  <2> DEFINE k1 == reserve_bytes(k)
  <2>1. /\ k1 \in Conns /\ OnQueue(k, k1) /\ (Closing(k1) <=> Closing(k))
        /\ k1.got = k.got /\ k1.frame = k.frame /\ k1.queue = k.queue
        /\ Reserved(k) => k1.poisoned = k.poisoned /\ (Account(k, n) => Account(k1, n + 1))
        /\ ~Reserved(k) => k1.poisoned /\ (Account(k, n) => Account(k1, n))
    BY <1>3, <1>6, ReserveFacts
  <2>2. conn' = [conn EXCEPT ![c] = k1]
    BY <1>1, <1>6
  <2> HIDE DEF k1
  <2>3. Keeps(k, k1) /\ k1.reader = k.reader /\ k1.on = k.on /\ k1.writer = k.writer
    BY <2>1 DEF OnQueue
  <2>4. CASE Reserved(k)
    <3>1. /\ toLook \in Reqs /\ toLook.from = c /\ toLook.pc = "look" /\ toLook.left = q.left /\ toLook.what = q.what
          /\ toLook.held = q.held /\ toLook.releasing = q.releasing /\ toLook.released = q.released
      BY <1>2 DEF Reqs, Runs
    <3>2. req' = [req EXCEPT ![r] = toLook]
      BY <1>1, <1>6, <2>4
    <3> HIDE DEF toLook
    <3>3. RunBooks(r, q, k1) /\ ~k1.poisoned
      BY <1>2, <1>6, <2>1, <2>3, <2>4, RunKeeps
    <3>4. RunBooks(r, toLook, k1)
      <4>1. Told(k1, "accepted", r) /\ (q.what = "event" => Told(k1, "started", r))
        BY <1>1, <3>3 DEF RunBooks, Opens
      <4> QED BY <1>1, <3>1, <3>3, <4>1 DEF RunBooks
    <3>5. Moving(toLook) = 1
      BY <3>1 DEF Moving
    <3>6. n - Moving(q) + Moving(toLook) = n + 1
      BY <1>3, <1>4, <3>5
    <3>7. Account(k1, n - Moving(q) + Moving(toLook))
      BY <1>3, <2>1, <2>4, <3>6
    <3> QED BY <1>1, <2>1, <2>2, <3>1, <3>2, <3>4, <3>7, ThreadMoves
  <2>5. CASE ~Reserved(k)
    <3>1. Sent(q) \in Reqs /\ Sent(q).from = c /\ Moving(Sent(q)) = 0 /\ RunBooks(r, Sent(q), k1)
      BY <1>1, <1>2, <2>1, <2>3, <2>5, SentBooks
    <3>2. n - Moving(q) + Moving(Sent(q)) = n
      BY <1>3, <1>4, <3>1
    <3>3. req' = [req EXCEPT ![r] = Sent(q)]
      BY <1>1, <2>5
    <3>4. Account(k1, n - Moving(q) + Moving(Sent(q)))
      BY <1>3, <2>1, <2>5, <3>2
    <3> QED BY <1>1, <2>1, <2>2, <3>1, <3>3, <3>4, ThreadMoves
  <2> QED BY <2>4, <2>5
<1> QED BY <1>5, <1>6

LEMMA StepRunLook ==
  ASSUME ApiBooks, NEW r \in Requests, RunLook(r)
  PROVE  ApiBooks' /\ WordKept
<1> DEFINE q == req[r]
           c == q.from
           k == conn[c]
           n == Cardinality(InFlight(c))
           toPush == [q EXCEPT !.pc = "push"]
<1>1. /\ q.pc = "look" /\ req' = [req EXCEPT ![r] = IF k.poisoned THEN Sent(q) ELSE toPush]
      /\ conn' = [conn EXCEPT ![c].bytes = IF k.poisoned THEN @ - 1 ELSE @]
      /\ UNCHANGED <<listener, served, stopping, taken>>
  BY DEF RunLook
<1>2. q \in Reqs /\ c \in Clients /\ RunBooks(r, q, k)
  BY <1>1, AtRun
<1>3. /\ k \in Conns /\ QueueBooks(k) /\ Account(k, n) /\ n \in Nat /\ Keeps(k, k) /\ Hears(k, k)
  BY <1>2, AtClient
<1>4. Moving(q) = 1
  BY <1>1 DEF Moving
<1>5. CASE k.poisoned
  <2> DEFINE b == k.bytes - 1
             k2 == [k EXCEPT !.bytes = b]
  <2>1. b \in Int /\ k.bytes \in Int
    BY <1>3 DEF Conns
  <2>2. conn' = [conn EXCEPT ![c] = k2] /\ req' = [req EXCEPT ![r] = Sent(q)]
    BY <1>1, <1>2, <1>3, <1>5 DEF ApiBooks, ApiTyped
  <2>3. b = k.bytes - 1
    OBVIOUS
  <2> HIDE DEF b
  <2>4. /\ k2 \in Conns /\ k2.got = k.got /\ k2.frame = k.frame /\ k2.queue = k.queue
        /\ k2.writer = k.writer /\ k2.poisoned = k.poisoned /\ k2.permit = k.permit /\ k2.bytes = b
        /\ k2.client = k.client /\ k2.reader = k.reader /\ k2.on = k.on
    BY <1>3, <2>1, BytesFacts
  <2> HIDE DEF k2
  <2>5. QueueBooks(k2) /\ Keeps(k, k2) /\ (Closing(k2) <=> Closing(k))
    BY <1>3, <2>4, QueueStays
  <2>6. OnQueue(k, k2)
    BY <2>4, <2>5 DEF OnQueue, Hears
  <2>7. Sent(q) \in Reqs /\ Sent(q).from = c /\ Moving(Sent(q)) = 0 /\ RunBooks(r, Sent(q), k2)
    BY <1>1, <1>2, <1>5, <2>4, <2>5, SentBooks
  <2>8. n - Moving(q) + Moving(Sent(q)) = n - 1
    BY <1>3, <1>4, <2>7
  <2>9. Account(k2, n - 1)
    <3>1. EvCount(k.queue) \in Nat /\ Ev(k.frame) \in Nat
      BY <1>3, StreamTyped, CountNat DEF Ev
    <3> QED BY <1>3, <2>1, <2>3, <2>4, <3>1, Limits DEF Account
  <2>10. Account(k2, n - Moving(q) + Moving(Sent(q)))
    BY <2>8, <2>9
  <2> QED BY <1>1, <2>2, <2>4, <2>5, <2>6, <2>7, <2>10, ThreadMoves
<1>6. CASE ~k.poisoned
  <2>1. UNCHANGED conn /\ req' = [req EXCEPT ![r] = toPush]
    BY <1>1, <1>2, <1>3, <1>6 DEF ApiBooks, ApiTyped, Conns
  <2>2. /\ toPush \in Reqs /\ toPush.from = c /\ toPush.pc = "push" /\ toPush.left = q.left /\ toPush.what = q.what
        /\ toPush.held = q.held /\ toPush.releasing = q.releasing /\ toPush.released = q.released
    BY <1>2 DEF Reqs, Runs
  <2> HIDE DEF toPush
  <2>3. RunBooks(r, toPush, k)
    BY <1>1, <1>2, <2>2 DEF RunBooks
  <2>4. Moving(toPush) = Moving(q)
    BY <1>4, <2>2 DEF Moving
  <2> QED BY <1>1, <2>1, <2>2, <2>3, <2>4, GateMoves
<1> QED BY <1>5, <1>6

LEMMA StepRunPush ==
  ASSUME ApiBooks, NEW r \in Requests, RunPush(r)
  PROVE  ApiBooks' /\ WordKept
<1> DEFINE q == req[r]
           c == q.from
           k == conn[c]
           n == Cardinality(InFlight(c))
           f == Frame(q.what, r)
           k2 == Push(k, f)
           m == n - 1
<1>1. /\ q.pc = "push" /\ req' = [req EXCEPT ![r] = Sent(q)] /\ conn' = [conn EXCEPT ![c] = k2]
      /\ UNCHANGED <<listener, served, stopping, taken>>
  BY DEF RunPush
<1>2. q \in Reqs /\ c \in Clients /\ RunBooks(r, q, k) /\ r # "none"
  BY <1>1, AtRun, ApiAssumption
<1>3. /\ k \in Conns /\ QueueBooks(k) /\ Account(k, n) /\ n \in Nat
  BY <1>2, AtClient
<1>4. /\ q.what \in {"started", "event"} /\ Told(k, "accepted", r) /\ (q.what = "event" => Told(k, "started", r))
  BY <1>1, <1>2 DEF RunBooks, Reqs
<1>5. f \in Frames /\ f.kind = q.what /\ f.req = r
  BY <1>4, FrameFacts
<1>6. k.writer = "gone" \/ (k.writer # "none" /\ MayFollow(StreamOf(k), f))
  <2>1. k.writer # "none"
    <3>1. ASSUME k.writer = "none"
          PROVE  StreamOf(k) = <<>>
      BY <1>3, <3>1, ConcatEmptySeq DEF QueueBooks, StreamOf, Hand
    <3>2. ~Has(<<>>, Frame("accepted", r))
      BY DEF Has
    <3> QED BY <1>4, <3>1, <3>2 DEF Told
  <2> QED BY <1>4, <1>5, <2>1 DEF Told, MayFollow
<1>7. m \in Int /\ m + 1 = n
  BY <1>3
<1> HIDE DEF m, f
<1>8. /\ k2 \in Conns /\ OnQueue(k, k2) /\ (Closing(k2) => Closing(k))
      /\ k2.poisoned \/ Has(StreamOf(k2), f)
      /\ Account(k, m + 1) => Account(k2, m)
  BY <1>3, <1>4, <1>5, <1>6, <1>7, PushFacts
<1> HIDE DEF k2
<1>9. Keeps(k, k2) /\ k2.reader = k.reader /\ k2.on = k.on /\ k2.writer = k.writer
  BY <1>8 DEF OnQueue
<1>10. k2.poisoned \/ Told(k2, "started", r)
  <2>1. CASE q.what = "started"
    BY <1>8, <2>1 DEF Told, f
  <2>2. CASE q.what = "event"
    <3>1. Frame("started", r).req = r
      BY DEF Frame
    <3> QED BY <1>2, <1>4, <1>9, <2>2, <3>1 DEF Told, Keeps
  <2> QED BY <1>4, <2>1, <2>2
<1>11. Sent(q) \in Reqs /\ Sent(q).from = c /\ Moving(Sent(q)) = 0 /\ RunBooks(r, Sent(q), k2)
  BY <1>1, <1>2, <1>9, <1>10, SentBooks
<1>12. n - Moving(q) + Moving(Sent(q)) = m
  <2>1. Moving(q) = 1
    BY <1>1 DEF Moving
  <2> QED BY <1>3, <1>11, <2>1 DEF m
<1>13. Account(k2, n - Moving(q) + Moving(Sent(q)))
  BY <1>3, <1>7, <1>8, <1>12
<1> QED BY <1>1, <1>8, <1>11, <1>13, ThreadMoves
-----------------------------------------------------------------------------
(* The answers: what the reader says of a line depends on the line only.   *)

LEMMA ErrFacts ==
  \A id, code : /\ err(id, code).id = id /\ err(id, code).code = code
                /\ ok(id).id = id /\ ok(id).code = "ok" /\ ok(id) = err(id, "ok")
  BY DEF err, ok

LEMMA VerdictFacts ==
  ASSUME NEW l \in Lines, NEW over \in BOOLEAN
  PROVE  /\ Verdict(l, over).id = salvage_id_from_bytes(l)
         /\ Verdict(l, over).code = "handler" =>
               /\ ~over /\ l.whole /\ l.utf8 /\ l.json
               /\ l.method = "message.send" /\ l.params = "given" /\ validate(l) = "ok"
<1>1. CASE over
  <2>1. Verdict(l, over) = err(salvage_id_from_bytes(l), "rate_limited")
    BY <1>1 DEF Verdict
  <2> QED BY <2>1, ErrFacts
<1>2. CASE ~over /\ (~l.whole \/ ~l.utf8)
  <2>1. Verdict(l, over) = err(salvage_id_from_bytes(l), "invalid_request")
    BY <1>2 DEF Verdict
  <2> QED BY <2>1, ErrFacts
<1>3. CASE ~over /\ l.whole /\ l.utf8 /\ ~(l.json /\ deserialize_id(l) /\ l.method # "none")
  <2>1. parse_request(l) = err(salvage_id_from_bytes(l), "invalid_request")
    <3>1. CASE ~l.json
      BY <3>1 DEF parse_request
    <3>2. CASE l.json
      BY <1>3, <3>2 DEF parse_request, salvage_id_from_bytes
    <3> QED BY <3>1, <3>2
  <2>2. Verdict(l, over) = parse_request(l)
    BY <1>3, <2>1, ErrFacts DEF Verdict
  <2> QED BY <2>1, <2>2, ErrFacts
<1>4. CASE ~over /\ l.whole /\ l.utf8 /\ l.json /\ deserialize_id(l) /\ l.method # "none"
  <2>1. parse_request(l) = ok(l.id)
    BY <1>4 DEF parse_request
  <2>2. Verdict(l, over) = dispatch(l)
    BY <1>4, <2>1, ErrFacts DEF Verdict
  <2>3. salvage_id_from_bytes(l) = l.id
    BY <1>4 DEF salvage_id_from_bytes, salvage_id
  <2>4. validate(l) \in {"invalid_request", "session_id_invalid", "ok"}
    BY DEF validate
  <2>5. CASE l.method = "message.send" /\ l.params # "given"
    <3>1. dispatch(l) = err(l.id, "invalid_request")
      BY <2>5 DEF dispatch
    <3> QED BY <2>2, <2>3, <3>1, ErrFacts
  <2>6. CASE l.method = "message.send" /\ l.params = "given" /\ validate(l) # "ok"
    <3>1. dispatch(l) = err(l.id, validate(l))
      BY <2>6 DEF dispatch
    <3> QED BY <2>2, <2>3, <2>4, <3>1, ErrFacts
  <2>7. CASE l.method = "message.send" /\ l.params = "given" /\ validate(l) = "ok"
    <3>1. dispatch(l) = err(l.id, "handler")
      BY <2>7 DEF dispatch
    <3> QED BY <1>4, <2>2, <2>3, <2>7, <3>1, ErrFacts
  <2>8. CASE l.method # "message.send"
    <3>1. dispatch(l) \in {ok(l.id), err(l.id, "invalid_request")}
      BY <2>8 DEF dispatch
    <3> QED BY <2>2, <2>3, <3>1, ErrFacts
  <2> QED BY <2>5, <2>6, <2>7, <2>8
<1> QED BY <1>1, <1>2, <1>3, <1>4

\* AnswersFindTheirRequest holds of any lines.
LEMMA AnswersFind == AnswersFindTheirRequest
<1>1. ASSUME NEW l \in Lines, NEW over \in BOOLEAN, NEW a \in Responses(l, over)
      PROVE  /\ a.id \in {l.id, ""} /\ a.id = Verdict(l, TRUE).id
             /\ l.utf8 /\ l.json /\ deserialize_id(l) => a.id = l.id
  <2>1. a.id = Verdict(l, over).id
    <3>1. CASE Verdict(l, over).code = "handler"
      BY <1>1, <3>1, ErrFacts DEF Responses
    <3>2. CASE Verdict(l, over).code # "handler"
      BY <1>1, <3>2 DEF Responses
    <3> QED BY <3>1, <3>2
  <2>2. a.id = salvage_id_from_bytes(l) /\ a.id = Verdict(l, TRUE).id
    BY <2>1, VerdictFacts
  <2>3. salvage_id_from_bytes(l) \in {l.id, ""}
    BY DEF salvage_id_from_bytes, salvage_id
  <2>4. l.utf8 /\ l.json /\ deserialize_id(l) => salvage_id_from_bytes(l) = l.id
    BY DEF salvage_id_from_bytes, salvage_id
  <2> QED BY <2>2, <2>3, <2>4
<1>2. ASSUME NEW l \in Lines, Sends(l)
      PROVE  l.utf8 /\ l.json /\ l.text \in {"typed", "said"} /\ l.session # "bad"
  <2>1. l.utf8 /\ l.json /\ validate(l) = "ok"
    BY <1>2, VerdictFacts DEF Sends
  <2>2. l.text \in {"empty", "typed", "said", "long"}
    BY ApiAssumption
  <2> QED BY <2>1, <2>2 DEF validate, effective_session_id
<1> QED BY <1>1, <1>2 DEF AnswersFindTheirRequest

-----------------------------------------------------------------------------
(* The theorems about the socket.                                          *)

LEMMA ApiBegins ==
  ASSUME ApiInit
  PROVE  ApiBooks
<1>1. /\ listener = "accepting" /\ served = 0 /\ stopping = FALSE /\ taken = 0
      /\ conn = [c \in Clients |-> NoConn] /\ req = [r \in Requests |-> NoReq]
  BY DEF ApiInit
<1>2. ApiTyped
  <2>1. MaxRead \in Nat
    BY ApiAssumption
  <2>2. 0 \in 0 .. MaxRead
    BY <2>1
  <2> QED BY <1>1, <2>2, NoConnFacts, NoReqTyped DEF ApiTyped
<1>3. SlotsAreConnections
  <2>1. {c \in Clients : Serving(c)} = {}
    BY <1>1, NoConnFacts DEF Serving
  <2>2. Cardinality({c \in Clients : Serving(c)}) = 0
    BY <2>1, FS_EmptySet
  <2>3. 0 <= MAX_CONNECTIONS
    BY Limits
  <2> QED BY <1>1, <2>2, <2>3 DEF SlotsAreConnections
<1>4. QueueBooks(NoConn) /\ ReaderBooks(NoConn) /\ \A n : Account(NoConn, n)
  <2>1. StreamOf(NoConn) = <<>> /\ ~Closing(NoConn)
    BY NoConnFacts, ConcatEmptySeq DEF StreamOf, Hand, Closing
  <2>2. QueueBooks(NoConn)
    BY <2>1, NoConnFacts, Limits DEF QueueBooks
  <2> QED BY <2>1, <2>2, NoConnFacts DEF ReaderBooks, Account
<1>5. Links
  BY <1>1, <1>4, NoConnFacts, NoReqFacts DEF Links
<1> QED BY <1>2, <1>3, <1>5 DEF ApiBooks

LEMMA ApiStep ==
  ASSUME ApiBooks, [ApiNext]_apiVars
  PROVE  ApiBooks' /\ WordKept
<1>1. ASSUME NEW c \in Clients, ReaderStep(c)
      PROVE  ApiBooks' /\ WordKept
  BY <1>1, StepSendResponseAfter, StepRelease, StepEnqueueStarted, StepOpenGate, StepTypedAnswer, StepLeaveLoop,
     StepDisconnect, StepRejectPeer DEF ReaderStep
<1>2. ASSUME NEW c \in Clients, WriterStep(c)
      PROVE  ApiBooks' /\ WordKept
  BY <1>2, StepTakeFrame, StepWriterStops, StepWritten, StepWriteFailed DEF WriterStep
<1>3. ASSUME NEW r \in Requests, RunStep(r)
      PROVE  ApiBooks' /\ WordKept
  BY <1>3, StepDeferStarted, StepWaitCheck, StepWaitArm, StepWaitRecheck, StepWaitWoken, StepRunReserve,
     StepRunLook, StepRunPush DEF RunStep
<1>4. ASSUME NEW c \in Clients, NEW l \in Lines,
             \/ ReadOversized(c, l) \/ ReadTyped(c, l)
             \/ \E over \in BOOLEAN : ReadPlain(c, l, over)
             \/ \E r \in Requests : handle_message(c, r, l)
      PROVE  ApiBooks' /\ WordKept
  BY <1>4, StepReadOversized, StepReadTyped, StepReadPlain, StepHandleMessage
<1>5. ASSUME NEW c \in Clients,
             \/ ReadError(c)
             \/ \E foreign \in BOOLEAN : run_bound(c, foreign)
             \/ \E how \in {"halfclosed", "stalled", "gone"} : ClientTurns(c, how)
      PROVE  ApiBooks' /\ WordKept
  BY <1>5, StepReadError, StepRunBound, StepClientTurns
<1>6. CASE reject_overflow \/ Shutdown \/ CloseSocket
  BY <1>6, StepRejectOverflow, StepShutdown, StepCloseSocket
<1>7. CASE UNCHANGED apiVars
  <2>1. /\ UNCHANGED <<served, conn, req, taken>> /\ stopping' \in BOOLEAN
        /\ listener' \in {"accepting", "closed"} \union {c \in Clients : conn[c].reader = "waiting"}
    BY <1>7 DEF apiVars, ApiBooks, ApiTyped
  <2> QED BY <2>1, NothingMoves
<1> QED BY <1>1, <1>2, <1>3, <1>4, <1>5, <1>6, <1>7 DEF ApiNext

\* What the books say of the invariant's parts.
LEMMA BooksSay ==
  ASSUME ApiBooks
  PROVE  ApiTypeOK /\ AcceptedFirst /\ BytesAreQueued /\ SlotsAreConnections
<1>1. SlotsAreConnections
  BY DEF ApiBooks
<1>2. ApiTypeOK
  <2>1. served \in 0 .. Cardinality(Clients)
    <3> DEFINE S == {c \in Clients : Serving(c)}
    <3>1. S \in SUBSET Clients
      OBVIOUS
    <3>2. served = Cardinality(S)
      BY <1>1 DEF SlotsAreConnections
    <3> HIDE DEF S
    <3>3. IsFiniteSet(S) /\ Cardinality(S) <= Cardinality(Clients) /\ IsFiniteSet(Clients)
      BY <3>1, ApiAssumption, FS_Subset
    <3>4. Cardinality(S) \in Nat /\ Cardinality(Clients) \in Nat
      BY <3>3, FS_CardinalityType
    <3> QED BY <3>2, <3>3, <3>4
  <2>2. \A c \in Clients : /\ conn[c].reader \in Readers
                           /\ conn[c].writer \in {"none", "waiting", "writing", "gone"}
                           /\ conn[c].client \in {"open", "halfclosed", "stalled", "gone"}
                           /\ Len(conn[c].queue) <= EVENT_QUEUE_SLOTS
    BY AtClient DEF Conns, QueueBooks
  <2>3. \A r \in Requests : req[r].pc \in Runs /\ req[r].left \in 0 .. RunEvents
    BY DEF ApiBooks, ApiTyped, Reqs
  <2> QED BY <2>1, <2>2, <2>3 DEF ApiTypeOK, ApiBooks, ApiTyped
<1>3. AcceptedFirst
  <2>1. \A c \in Clients : Stream(c) = StreamOf(conn[c])
    BY DEF Stream, StreamOf, Hand
  <2>2. \A c \in Clients : Ordered(Stream(c))
    BY <2>1, AtClient DEF QueueBooks
  <2> QED BY <2>2 DEF AcceptedFirst, Ordered
<1>4. BytesAreQueued
  <2> SUFFICES ASSUME NEW c \in Clients, conn[c].writer \in {"waiting", "writing"}
               PROVE  LET k == conn[c]
                          s == k.queue \o Hand(k)
                      IN  /\ k.bytes = Cardinality(InFlight(c)) + EvCount(s)
                          /\ k.bytes <= MAX_EVENT_QUEUE_BYTES
    BY DEF BytesAreQueued, Hand, InFlight, EvCount, EvAt
  <2> DEFINE k == conn[c]
             n == Cardinality(InFlight(c))
  <2>1. k \in Conns /\ k.queue \in Seq(Frames) /\ n \in Nat
    BY AtClient, StreamTyped
  <2>2. k.bytes = n + EvCount(k.queue) + Ev(k.frame) /\ k.bytes <= MAX_EVENT_QUEUE_BYTES
    BY AtClient DEF Account
  <2>3. EvCount(k.queue \o Hand(k)) = EvCount(k.queue) + Ev(k.frame)
    <3>1. CASE k.frame = NoFrame
      <4>1. k.queue \o Hand(k) = k.queue
        BY <2>1, <3>1, ConcatEmptySeq DEF Hand
      <4> QED BY <2>1, <3>1, <4>1, NoConnFacts, CountNat
    <3>2. CASE k.frame # NoFrame
      <4>1. k.queue \o Hand(k) = Append(k.queue, k.frame) /\ k.frame \in Frames
        BY <2>1, <3>2, AppendIsConcat DEF Hand, Conns
      <4> QED BY <2>1, <4>1, CountAppend
    <3> QED BY <3>1, <3>2
  <2>4. EvCount(k.queue) \in Nat /\ Ev(k.frame) \in Nat
    BY <2>1, CountNat DEF Ev
  <2> QED BY <2>1, <2>2, <2>3, <2>4
<1> QED BY <1>1, <1>2, <1>3, <1>4

\* Whatever clients there are, whatever they write, at any limits and however readers, writers and runs
\* interleave: a client hears that its message was accepted before it hears of the run, and run.started before
\* the rest; the bytes on account are those of the events queued, so no client is disconnected for a debt it
\* does not have; slots are the connections served; and answers find their request (LocalReplyGate, EventTx,
\* run_bound, serve_connection_with_peer).  With BridgeSafe it is ApiInv.
THEOREM ApiSafe == ApiSpec /\ BridgeSpec => []ApiInv
<1>1. ApiInit => ApiBooks
  BY ApiBegins
<1>2. ApiBooks /\ [ApiNext]_apiVars => ApiBooks'
  BY ApiStep
<1>3. ApiBooks /\ BridgeCarries => ApiInv
  BY BooksSay, AnswersFind DEF ApiInv
<1> QED BY <1>1, <1>2, <1>3, BridgeSafe, PTL DEF ApiSpec

\* The answer that ends a connection is dropped only by a sender that met a full queue, whatever runs earlier
\* requests left behind (send_response_and_close, EventTx::send).
THEOREM LastWordSafe == ApiSpec => LastWordIsHeard
<1>1. ApiInit => ApiBooks
  BY ApiBegins
<1>2. ApiBooks /\ [ApiNext]_apiVars => ApiBooks'
  BY ApiStep
<1>3. ApiBooks /\ [ApiNext]_apiVars =>
         [\A c \in Clients :
            LET closing == \E i \in DOMAIN conn'[c].queue : conn'[c].queue[i].kind = "closing"
            IN  (closing /\ conn'[c].permit /\ ~conn[c].permit)
                    => Len(conn'[c].queue) = EVENT_QUEUE_SLOTS]_apiVars
  BY ApiStep DEF WordKept, Hears, Closing
<1> QED BY <1>1, <1>2, <1>3, PTL DEF ApiSpec, LastWordIsHeard
-----------------------------------------------------------------------------
(* Telegram: posts and their threads.                                      *)

\* A set of message ids that is not empty has a first, which Min denotes, and if it is bounded a last.
LEMMA FirstIs ==
  ASSUME NEW S \in SUBSET Nat, S # {}
  PROVE  Min(S) \in S /\ \A y \in S : Min(S) <= y
<1>1. PICK x \in S : \A y \in S : ~(<<y, x>> \in OpToRel(<, Nat))
  BY NatLessThanWellFounded, WFMin
<1>2. \A y \in S : x <= y
  <2> SUFFICES ASSUME NEW y \in S PROVE ~(y < x)
    OBVIOUS
  <2> QED BY <1>1 DEF OpToRel
<1> QED BY <1>2 DEF Min

LEMMA LastIs ==
  ASSUME NEW n \in Nat, NEW S \in SUBSET (0 .. n), S # {}
  PROVE  Max(S) \in S /\ \A y \in S : y <= Max(S)
<1> DEFINE T == {k \in Nat : n - k \in S}
<1>1. \A y \in S : y \in Nat /\ n - y \in T
  OBVIOUS
<1>2. T \subseteq Nat /\ T # {}
  BY <1>1
<1> HIDE DEF T
<1>3. PICK x \in T : \A y \in T : x <= y
  BY <1>2, FirstIs
<1>4. n - x \in S /\ \A y \in S : n - x >= y
  BY <1>1, <1>2, <1>3 DEF T
<1> QED BY <1>4 DEF Max

\* What the posts are: replies go to earlier posts of the same chat.
TgPosts == [user : STRING \union {Bot}, chat : STRING \ {"none"}, text : Seq(STRING) \union {<<"answer">>},
            reply : Nat]
TgMessages == [user : STRING \ {"bot"}, chat : STRING \ {"none"}, text : Seq(STRING)]
TgKeys == (STRING \union {"none"}) \X Nat

Backward(P) == P \in Seq(TgPosts) /\ \A i \in DOMAIN P : P[i].reply \in 0 .. i - 1

\* Root, of any posts.
RootIn(P) == LET f[i \in DOMAIN P] == IF P[i].reply = 0 THEN i ELSE f[P[i].reply] IN f

LEMMA RootIs == Root = RootIn(posts)
BY DEF Root, RootIn

\* Every post has a root, since replies go back.
LEMMA RootExists ==
  ASSUME NEW P, Backward(P)
  PROVE  RootIn(P) = [i \in DOMAIN P |-> IF P[i].reply = 0 THEN i ELSE RootIn(P)[P[i].reply]]
<1> DEFINE Up(g, m) == g = [i \in 1 .. m |-> IF P[i].reply = 0 THEN i ELSE g[P[i].reply]]
           Lost == {m \in 0 .. Len(P) : ~\E g : Up(g, m)}
<1>0. Len(P) \in Nat /\ DOMAIN P = 1 .. Len(P) /\ \A i \in 1 .. Len(P) : P[i].reply \in 0 .. i - 1
  BY DEF Backward
<1>1. Lost = {}
  <2>1. SUFFICES ASSUME Lost # {} PROVE FALSE
    OBVIOUS
  <2>2. Lost \in SUBSET Nat
    OBVIOUS
  <2>3. PICK m \in Lost : \A k \in Lost : m <= k
    <3> HIDE DEF Lost
    <3> QED BY <2>1, <2>2, FirstIs
  <2>4. m # 0
    <3>1. 1 .. 0 = {}
      OBVIOUS
    <3> DEFINE g == [i \in 1 .. 0 |-> 0]
    <3>2. Up(g, 0)
      BY <3>1
    <3> QED BY <3>2
  <2>5. PICK g : Up(g, m - 1)
    <3>1. m - 1 \in 0 .. Len(P) /\ ~(m <= m - 1)
      BY <1>0, <2>4
    <3>2. m - 1 \notin Lost
      BY <2>3, <3>1
    <3> QED BY <3>1, <3>2
  <2> DEFINE h == [i \in 1 .. m |-> IF i = m THEN IF P[m].reply = 0 THEN m ELSE g[P[m].reply] ELSE g[i]]
  <2>6. m \in 1 .. Len(P) /\ m \in Nat
    BY <1>0, <2>4
  <2>7. \A i \in 1 .. m - 1 : h[i] = g[i]
    BY <2>6
  <2>8. \A i \in 1 .. m : h[i] = IF P[i].reply = 0 THEN i ELSE h[P[i].reply]
    <3> TAKE i \in 1 .. m
    <3>1. P[i].reply # 0 => P[i].reply \in 1 .. m - 1 /\ h[P[i].reply] = g[P[i].reply]
      BY <1>0, <2>6, <2>7
    <3>2. CASE i = m
      BY <3>1, <3>2, <2>6
    <3>3. CASE i # m
      <4>1. i \in 1 .. m - 1
        BY <3>3, <2>6
      <4>2. g[i] = IF P[i].reply = 0 THEN i ELSE g[P[i].reply]
        BY <4>1, <2>5
      <4>3. h[i] = g[i]
        BY <4>1, <2>7
      <4> QED BY <3>1, <4>2, <4>3
    <3> QED BY <3>2, <3>3
  <2> HIDE DEF h
  <2>9. h = [i \in 1 .. m |-> h[i]]
    BY DEF h
  <2>10. Up(h, m)
    BY <2>8, <2>9
  <2> QED BY <2>10
<1>2. PICK g : Up(g, Len(P))
  <2>1. Len(P) \in 0 .. Len(P)
    BY <1>0
  <2>2. Len(P) \notin Lost
    <3> HIDE DEF Lost
    <3> QED BY <1>1
  <2> QED BY <2>1, <2>2
<1>3. RootIn(P) = CHOOSE f : f = [i \in DOMAIN P |-> IF P[i].reply = 0 THEN i ELSE f[P[i].reply]]
  BY DEF RootIn
<1> QED BY <1>0, <1>2, <1>3

\* A post more leaves the roots of the others.
Grown(P, p, Q) == Backward(P) /\ p \in TgPosts /\ p.reply \in 0 .. Len(P) /\ Q = Append(P, p)

LEMMA RootStays ==
  ASSUME NEW P, NEW p, NEW Q, Grown(P, p, Q)
  PROVE  /\ Backward(Q) /\ Len(Q) = Len(P) + 1
         /\ \A i \in DOMAIN P : i \in DOMAIN Q /\ Q[i] = P[i] /\ RootIn(Q)[i] = RootIn(P)[i]
         /\ Q[Len(Q)] = p
         /\ p.reply # 0 => RootIn(Q)[Len(Q)] = RootIn(P)[p.reply]
<1>1. /\ P \in Seq(TgPosts) /\ Len(P) \in Nat /\ DOMAIN P = 1 .. Len(P)
      /\ \A i \in DOMAIN P : P[i].reply \in 0 .. i - 1
      /\ p \in TgPosts /\ p.reply \in 0 .. Len(P) /\ Q = Append(P, p)
  BY DEF Grown, Backward
<1>2. /\ Q \in Seq(TgPosts) /\ Len(Q) = Len(P) + 1 /\ DOMAIN Q = 1 .. Len(P) + 1
      /\ \A i \in DOMAIN P : Q[i] = P[i]
      /\ Q[Len(P) + 1] = p
  BY <1>1
<1>3. Backward(Q)
  BY <1>1, <1>2 DEF Backward
<1> DEFINE f == RootIn(P)
           g == RootIn(Q)
<1>4. f = [i \in DOMAIN P |-> IF P[i].reply = 0 THEN i ELSE f[P[i].reply]]
  BY RootExists DEF Grown
<1>5. g = [i \in DOMAIN Q |-> IF Q[i].reply = 0 THEN i ELSE g[Q[i].reply]]
  BY <1>3, RootExists
<1> HIDE DEF f, g
<1> DEFINE Moved == {i \in DOMAIN P : g[i] # f[i]}
<1>6. Moved = {}
  <2>1. SUFFICES ASSUME Moved # {} PROVE FALSE
    OBVIOUS
  <2>2. Moved \in SUBSET Nat
    BY <1>1
  <2>3. PICK m \in Moved : \A k \in Moved : m <= k
    <3> HIDE DEF Moved
    <3> QED BY <2>1, <2>2, FirstIs
  <2>4. m \in DOMAIN P /\ m \in DOMAIN Q /\ Q[m] = P[m] /\ P[m].reply \in 0 .. m - 1
    BY <1>1, <1>2
  <2>5. P[m].reply # 0 => P[m].reply \in DOMAIN P /\ ~(m <= P[m].reply)
    BY <1>1, <2>4
  <2>6. P[m].reply # 0 => g[P[m].reply] = f[P[m].reply]
    BY <2>3, <2>5
  <2>7. g[m] = f[m]
    BY <1>4, <1>5, <2>4, <2>6
  <2> QED BY <2>7
<1>7. p.reply # 0 => g[Len(P) + 1] = f[p.reply]
  <2> SUFFICES ASSUME p.reply # 0 PROVE g[Len(P) + 1] = f[p.reply]
    OBVIOUS
  <2>1. p.reply \in DOMAIN P /\ Len(P) + 1 \in DOMAIN Q
    BY <1>1, <1>2
  <2>2. g[Len(P) + 1] = g[p.reply]
    BY <1>2, <1>5, <2>1
  <2> QED BY <1>6, <2>1, <2>2
<1> QED BY <1>2, <1>3, <1>6, <1>7, <1>1 DEF f, g
-----------------------------------------------------------------------------
(* Telegram: what holds between its steps.                                 *)

InGroup(i) == is_group_chat(posts[i].chat)

\* A conversation message i may be in: of a group, one that begins in i's thread.
Keyed(k, i) ==
    IF InGroup(i) THEN \E x \in DOMAIN posts : k = <<posts[i].chat, x>> /\ Root[x] = Root[i]
    ELSE k = <<posts[i].chat, 0>>

PostBooks ==
    /\ Backward(posts)
    /\ \A i \in DOMAIN posts : posts[i].reply # 0 => posts[posts[i].reply].chat = posts[i].chat
    /\ story \in Seq(TgMessages)
    /\ session \in Seq(TgKeys) /\ Len(session) = Len(posts)
    /\ acted \in Seq(Nat) /\ Len(acted) = Len(posts)
    /\ now \in Nat /\ policy \in DOMAIN Policies /\ unsaved \in BOOLEAN

OffsetBooks ==
    /\ offset \in 0 .. Len(posts) + 1 /\ saved \in 0 .. offset
    /\ batch \subseteq Users /\ \A i \in batch : i < offset
    /\ poster \in {0} \union Users
    /\ ~unsaved => saved = offset

\* Every conversation a message is put in is one it may be in.
SessionBooks == \A i \in DOMAIN posts : session[i] # NoSession => i \in Users /\ Keyed(session[i], i)

ParkedBooks ==
    \A s \in DOMAIN parked :
        LET c == parked[s].cmd IN c \in Users /\ Says(c) = "Bang" /\ Owner(c) /\ Keyed(s, c)

ThreadBooks == \A m \in DOMAIN thread : m \in DOMAIN posts /\ InGroup(m) /\ Keyed(thread[m], m)

RunsBooks ==
    \A r \in runs : /\ r \in [msg : Nat, session : TgKeys, answer : Nat]
                    /\ r.msg \in Users /\ Keyed(r.session, r.msg)
                    /\ r.answer # 0 => r.answer \in DOMAIN posts /\ posts[r.answer].reply = r.msg

\* What a command that ran shows without its history.
Lawful(r) ==
    LET verdict == decide(Policies[r.policy], Asked(r.cmd))
    IN  /\ r.cmd \in Users /\ r.by \in Users /\ Owner(r.cmd) /\ Owner(r.by)
        /\ verdict # "Deny" /\ (verdict = "Confirm" => r.by # r.cmd)
        /\ posts[r.cmd].chat = posts[r.by].chat
        /\ InGroup(r.cmd) => Root[r.cmd] = Root[r.by]
        /\ r.waited <= ttl

LawBooks == \A r \in released : Lawful(r)

\* Message i was taken before all that wait.
Behind(i) == i \in Users /\ i < offset /\ \A b \in batch : i < b

ActBooks == \A i \in DOMAIN posts : acted[i] <= 1 /\ (acted[i] # 0 \/ session[i] # NoSession => Behind(i))

\* What waits for a yes is the last its conversation had to wait for, and waits there only.
WaitBooks ==
    \A s \in DOMAIN parked :
        LET c == parked[s].cmd
        IN  /\ Behind(c) /\ session[c] = s
            /\ \A i \in c + 1 .. Len(posts) : session[i] = s => ~NeedsYes(i)
            /\ \A r \in released : r.cmd # c

RanBooks ==
    \A r \in released :
        /\ Behind(r.cmd) /\ Behind(r.by) /\ r.cmd <= r.by
        /\ \A q \in released : q.cmd = r.cmd => q = r
        /\ r.by # r.cmd => /\ session[r.cmd] # NoSession
                           /\ \A i \in r.cmd + 1 .. r.by - 1 : session[i] = session[r.cmd] => ~NeedsYes(i)

OnceBooks == ~unsaved => ActBooks /\ WaitBooks /\ RanBooks

TgBooks == /\ PostBooks /\ OffsetBooks /\ SessionBooks /\ ParkedBooks /\ ThreadBooks /\ RunsBooks /\ LawBooks
           /\ OnceBooks

LEMMA PostsAre ==
  ASSUME PostBooks
  PROVE  /\ posts \in Seq(TgPosts) /\ Len(posts) \in Nat /\ DOMAIN posts = 1 .. Len(posts)
         /\ Users \subseteq 1 .. Len(posts)
         /\ DOMAIN session = 1 .. Len(posts) /\ DOMAIN acted = 1 .. Len(posts)
         /\ \A i \in 1 .. Len(posts) : /\ posts[i] \in TgPosts /\ posts[i].chat # "none" /\ posts[i].chat \in STRING
                                       /\ posts[i].reply \in 0 .. i - 1
                                       /\ session[i] \in TgKeys /\ acted[i] \in Nat
<1>1. posts \in Seq(TgPosts) /\ Len(posts) \in Nat /\ DOMAIN posts = 1 .. Len(posts)
  BY DEF PostBooks, Backward
<1>2. DOMAIN session = 1 .. Len(posts) /\ DOMAIN acted = 1 .. Len(posts)
  BY <1>1 DEF PostBooks
<1>3. ASSUME NEW i \in 1 .. Len(posts)
      PROVE  /\ posts[i] \in TgPosts /\ posts[i].chat # "none" /\ posts[i].chat \in STRING
             /\ posts[i].reply \in 0 .. i - 1
             /\ session[i] \in TgKeys /\ acted[i] \in Nat
  <2>1. posts[i] \in TgPosts
    BY <1>1
  <2>2. posts[i].reply \in 0 .. i - 1
    BY <1>1 DEF PostBooks, Backward
  <2>3. posts[i].chat # "none" /\ posts[i].chat \in STRING
    BY <2>1 DEF TgPosts
  <2>4. session[i] \in TgKeys /\ acted[i] \in Nat
    BY <1>2 DEF PostBooks
  <2> QED BY <2>1, <2>2, <2>3, <2>4
<1> QED BY <1>1, <1>2, <1>3 DEF Users

\* A post's root is its parent's.
LEMMA RootGoesUp ==
  ASSUME PostBooks, NEW i \in DOMAIN posts
  PROVE  Root[i] = IF posts[i].reply = 0 THEN i ELSE Root[posts[i].reply]
<1>1. RootIn(posts) = [j \in DOMAIN posts |-> IF posts[j].reply = 0 THEN j ELSE RootIn(posts)[posts[j].reply]]
  BY RootExists DEF PostBooks
<1>2. Root = RootIn(posts)
  BY RootIs
<1> HIDE DEF RootIn
<1> QED BY <1>1, <1>2

LEMMA KeyedIsKey ==
  ASSUME PostBooks, NEW i \in DOMAIN posts, NEW k, Keyed(k, i)
  PROVE  k \in TgKeys /\ k # NoSession
<1>1. posts[i].chat # "none" /\ posts[i].chat \in STRING /\ DOMAIN posts = 1 .. Len(posts) /\ Len(posts) \in Nat
  BY PostsAre
<1>2. PICK x \in Nat : k = <<posts[i].chat, x>>
  BY <1>1 DEF Keyed
<1>3. k \in TgKeys
  BY <1>1, <1>2 DEF TgKeys
<1>4. k[1] # "none"
  BY <1>1, <1>2
<1> QED BY <1>3, <1>4 DEF NoSession

\* Two messages that may be in one conversation are of one chat and thread.
LEMMA KeyedSame ==
  ASSUME PostBooks, NEW i \in DOMAIN posts, NEW j \in DOMAIN posts, NEW k, Keyed(k, i), Keyed(k, j)
  PROVE  posts[i].chat = posts[j].chat /\ (InGroup(i) => Root[i] = Root[j])
<1>1. k[1] = posts[i].chat /\ k[1] = posts[j].chat
  BY DEF Keyed
<1>2. SUFFICES ASSUME InGroup(i) PROVE Root[i] = Root[j]
  BY <1>1
<1>3. InGroup(j)
  BY <1>1, <1>2 DEF InGroup
<1>4. PICK x \in DOMAIN posts : k = <<posts[i].chat, x>> /\ Root[x] = Root[i]
  BY <1>2 DEF Keyed
<1>5. PICK y \in DOMAIN posts : k = <<posts[j].chat, y>> /\ Root[y] = Root[j]
  BY <1>3 DEF Keyed
<1> QED BY <1>4, <1>5

LEMMA SessionKeyKeyed ==
  ASSUME PostBooks, ThreadBooks, NEW i \in DOMAIN posts
  PROVE  Keyed(session_key(i), i)
<1>1. CASE ~InGroup(i)
  BY <1>1 DEF Keyed, session_key, InGroup
<1>2. CASE InGroup(i) /\ posts[i].reply \notin DOMAIN thread
  BY <1>2 DEF Keyed, session_key, InGroup
<1>3. CASE InGroup(i) /\ posts[i].reply \in DOMAIN thread
  <2> DEFINE m == posts[i].reply
  <2>1. m \in DOMAIN posts /\ InGroup(m) /\ Keyed(thread[m], m)
    BY <1>3 DEF ThreadBooks
  <2>2. m # 0 /\ posts[m].chat = posts[i].chat /\ Root[i] = Root[m]
    BY <2>1, PostsAre, RootGoesUp DEF PostBooks
  <2>3. session_key(i) = thread[m]
    BY <1>3 DEF session_key, InGroup
  <2> QED BY <1>3, <2>1, <2>2, <2>3 DEF Keyed
<1> QED BY <1>1, <1>2, <1>3

\* The books say what the invariant claims.
LEMMA TgBooksSay ==
  ASSUME TgBooks PROVE TgInv
<1> USE DEF TgBooks
<1>1. DOMAIN acted = DOMAIN posts /\ Users \subseteq DOMAIN posts
  BY PostsAre
<1>2. TgTypeOK
  BY DEF TgTypeOK, OffsetBooks, ThreadBooks, ParkedBooks, RunsBooks
<1>3. ActedOnce
  BY <1>1 DEF ActedOnce, OnceBooks, ActBooks
<1>4. ReleasedRightly
  <2> SUFFICES ASSUME NEW r \in released
               PROVE  LET verdict == decide(Policies[r.policy], Asked(r.cmd))
                      IN  /\ Owner(r.cmd) /\ Owner(r.by)
                          /\ verdict # "Deny"
                          /\ verdict = "Confirm" => r.by # r.cmd
                          /\ posts[r.cmd].chat = posts[r.by].chat
                          /\ is_group_chat(posts[r.cmd].chat) => Root[r.cmd] = Root[r.by]
                          /\ r.waited <= ttl
                          /\ ~unsaved => /\ r.cmd <= r.by
                                         /\ \A q \in released : q.cmd = r.cmd => q = r
                                         /\ r.by # r.cmd => \A i \in r.cmd + 1 .. r.by - 1 :
                                               session[i] = session[r.cmd] => ~NeedsYes(i)
    BY DEF ReleasedRightly
  <2>1. Lawful(r)
    BY DEF LawBooks
  <2>2. ~unsaved => /\ r.cmd <= r.by
                    /\ \A q \in released : q.cmd = r.cmd => q = r
                    /\ r.by # r.cmd => \A i \in r.cmd + 1 .. r.by - 1 :
                          session[i] = session[r.cmd] => ~NeedsYes(i)
    BY DEF OnceBooks, RanBooks
  <2> QED BY <2>1, <2>2 DEF Lawful, InGroup
<1>5. SessionsAreThreads
  <2> SUFFICES ASSUME NEW i \in Users, NEW j \in Users, session[i] # NoSession, session[i] = session[j],
                      is_group_chat(posts[i].chat)
               PROVE  posts[i].chat = posts[j].chat /\ Root[i] = Root[j]
    BY DEF SessionsAreThreads
  <2>1. Keyed(session[i], i) /\ Keyed(session[i], j)
    BY <1>1 DEF SessionBooks
  <2> QED BY <1>1, <2>1, KeyedSame DEF InGroup
<1> QED BY <1>2, <1>3, <1>4, <1>5 DEF TgInv
-----------------------------------------------------------------------------
(* Telegram: messages are never changed, and what was said of them stays.  *)

Static ==
    /\ DOMAIN posts \subseteq DOMAIN posts' /\ Len(posts) <= Len(posts')
    /\ \A i \in DOMAIN posts : posts'[i] = posts[i] /\ Root'[i] = Root[i]

LEMMA StaticStays ==
  ASSUME PostBooks, posts' = posts
  PROVE  Static
<1>1. Root' = Root
  BY DEF Root
<1>2. Len(posts) \in Nat
  BY PostsAre
<1> QED BY <1>1, <1>2 DEF Static

LEMMA StaticKeeps ==
  ASSUME PostBooks, Static, NEW i \in DOMAIN posts
  PROVE  /\ i \in DOMAIN posts' /\ posts'[i] = posts[i] /\ Root'[i] = Root[i]
         /\ i \in Users => i \in Users'
         /\ Says(i)' = Says(i) /\ Asked(i)' = Asked(i)
         /\ Owner(i) => Owner(i)'
         /\ InGroup(i) <=> InGroup(i)'
         /\ ~NeedsYes(i) => ~NeedsYes(i)'
         /\ \A k : Keyed(k, i) => Keyed(k, i)'
<1>1. i \in DOMAIN posts' /\ posts'[i] = posts[i] /\ Root'[i] = Root[i]
  BY DEF Static
<1>2. i \in Users => i \in Users'
  BY <1>1 DEF Users
<1>3. Says(i)' = Says(i) /\ Asked(i)' = Asked(i)
  BY <1>1 DEF Says, Asked
<1>4. Owner(i) <=> Owner(i)'
  BY <1>1 DEF Owner
<1>5. InGroup(i) <=> InGroup(i)'
  BY <1>1 DEF InGroup
<1>6. ~NeedsYes(i) => ~NeedsYes(i)'
  BY <1>3, <1>4 DEF NeedsYes
<1>7. ASSUME NEW k, Keyed(k, i)
      PROVE  Keyed(k, i)'
  <2>1. CASE ~InGroup(i)
    BY <1>1, <1>5, <1>7, <2>1 DEF Keyed
  <2>2. CASE InGroup(i)
    <3>1. PICK x \in DOMAIN posts : k = <<posts[i].chat, x>> /\ Root[x] = Root[i]
      BY <1>7, <2>2 DEF Keyed
    <3>2. x \in DOMAIN posts' /\ Root'[x] = Root'[i] /\ k = <<posts'[i].chat, x>>
      BY <1>1, <3>1 DEF Static
    <3> QED BY <1>5, <2>2, <3>2 DEF Keyed
  <2> QED BY <2>1, <2>2
<1> QED BY <1>1, <1>2, <1>3, <1>4, <1>5, <1>6, <1>7

\* A post more, of which nothing is recorded yet.
Posts(p) ==
    /\ posts' = Append(posts, p)
    /\ session' = Append(session, NoSession)
    /\ acted' = Append(acted, 0)

LEMMA NoSessionIsKey == NoSession \in TgKeys
BY DEF NoSession, TgKeys

LEMMA PostGrows ==
  ASSUME PostBooks, NEW p \in TgPosts, p.reply \in {0} \union DOMAIN posts,
         p.reply # 0 => posts[p.reply].chat = p.chat, Posts(p),
         story' \in Seq(TgMessages), UNCHANGED <<now, policy, unsaved>>
  PROVE  /\ PostBooks' /\ Static
         /\ Len(posts') = Len(posts) + 1 /\ posts'[Len(posts')] = p
         /\ \A i \in DOMAIN posts : session'[i] = session[i] /\ acted'[i] = acted[i]
         /\ session'[Len(posts')] = NoSession /\ acted'[Len(posts')] = 0
<1>1. Backward(posts) /\ Len(posts) \in Nat /\ DOMAIN posts = 1 .. Len(posts)
  BY PostsAre DEF PostBooks
<1>2. p.reply \in 0 .. Len(posts)
  BY <1>1
<1>3. posts' = Append(posts, p)
  BY DEF Posts
<1>4. /\ Backward(posts') /\ Len(posts') = Len(posts) + 1
      /\ \A i \in DOMAIN posts : i \in DOMAIN posts' /\ posts'[i] = posts[i] /\ RootIn(posts')[i] = RootIn(posts)[i]
      /\ posts'[Len(posts')] = p
  <2>1. \A Q : Q = Append(posts, p) =>
           /\ Backward(Q) /\ Len(Q) = Len(posts) + 1
           /\ \A i \in DOMAIN posts : i \in DOMAIN Q /\ Q[i] = posts[i] /\ RootIn(Q)[i] = RootIn(posts)[i]
           /\ Q[Len(Q)] = p
    <3> SUFFICES ASSUME NEW Q, Q = Append(posts, p)
                 PROVE  /\ Backward(Q) /\ Len(Q) = Len(posts) + 1
                        /\ \A i \in DOMAIN posts : i \in DOMAIN Q /\ Q[i] = posts[i]
                                                   /\ RootIn(Q)[i] = RootIn(posts)[i]
                        /\ Q[Len(Q)] = p
      OBVIOUS
    <3>1. Grown(posts, p, Q)
      BY <1>1, <1>2 DEF Grown
    <3> QED BY <3>1, RootStays
  <2> QED BY <1>3, <2>1
<1>5. Root = RootIn(posts) /\ Root' = RootIn(posts')
  BY DEF Root, RootIn
<1> HIDE DEF RootIn
<1>6. Static
  BY <1>1, <1>4, <1>5 DEF Static
<1>7. DOMAIN posts' = 1 .. Len(posts) + 1
  BY <1>4 DEF Backward
<1>8. ASSUME NEW i \in DOMAIN posts', posts'[i].reply # 0
      PROVE  posts'[posts'[i].reply].chat = posts'[i].chat
  <2>1. CASE i \in DOMAIN posts
    <3>1. posts'[i] = posts[i] /\ posts[i].reply \in 0 .. i - 1
      BY <1>1, <1>4, <2>1 DEF Backward
    <3>2. posts[i].reply \in DOMAIN posts
      BY <1>1, <1>8, <2>1, <3>1
    <3>3. posts[posts[i].reply].chat = posts[i].chat
      BY <1>8, <2>1, <3>1 DEF PostBooks
    <3> QED BY <1>4, <3>1, <3>2, <3>3
  <2>2. CASE i = Len(posts')
    <3>1. p.reply \in DOMAIN posts
      BY <1>4, <1>8, <2>2
    <3> QED BY <1>4, <1>8, <2>2, <3>1
  <2> QED BY <1>1, <1>4, <1>7, <2>1, <2>2
<1>9. /\ session' \in Seq(TgKeys) /\ Len(session') = Len(posts')
      /\ \A i \in DOMAIN posts : session'[i] = session[i]
      /\ session'[Len(posts')] = NoSession
  <2>1. session \in Seq(TgKeys) /\ Len(session) = Len(posts) /\ session' = Append(session, NoSession)
    BY DEF PostBooks, Posts
  <2>2. NoSession \in TgKeys
    BY NoSessionIsKey
  <2> QED BY <1>1, <1>4, <2>1, <2>2
<1>10. /\ acted' \in Seq(Nat) /\ Len(acted') = Len(posts')
       /\ \A i \in DOMAIN posts : acted'[i] = acted[i]
       /\ acted'[Len(posts')] = 0
  <2>1. acted \in Seq(Nat) /\ Len(acted) = Len(posts) /\ acted' = Append(acted, 0)
    BY DEF PostBooks, Posts
  <2> QED BY <1>1, <1>4, <2>1
<1>11. PostBooks'
  BY <1>4, <1>8, <1>9, <1>10 DEF PostBooks
<1> QED BY <1>4, <1>6, <1>9, <1>10, <1>11

\* What is no step of a message: no post changes, none waits or runs that did not, and of a new post
\* nothing is recorded.
Calm ==
    /\ Static
    /\ \A i \in DOMAIN posts : session'[i] = session[i] /\ acted'[i] = acted[i]
    /\ \A i \in DOMAIN posts' : i \in DOMAIN posts \/ (session'[i] = NoSession /\ acted'[i] = 0)
    /\ \A s \in DOMAIN parked' : s \in DOMAIN parked /\ parked'[s] = parked[s]
    /\ released' = released

LEMMA CalmSessions ==
  ASSUME PostBooks, SessionBooks, Calm
  PROVE  SessionBooks'
<1> SUFFICES ASSUME NEW i \in DOMAIN posts', session'[i] # NoSession
             PROVE  i \in Users' /\ Keyed(session[i], i)'
  BY DEF SessionBooks
<1>1. i \in DOMAIN posts /\ session'[i] = session[i]
  BY DEF Calm
<1>2. PICK k : k = session[i]
  OBVIOUS
<1>3. i \in Users /\ Keyed(k, i)
  BY <1>1, <1>2 DEF SessionBooks
<1>4. Static
  BY DEF Calm
<1>5. i \in Users' /\ Keyed(k, i)'
  BY <1>1, <1>3, <1>4, StaticKeeps
<1> QED BY <1>1, <1>2, <1>5

LEMMA CalmParked ==
  ASSUME PostBooks, ParkedBooks, Calm
  PROVE  ParkedBooks'
<1> SUFFICES ASSUME NEW s \in DOMAIN parked'
             PROVE  (LET c == parked[s].cmd IN c \in Users /\ Says(c) = "Bang" /\ Owner(c) /\ Keyed(s, c))'
  BY DEF ParkedBooks
<1>1. PICK c : c = parked[s].cmd
  OBVIOUS
<1>2. s \in DOMAIN parked /\ parked'[s].cmd = c
  BY <1>1 DEF Calm
<1>3. c \in Users /\ Says(c) = "Bang" /\ Owner(c) /\ Keyed(s, c)
  BY <1>1, <1>2 DEF ParkedBooks
<1>4. Static /\ c \in DOMAIN posts
  BY <1>3 DEF Calm, Users
<1>5. c \in Users' /\ Says(c)' = "Bang" /\ Owner(c)' /\ Keyed(s, c)'
  BY <1>3, <1>4, StaticKeeps
<1> QED BY <1>2, <1>5

LEMMA StaticThreads ==
  ASSUME PostBooks, ThreadBooks, Static, thread' = thread
  PROVE  ThreadBooks'
<1> SUFFICES ASSUME NEW m \in DOMAIN thread
             PROVE  m \in DOMAIN posts' /\ InGroup(m)' /\ Keyed(thread[m], m)'
  BY DEF ThreadBooks
<1>1. m \in DOMAIN posts /\ InGroup(m) /\ Keyed(thread[m], m)
  BY DEF ThreadBooks
<1> QED BY <1>1, StaticKeeps

LEMMA StaticRuns ==
  ASSUME PostBooks, RunsBooks, Static, NEW r \in runs
  PROVE  /\ r \in [msg : Nat, session : TgKeys, answer : Nat]
         /\ r.msg \in Users' /\ Keyed(r.session, r.msg)'
         /\ r.answer # 0 => r.answer \in DOMAIN posts' /\ posts'[r.answer].reply = r.msg
<1>1. /\ r \in [msg : Nat, session : TgKeys, answer : Nat]
      /\ r.msg \in Users /\ Keyed(r.session, r.msg)
      /\ r.answer # 0 => r.answer \in DOMAIN posts /\ posts[r.answer].reply = r.msg
  BY DEF RunsBooks
<1>2. r.msg \in DOMAIN posts
  BY <1>1 DEF Users
<1>3. r.msg \in Users' /\ Keyed(r.session, r.msg)'
  BY <1>1, <1>2, StaticKeeps
<1>4. r.answer # 0 => r.answer \in DOMAIN posts' /\ posts'[r.answer].reply = r.msg
  BY <1>1 DEF Static
<1> QED BY <1>1, <1>3, <1>4

LEMMA StaticLaw ==
  ASSUME PostBooks, Static, NEW r, Lawful(r)
  PROVE  Lawful(r)'
<1>1. r.cmd \in DOMAIN posts /\ r.by \in DOMAIN posts
  BY DEF Lawful, Users
<1>2. /\ posts'[r.cmd] = posts[r.cmd] /\ Root'[r.cmd] = Root[r.cmd] /\ (r.cmd \in Users => r.cmd \in Users')
      /\ Asked(r.cmd)' = Asked(r.cmd) /\ (Owner(r.cmd) => Owner(r.cmd)')
      /\ (InGroup(r.cmd) <=> InGroup(r.cmd)')
  BY <1>1, StaticKeeps
<1>3. /\ posts'[r.by] = posts[r.by] /\ Root'[r.by] = Root[r.by] /\ (r.by \in Users => r.by \in Users')
      /\ Owner(r.by) => Owner(r.by)'
  BY <1>1, StaticKeeps
<1> QED BY <1>2, <1>3 DEF Lawful
LEMMA CalmOnce ==
  ASSUME PostBooks, PostBooks', ParkedBooks, OnceBooks, Calm,
         ~unsaved' => ~unsaved /\ \A i : Behind(i) => Behind(i)'
  PROVE  OnceBooks'
<1> SUFFICES ASSUME ~unsaved' PROVE ActBooks' /\ WaitBooks' /\ RanBooks'
  BY DEF OnceBooks
<1>1. ActBooks /\ WaitBooks /\ RanBooks /\ \A i : Behind(i) => Behind(i)'
  BY DEF OnceBooks
<1>2. /\ Static /\ released' = released
      /\ \A i \in DOMAIN posts : session'[i] = session[i] /\ acted'[i] = acted[i]
      /\ \A i \in DOMAIN posts' : i \in DOMAIN posts \/ (session'[i] = NoSession /\ acted'[i] = 0)
      /\ \A s \in DOMAIN parked' : s \in DOMAIN parked /\ parked'[s] = parked[s]
  BY DEF Calm
<1>3. DOMAIN posts = 1 .. Len(posts) /\ Len(posts) \in Nat /\ Users \subseteq 1 .. Len(posts)
  BY PostsAre
<1>4. DOMAIN posts \subseteq DOMAIN posts'
  BY <1>2 DEF Static
<1>5. ActBooks'
  <2> SUFFICES ASSUME NEW i \in DOMAIN posts'
               PROVE  acted'[i] <= 1 /\ (acted'[i] # 0 \/ session'[i] # NoSession => Behind(i)')
    BY DEF ActBooks
  <2>1. CASE i \in DOMAIN posts
    <3>1. acted[i] <= 1 /\ (acted[i] # 0 \/ session[i] # NoSession => Behind(i))
      BY <1>1, <2>1 DEF ActBooks
    <3> QED BY <1>1, <1>2, <2>1, <3>1
  <2>2. CASE i \notin DOMAIN posts
    <3>1. session'[i] = NoSession /\ acted'[i] = 0
      BY <1>2, <2>2
    <3> QED BY <3>1
  <2> QED BY <2>1, <2>2
<1>6. WaitBooks'
  <2> SUFFICES ASSUME NEW s \in DOMAIN parked'
               PROVE  (LET c == parked[s].cmd
                       IN  /\ Behind(c) /\ session[c] = s
                           /\ \A i \in c + 1 .. Len(posts) : session[i] = s => ~NeedsYes(i)
                           /\ \A r \in released : r.cmd # c)'
    BY DEF WaitBooks
  <2>1. PICK c : c = parked[s].cmd
    OBVIOUS
  <2>2. s \in DOMAIN parked /\ parked'[s].cmd = c
    BY <1>2, <2>1
  <2>3. /\ Behind(c) /\ session[c] = s
        /\ \A i \in c + 1 .. Len(posts) : session[i] = s => ~NeedsYes(i)
        /\ \A r \in released : r.cmd # c
    BY <1>1, <2>1, <2>2 DEF WaitBooks
  <2>4. c \in DOMAIN posts /\ c \in Nat /\ c >= 1
    BY <1>3, <2>3 DEF Behind
  <2>5. s # NoSession
    <3>1. Keyed(s, c)
      BY <2>1, <2>2 DEF ParkedBooks
    <3> QED BY <2>4, <3>1, KeyedIsKey
  <2>6. Len(posts') \in Nat /\ DOMAIN posts' = 1 .. Len(posts')
    BY DEF PostBooks, Backward
  <2>7. ASSUME NEW i \in c + 1 .. Len(posts'), session'[i] = s
        PROVE  ~NeedsYes(i)'
    <3>1. i \in DOMAIN posts'
      BY <2>4, <2>6
    <3>2. i \in DOMAIN posts
      BY <1>2, <2>5, <2>7, <3>1
    <3>3. ~NeedsYes(i)
      <4>1. i \in c + 1 .. Len(posts)
        BY <1>3, <2>4, <3>2
      <4>2. session[i] = s
        BY <1>2, <2>7, <3>2
      <4> QED BY <2>3, <4>1, <4>2
    <3> QED BY <1>2, <3>2, <3>3, StaticKeeps
  <2>8. Behind(c)' /\ session'[c] = s /\ \A r \in released' : r.cmd # c
    BY <1>1, <1>2, <2>3, <2>4
  <2> QED BY <2>2, <2>7, <2>8
<1>7. RanBooks'
  <2> SUFFICES ASSUME NEW r \in released
               PROVE  /\ Behind(r.cmd)' /\ Behind(r.by)' /\ r.cmd <= r.by
                      /\ \A q \in released : q.cmd = r.cmd => q = r
                      /\ r.by # r.cmd =>
                            /\ session'[r.cmd] # NoSession
                            /\ \A i \in r.cmd + 1 .. r.by - 1 : session'[i] = session'[r.cmd] => ~NeedsYes(i)'
    BY <1>2 DEF RanBooks
  <2>1. /\ Behind(r.cmd) /\ Behind(r.by) /\ r.cmd <= r.by
        /\ \A q \in released : q.cmd = r.cmd => q = r
        /\ r.by # r.cmd => /\ session[r.cmd] # NoSession
                           /\ \A i \in r.cmd + 1 .. r.by - 1 : session[i] = session[r.cmd] => ~NeedsYes(i)
    BY <1>1 DEF RanBooks
  <2>2. r.cmd \in DOMAIN posts /\ r.by \in DOMAIN posts
    BY <1>3, <2>1 DEF Behind
  <2>3. ASSUME r.by # r.cmd, NEW i \in r.cmd + 1 .. r.by - 1, session'[i] = session'[r.cmd]
        PROVE  ~NeedsYes(i)'
    <3>1. i \in DOMAIN posts
      BY <1>3, <2>2
    <3>2. ~NeedsYes(i)
      BY <1>2, <2>1, <2>2, <2>3, <3>1
    <3> QED BY <1>2, <3>1, <3>2, StaticKeeps
  <2>4. session'[r.cmd] = session[r.cmd]
    BY <1>2, <2>2
  <2>5. Behind(r.cmd)' /\ Behind(r.by)'
    BY <1>1, <2>1
  <2> QED BY <2>1, <2>3, <2>4, <2>5
<1> QED BY <1>5, <1>6, <1>7

\* All at once, for a step that touches threads and runs not, or not in what is said of them.
LEMMA CalmKeeps ==
  ASSUME TgBooks, Calm, PostBooks', OffsetBooks', RunsBooks', ThreadBooks',
         ~unsaved' => ~unsaved /\ \A i : Behind(i) => Behind(i)'
  PROVE  TgBooks'
<1>1. SessionBooks' /\ ParkedBooks'
  BY CalmSessions, CalmParked DEF TgBooks
<1>2. LawBooks'
  <2> SUFFICES ASSUME NEW r \in released PROVE Lawful(r)'
    BY DEF LawBooks, Calm
  <2>1. Lawful(r) /\ Static
    BY DEF TgBooks, LawBooks, Calm
  <2> QED BY <2>1, StaticLaw DEF TgBooks
<1>3. OnceBooks'
  BY CalmOnce DEF TgBooks
<1> QED BY <1>1, <1>2, <1>3 DEF TgBooks

\* A post more, whatever becomes of the runs.
LEMMA PostKeeps ==
  ASSUME TgBooks, NEW p \in TgPosts, p.reply \in {0} \union DOMAIN posts,
         p.reply # 0 => posts[p.reply].chat = p.chat, Posts(p), poster' \in {0, poster},
         story' \in Seq(TgMessages),
         UNCHANGED <<now, policy, offset, saved, batch, thread, parked, released, unsaved>>
  PROVE  Calm /\ (RunsBooks' => TgBooks')
<1>1. /\ PostBooks' /\ Static
      /\ Len(posts') = Len(posts) + 1 /\ posts'[Len(posts')] = p
      /\ \A i \in DOMAIN posts : session'[i] = session[i] /\ acted'[i] = acted[i]
      /\ session'[Len(posts')] = NoSession /\ acted'[Len(posts')] = 0
  BY PostGrows DEF TgBooks
<1>2. DOMAIN posts = 1 .. Len(posts) /\ Len(posts) \in Nat /\ Users \subseteq DOMAIN posts
  BY PostsAre DEF TgBooks
<1>3. DOMAIN posts' = 1 .. Len(posts) + 1
  BY <1>1, <1>2 DEF PostBooks, Backward
<1>4. Calm
  <2>1. \A i \in DOMAIN posts' : i \in DOMAIN posts \/ i = Len(posts')
    BY <1>1, <1>2, <1>3
  <2> QED BY <1>1, <2>1 DEF Calm
<1>5. \A i : i \in Users => i \in Users'
  BY <1>1, <1>2, StaticKeeps DEF TgBooks
<1>6. OffsetBooks'
  BY <1>1, <1>2, <1>5 DEF TgBooks, OffsetBooks
<1>7. \A i : Behind(i) => Behind(i)'
  BY <1>5 DEF Behind
<1>8. ThreadBooks'
  BY <1>1, StaticThreads DEF TgBooks
<1> QED BY <1>1, <1>4, <1>6, <1>7, <1>8, CalmKeeps DEF TgBooks
-----------------------------------------------------------------------------
(* Telegram: the steps that are not a message's.                           *)

LEMMA UserPostsKeeps ==
  ASSUME TgBooks, NEW reply \in {0} \union DOMAIN posts, UserPosts(reply)
  PROVE  TgBooks'
<1> DEFINE p == Post(Head(story).user, Head(story).chat, Head(story).text, reply)
<1>1. story \in Seq(TgMessages) /\ story # <<>>
  BY DEF TgBooks, PostBooks, UserPosts
<1>2. Head(story) \in TgMessages /\ Tail(story) \in Seq(TgMessages)
  BY <1>1
<1>3. DOMAIN posts \subseteq Nat
  BY PostsAre DEF TgBooks
<1>4. p \in TgPosts /\ p.reply = reply /\ p.chat = Head(story).chat
  BY <1>2, <1>3 DEF TgMessages, TgPosts, Post
<1>5. reply # 0 => posts[reply].chat = p.chat
  BY <1>4 DEF UserPosts
<1>6. /\ Posts(p) /\ poster' = poster /\ story' = Tail(story) /\ runs' = runs
      /\ UNCHANGED <<now, policy, offset, saved, batch, thread, parked, released, unsaved>>
  BY DEF UserPosts, Posts
<1> HIDE DEF p
<1>7. Calm /\ (RunsBooks' => TgBooks')
  BY <1>2, <1>4, <1>5, <1>6, PostKeeps
<1>8. RunsBooks'
  BY <1>6, <1>7, StaticRuns DEF RunsBooks, TgBooks, Calm
<1> QED BY <1>7, <1>8

LEMMA SayKeeps ==
  ASSUME TgBooks, NEW m \in Users, Say(posts[m].chat, m), poster' \in {0, poster}, story' = story,
         UNCHANGED <<now, policy, offset, saved, batch, thread, parked, released, unsaved>>
  PROVE  /\ Calm /\ (RunsBooks' => TgBooks')
         /\ Len(posts) + 1 \in DOMAIN posts' /\ posts'[Len(posts) + 1].reply = m
<1> DEFINE p == Post(Bot, posts[m].chat, <<"answer">>, m)
<1>1. m \in DOMAIN posts /\ m \in Nat /\ posts[m].chat \in STRING /\ posts[m].chat # "none" /\ Len(posts) \in Nat
  BY PostsAre DEF TgBooks
<1>2. p \in TgPosts /\ p.reply = m /\ p.chat = posts[m].chat
  BY <1>1 DEF TgPosts, Post
<1>3. Posts(p)
  BY DEF Say, Posts
<1> HIDE DEF p
<1>4. Calm /\ (RunsBooks' => TgBooks')
  <2>1. p.reply \in {0} \union DOMAIN posts /\ story' \in Seq(TgMessages)
    BY <1>1, <1>2 DEF TgBooks, PostBooks
  <2> QED BY <1>2, <1>3, <2>1, PostKeeps
<1>5. Len(posts) + 1 \in DOMAIN posts' /\ posts'[Len(posts) + 1] = p
  BY <1>1, <1>3 DEF Posts, TgBooks, PostBooks, Backward
<1> QED BY <1>2, <1>4, <1>5

LEMMA PostAnswerKeeps ==
  ASSUME TgBooks, PostAnswer
  PROVE  TgBooks'
<1>1. poster \in Users /\ poster' \in {0, poster} /\ story' = story /\ runs' = runs
  BY DEF PostAnswer, TgBooks, OffsetBooks
<1>2. Calm /\ (RunsBooks' => TgBooks')
  BY <1>1, SayKeeps DEF PostAnswer
<1>3. RunsBooks'
  BY <1>1, <1>2, StaticRuns DEF RunsBooks, TgBooks, Calm
<1> QED BY <1>2, <1>3

LEMMA SinkPostsKeeps ==
  ASSUME TgBooks, NEW r \in runs, SinkPosts(r)
  PROVE  TgBooks'
<1>0. PICK w : w = [r EXCEPT !.answer = Len(posts) + 1]
  OBVIOUS
<1>1. r.msg \in Users /\ r \in [msg : Nat, session : TgKeys, answer : Nat]
  BY DEF TgBooks, RunsBooks
<1>2. /\ Calm /\ (RunsBooks' => TgBooks')
      /\ Len(posts) + 1 \in DOMAIN posts' /\ posts'[Len(posts) + 1].reply = r.msg
  BY <1>1, SayKeeps DEF SinkPosts
<1>3. Len(posts) \in Nat
  BY PostsAre DEF TgBooks
<1>4. /\ w \in [msg : Nat, session : TgKeys, answer : Nat]
      /\ w.msg = r.msg /\ w.session = r.session /\ w.answer = Len(posts) + 1
  BY <1>0, <1>1, <1>3
<1>5. runs' = (runs \ {r}) \union {w}
  BY <1>0 DEF SinkPosts
<1>6. RunsBooks'
  <2>1. ASSUME NEW q \in runs
        PROVE  /\ q \in [msg : Nat, session : TgKeys, answer : Nat]
               /\ q.msg \in Users' /\ Keyed(q.session, q.msg)'
               /\ q.answer # 0 => q.answer \in DOMAIN posts' /\ posts'[q.answer].reply = q.msg
    BY <1>2, StaticRuns DEF TgBooks, Calm
  <2>2. /\ w.msg \in Users' /\ Keyed(w.session, w.msg)'
        /\ w.answer # 0 => w.answer \in DOMAIN posts' /\ posts'[w.answer].reply = w.msg
    BY <1>2, <1>4, <2>1
  <2> QED BY <1>4, <1>5, <2>1, <2>2 DEF RunsBooks
<1> QED BY <1>2, <1>6

\* A step that posts nothing and does not touch the messages.
Quiet == UNCHANGED <<posts, session, acted, released>>

LEMMA QuietIsCalm ==
  ASSUME PostBooks, Quiet, \A s \in DOMAIN parked' : s \in DOMAIN parked /\ parked'[s] = parked[s]
  PROVE  Calm
BY StaticStays DEF Quiet, Calm

LEMMA QuietKeeps ==
  ASSUME TgBooks, Quiet, \A s \in DOMAIN parked' : s \in DOMAIN parked /\ parked'[s] = parked[s],
         thread' = thread, \A r \in runs' : r \in runs,
         story' = story, now' \in Nat, policy' \in DOMAIN Policies, unsaved' \in BOOLEAN, OffsetBooks',
         ~unsaved' => ~unsaved /\ \A i : Behind(i) => Behind(i)'
  PROVE  TgBooks'
<1>1. Calm /\ Static
  BY QuietIsCalm DEF TgBooks, Calm
<1>2. PostBooks'
  BY DEF TgBooks, PostBooks, Quiet
<1>3. ThreadBooks'
  BY <1>1, StaticThreads DEF TgBooks
<1>4. RunsBooks'
  BY <1>1, StaticRuns DEF RunsBooks, TgBooks
<1> QED BY <1>1, <1>2, <1>3, <1>4, CalmKeeps

LEMMA TimePassesKeeps ==
  ASSUME TgBooks, TimePasses
  PROVE  TgBooks'
<1>1. now' \in Nat
  BY DEF TgBooks, PostBooks, TimePasses
<1>2. OffsetBooks'
  BY DEF TgBooks, OffsetBooks, TimePasses, Users
<1>3. \A i : Behind(i) => Behind(i)'
  BY DEF Behind, Users, TimePasses
<1>4. policy \in DOMAIN Policies /\ unsaved \in BOOLEAN
  BY DEF TgBooks, PostBooks
<1>5. /\ Quiet /\ story' = story /\ parked' = parked /\ thread' = thread /\ runs' = runs
      /\ policy' = policy /\ unsaved' = unsaved
  BY DEF Quiet, TimePasses
<1> QED BY <1>1, <1>2, <1>3, <1>4, <1>5, QuietKeeps

LEMMA EditPolicyKeeps ==
  ASSUME TgBooks, EditPolicy
  PROVE  TgBooks'
<1>1. policy' \in DOMAIN Policies
  BY TelegramAssumption DEF TgBooks, PostBooks, EditPolicy
<1>2. OffsetBooks'
  BY DEF TgBooks, OffsetBooks, EditPolicy, Users
<1>3. \A i : Behind(i) => Behind(i)'
  BY DEF Behind, Users, EditPolicy
<1>4. now \in Nat /\ unsaved \in BOOLEAN
  BY DEF TgBooks, PostBooks
<1>5. /\ Quiet /\ story' = story /\ parked' = parked /\ thread' = thread /\ runs' = runs
      /\ now' = now /\ unsaved' = unsaved
  BY DEF Quiet, EditPolicy
<1> QED BY <1>1, <1>2, <1>3, <1>4, <1>5, QuietKeeps

\* The offset moves behind everything fetched, in memory and, if it can, in its file.
LEMMA pollKeeps ==
  ASSUME TgBooks, NEW written \in BOOLEAN, poll(written)
  PROVE  TgBooks'
<1>0. PICK ids, last : ids = Updates /\ last = Max(ids)
  OBVIOUS
<1>1. /\ ids # {} /\ batch = {} /\ offset' = last + 1 /\ saved' = (IF written THEN last + 1 ELSE saved)
      /\ unsaved' = (unsaved \/ ~written) /\ batch' = extract(ids)
  BY <1>0 DEF poll
<1>2. /\ Quiet /\ UNCHANGED <<story, now, policy, poster, thread, parked, runs>>
  BY DEF poll, Quiet
<1>3. /\ offset \in 0 .. Len(posts) + 1 /\ saved \in 0 .. offset /\ (~unsaved => saved = offset)
      /\ poster \in {0} \union Users /\ Len(posts) \in Nat /\ Users \subseteq 1 .. Len(posts)
      /\ now \in Nat /\ policy \in DOMAIN Policies /\ unsaved \in BOOLEAN
  BY PostsAre DEF TgBooks, OffsetBooks, PostBooks
<1>4. ids \subseteq Users /\ \A i \in ids : i >= offset
  BY <1>0 DEF Updates
<1>5. last \in ids /\ \A i \in ids : i <= last
  <2>1. ids \in SUBSET (0 .. Len(posts))
    BY <1>3, <1>4
  <2> QED BY <1>0, <1>1, <1>3, <2>1, LastIs
<1>6. Users' = Users
  BY <1>2 DEF Quiet, Users
<1>7. batch' \subseteq ids
  BY <1>1 DEF extract
<1>8. last \in Nat /\ last <= Len(posts) /\ last >= offset
  BY <1>3, <1>4, <1>5
<1>9. OffsetBooks'
  <2>1. offset' \in 0 .. Len(posts) + 1 /\ saved' \in 0 .. offset' /\ (~unsaved' => saved' = offset')
    <3>1. offset' \in 0 .. Len(posts) + 1
      BY <1>1, <1>3, <1>8
    <3>2. saved' \in 0 .. offset'
      BY <1>1, <1>3, <1>8
    <3>3. ~unsaved' => written
      BY <1>1
    <3> QED BY <1>1, <3>1, <3>2, <3>3
  <2>2. \A i \in batch' : i < offset'
    BY <1>1, <1>3, <1>4, <1>5, <1>7, <1>8
  <2>3. batch' \subseteq Users' /\ poster' \in {0} \union Users'
    BY <1>2, <1>3, <1>4, <1>6, <1>7
  <2> QED BY <1>2, <2>1, <2>2, <2>3 DEF OffsetBooks, Quiet
<1>10. ASSUME NEW i, Behind(i)
       PROVE  Behind(i)'
  <2>1. i \in Users /\ i < offset /\ i \in Nat
    BY <1>3, <1>10 DEF Behind
  <2>2. i < offset'
    BY <1>1, <1>3, <1>8, <2>1
  <2>3. ASSUME NEW b \in batch' PROVE i < b
    BY <1>3, <1>4, <1>7, <2>1, <2>3
  <2> QED BY <1>6, <2>1, <2>2, <2>3 DEF Behind
<1> QED BY <1>1, <1>2, <1>3, <1>9, <1>10, QuietKeeps

LEMMA RejectKeeps ==
  ASSUME TgBooks, Reject
  PROVE  TgBooks'
<1>1. /\ Quiet /\ UNCHANGED <<story, now, policy, offset, saved, poster, thread, parked, runs, unsaved>>
      /\ batch' \subseteq batch
  BY DEF Reject, Quiet
<1>2. OffsetBooks'
  BY <1>1 DEF TgBooks, OffsetBooks, Quiet, Users
<1>3. \A i : Behind(i) => Behind(i)'
  BY <1>1 DEF Behind, Users, Quiet
<1>4. now \in Nat /\ policy \in DOMAIN Policies /\ unsaved \in BOOLEAN
  BY DEF TgBooks, PostBooks
<1> QED BY <1>1, <1>2, <1>3, <1>4, QuietKeeps

\* A restart forgets what it held in memory, and starts where the file says.
LEMMA RestartedKeeps ==
  ASSUME TgBooks, Restarted, UNCHANGED <<parked, runs>> \/ (parked' = <<>> /\ runs' = {})
  PROVE  TgBooks'
<1>1. /\ Quiet /\ UNCHANGED <<story, now, policy, saved, thread, unsaved>>
      /\ batch' = {} /\ poster' = 0 /\ offset' = saved
  BY DEF Restarted, Quiet
<1>2. OffsetBooks'
  BY <1>1, PostsAre DEF TgBooks, OffsetBooks, Quiet
<1>3. ASSUME ~unsaved PROVE \A i : Behind(i) => Behind(i)'
  <2>1. offset' = offset
    BY <1>1, <1>3 DEF TgBooks, OffsetBooks
  <2> QED BY <1>1, <2>1 DEF Behind, Users, Quiet
<1>4. now \in Nat /\ policy \in DOMAIN Policies /\ unsaved \in BOOLEAN
  BY DEF TgBooks, PostBooks
<1>5. \A s \in DOMAIN parked' : s \in DOMAIN parked /\ parked'[s] = parked[s]
  <2>1. CASE parked' = <<>>
    <3>1. DOMAIN parked' = {}
      BY <2>1
    <3> QED BY <3>1
  <2>2. CASE parked' = parked
    BY <2>2
  <2> QED BY <2>1, <2>2
<1>6. \A r \in runs' : r \in runs
  OBVIOUS
<1> QED BY <1>1, <1>2, <1>3, <1>4, <1>5, <1>6, QuietKeeps

\* The answer's post, in the thread of the message it answers, becomes an anchor of that conversation.
LEMMA SinkBindsKeeps ==
  ASSUME TgBooks, NEW r \in runs, NEW bound \in BOOLEAN, SinkBinds(r, bound)
  PROVE  TgBooks'
<1>1. /\ Quiet /\ UNCHANGED <<story, now, policy, offset, saved, batch, poster, parked, unsaved>>
      /\ runs' = runs \ {r}
      /\ thread' = IF bound /\ is_group_chat(posts[r.msg].chat) THEN Bind(thread, r.answer, r.session) ELSE thread
      /\ r.answer # 0
  BY DEF SinkBinds, Quiet
<1>2. PostBooks /\ Static /\ Calm
  BY <1>1, QuietIsCalm DEF TgBooks, Calm
<1>3. PostBooks'
  BY <1>1 DEF TgBooks, PostBooks, Quiet
<1>4. OffsetBooks'
  BY <1>1 DEF TgBooks, OffsetBooks, Quiet, Users
<1>5. \A i : Behind(i) => Behind(i)'
  BY <1>1 DEF Behind, Users, Quiet
<1>6. RunsBooks'
  BY <1>1, <1>2, StaticRuns DEF RunsBooks, TgBooks
<1>7. ThreadBooks'
  <2> DEFINE a == r.answer
  <2>1. /\ r.msg \in DOMAIN posts /\ Keyed(r.session, r.msg) /\ a \in DOMAIN posts /\ posts[a].reply = r.msg /\ r.msg # 0
    BY <1>1, <1>2, PostsAre DEF TgBooks, RunsBooks
  <2>2. posts[a].chat = posts[r.msg].chat /\ Root[a] = Root[r.msg]
    BY <1>2, <2>1, RootGoesUp DEF PostBooks
  <2>3. ASSUME is_group_chat(posts[r.msg].chat)
        PROVE  InGroup(a) /\ Keyed(r.session, a)
    BY <2>1, <2>2, <2>3 DEF Keyed, InGroup
  <2>4. ASSUME NEW k, NEW m \in DOMAIN posts, InGroup(m), Keyed(k, m)
        PROVE  m \in DOMAIN posts' /\ InGroup(m)' /\ Keyed(k, m)'
    BY <1>2, <2>4, StaticKeeps
  <2>5. ASSUME NEW m \in DOMAIN thread
        PROVE  m \in DOMAIN posts /\ InGroup(m) /\ Keyed(thread[m], m)
    BY DEF TgBooks, ThreadBooks
  <2> HIDE DEF a
  <2> SUFFICES ASSUME NEW m \in DOMAIN thread'
               PROVE  m \in DOMAIN posts' /\ InGroup(m)' /\ Keyed(thread[m], m)'
    BY DEF ThreadBooks
  <2>6. PICK k : k = thread'[m]
    OBVIOUS
  <2>7. m \in DOMAIN posts /\ InGroup(m) /\ Keyed(k, m)
    <3>1. CASE thread' = thread
      BY <2>5, <2>6, <3>1
    <3>2. CASE thread' # thread
      <4>1. is_group_chat(posts[r.msg].chat) /\ thread' = Bind(thread, a, r.session)
        BY <1>1, <3>2 DEF a
      <4>2. CASE m = a
        BY <2>1, <2>3, <2>6, <4>1, <4>2 DEF Bind
      <4>3. CASE m # a
        BY <2>5, <2>6, <4>1, <4>3 DEF Bind
      <4> QED BY <4>2, <4>3
    <3> QED BY <3>1, <3>2
  <2> QED BY <2>4, <2>6, <2>7
<1> QED BY <1>1, <1>2, <1>3, <1>4, <1>5, <1>6, <1>7, CalmKeeps
-----------------------------------------------------------------------------
(* Telegram: the steps of a message.                                       *)

\* What every way to handle message i does: it is the first that waits, and is put in its conversation.
LEMMA ScreenedIs ==
  ASSUME TgBooks, NEW i, NEW bound \in BOOLEAN, Screened(i, bound)
  PROVE  /\ i \in Users /\ i \in DOMAIN posts /\ i \in Nat /\ i \in batch /\ i < offset
         /\ \A b \in batch : i <= b
         /\ posts' = posts /\ Static
         /\ UNCHANGED <<story, now, policy, offset, saved, unsaved>>
         /\ batch' = batch \ {i}
         /\ session' = [session EXCEPT ![i] = session_key(i)]
         /\ Keyed(session_key(i), i) /\ session_key(i) \in TgKeys /\ session_key(i) # NoSession
         /\ \A j : j # i /\ Behind(j) => j < i
         /\ \A j : Behind(j) => Behind(j)' /\ j # i
         /\ Behind(i)'
<1>1. batch \subseteq Users /\ (\A b \in batch : b < offset) /\ Users \subseteq 1 .. Len(posts) /\ Len(posts) \in Nat
      /\ DOMAIN posts = 1 .. Len(posts)
  BY PostsAre DEF TgBooks, OffsetBooks
<1>2. i = Min(batch) /\ batch # {}
  BY DEF Screened
<1>3. i \in batch /\ \A b \in batch : i <= b
  <2>1. batch \in SUBSET Nat
    BY <1>1
  <2> QED BY <1>2, <2>1, FirstIs
<1>4. i \in Users /\ i \in DOMAIN posts /\ i \in Nat /\ i < offset
  BY <1>1, <1>3
<1>5. posts' = posts /\ Static
  BY StaticStays DEF Screened, TgBooks
<1>6. /\ UNCHANGED <<story, now, policy, offset, saved, unsaved>>
      /\ batch' = batch \ {i}
      /\ session' = [session EXCEPT ![i] = session_key(i)]
  BY DEF Screened
<1>7. Keyed(session_key(i), i)
  BY <1>4, SessionKeyKeyed DEF TgBooks
<1>8. session_key(i) \in TgKeys /\ session_key(i) # NoSession
  BY <1>4, <1>7, KeyedIsKey DEF TgBooks
<1>9. Users' = Users
  BY <1>5 DEF Users
<1>10. \A j : Behind(j) => j < i /\ j # i
  BY <1>1, <1>3, <1>4 DEF Behind
<1>11. \A j : Behind(j) => Behind(j)'
  BY <1>6, <1>9 DEF Behind
<1>12. Behind(i)'
  <2>1. \A b \in batch' : i < b
    BY <1>1, <1>3, <1>4, <1>6
  <2> QED BY <1>4, <1>6, <1>9, <2>1 DEF Behind
<1> QED BY <1>3, <1>4, <1>5, <1>6, <1>7, <1>8, <1>10, <1>11, <1>12

\* What stays true whatever it asks for.
LEMMA ScreenedKeeps ==
  ASSUME TgBooks, NEW i, NEW bound \in BOOLEAN, Screened(i, bound), poster' \in {0, i, poster},
         acted' \in Seq(Nat), Len(acted') = Len(posts)
  PROVE  PostBooks' /\ OffsetBooks' /\ SessionBooks' /\ ThreadBooks'
<1>1. /\ i \in Users /\ i \in DOMAIN posts /\ i \in Nat /\ i \in batch
      /\ posts' = posts /\ Static
      /\ UNCHANGED <<story, now, policy, offset, saved, unsaved>>
      /\ batch' = batch \ {i}
      /\ session' = [session EXCEPT ![i] = session_key(i)]
      /\ Keyed(session_key(i), i) /\ session_key(i) \in TgKeys
  BY ScreenedIs
<1>2. DOMAIN posts = 1 .. Len(posts) /\ DOMAIN session = 1 .. Len(posts) /\ Len(posts) \in Nat
  BY PostsAre DEF TgBooks
<1>3. PICK k : k = session_key(i)
  OBVIOUS
<1>4. Keyed(k, i)'
  BY <1>1, <1>3, StaticKeeps DEF TgBooks
<1>5. PostBooks'
  <2>1. session' \in Seq(TgKeys) /\ Len(session') = Len(posts)
    BY <1>1, <1>2 DEF TgBooks, PostBooks
  <2> QED BY <1>1, <2>1 DEF TgBooks, PostBooks
<1>6. OffsetBooks'
  BY <1>1 DEF TgBooks, OffsetBooks, Users
<1>7. SessionBooks'
  <2> SUFFICES ASSUME NEW j \in DOMAIN posts', session'[j] # NoSession
               PROVE  j \in Users' /\ Keyed(session[j], j)'
    BY DEF SessionBooks
  <2>1. CASE j = i
    <3>1. session'[i] = k
      BY <1>1, <1>2, <1>3
    <3>2. i \in Users'
      BY <1>1, StaticKeeps DEF TgBooks
    <3> QED BY <1>4, <2>1, <3>1, <3>2
  <2>2. CASE j # i
    <3>1. PICK q : q = session[j]
      OBVIOUS
    <3>2. j \in DOMAIN posts /\ session'[j] = q
      BY <1>1, <1>2, <2>2, <3>1
    <3>3. j \in Users /\ Keyed(q, j)
      BY <3>1, <3>2 DEF TgBooks, SessionBooks
    <3>4. j \in Users' /\ Keyed(q, j)'
      BY <1>1, <3>2, <3>3, StaticKeeps DEF TgBooks
    <3> QED BY <3>2, <3>4
  <2> QED BY <2>1, <2>2
<1>8. ThreadBooks'
  <2> SUFFICES ASSUME NEW m \in DOMAIN thread'
               PROVE  m \in DOMAIN posts' /\ InGroup(m)' /\ Keyed(thread[m], m)'
    BY DEF ThreadBooks
  <2>1. PICK q : q = thread'[m]
    OBVIOUS
  <2>2. thread' = IF is_group_chat(posts[i].chat) /\ bound THEN Bind(thread, i, k) ELSE thread
    BY <1>3 DEF Screened
  <2>3. m \in DOMAIN posts /\ InGroup(m) /\ Keyed(q, m)
    <3>1. CASE thread' # thread /\ m = i
      BY <1>1, <1>3, <2>1, <2>2, <3>1 DEF Bind, InGroup
    <3>2. CASE thread' = thread \/ m # i
      <4>1. m \in DOMAIN thread /\ q = thread[m]
        BY <2>1, <2>2, <3>2 DEF Bind
      <4> QED BY <4>1 DEF TgBooks, ThreadBooks
    <3> QED BY <3>1, <3>2
  <2>4. m \in DOMAIN posts' /\ InGroup(m)' /\ Keyed(q, m)'
    BY <1>1, <2>3, StaticKeeps DEF TgBooks
  <2> QED BY <2>1, <2>4
<1> QED BY <1>5, <1>6, <1>7, <1>8

\* The runs and what ran stay, if no more come.
LEMMA ScreenedRuns ==
  ASSUME TgBooks, NEW i, NEW bound \in BOOLEAN, Screened(i, bound), runs' = runs
  PROVE  RunsBooks'
<1>1. Static
  BY ScreenedIs
<1> QED BY <1>1, StaticRuns DEF RunsBooks, TgBooks

LEMMA ScreenedLaw ==
  ASSUME TgBooks, NEW i, NEW bound \in BOOLEAN, Screened(i, bound), NEW r \in released
  PROVE  Lawful(r)'
<1>1. Static /\ Lawful(r)
  BY ScreenedIs DEF TgBooks, LawBooks
<1> QED BY <1>1, StaticLaw DEF TgBooks

\* What each of the parked commands still waits for.
LEMMA ScreenedParked ==
  ASSUME TgBooks, NEW i, NEW bound \in BOOLEAN, Screened(i, bound), NEW s, NEW c \in Users,
         Says(c) = "Bang", Owner(c), Keyed(s, c)
  PROVE  c \in Users' /\ Says(c)' = "Bang" /\ Owner(c)' /\ Keyed(s, c)'
<1>1. Static /\ c \in DOMAIN posts
  BY ScreenedIs DEF Users
<1> QED BY <1>1, StaticKeeps DEF TgBooks

\* The history of what was acted on.
LEMMA ScreenedActs ==
  ASSUME TgBooks, NEW i, NEW bound \in BOOLEAN, Screened(i, bound), ~unsaved,
         acted' = acted \/ acted' = [acted EXCEPT ![i] = @ + 1]
  PROVE  ActBooks'
<1>1. /\ i \in DOMAIN posts /\ posts' = posts /\ session' = [session EXCEPT ![i] = session_key(i)]
      /\ \A j : Behind(j) => Behind(j)' /\ j # i
      /\ Behind(i)'
  BY ScreenedIs
<1>2. /\ ActBooks /\ DOMAIN session = DOMAIN posts /\ DOMAIN acted = DOMAIN posts
      /\ acted[i] \in Nat
  BY <1>1, PostsAre DEF TgBooks, OnceBooks
<1>3. acted[i] = 0
  BY <1>1, <1>2 DEF ActBooks
<1> SUFFICES ASSUME NEW j \in DOMAIN posts
             PROVE  acted'[j] <= 1 /\ (acted'[j] # 0 \/ session'[j] # NoSession => Behind(j)')
  BY <1>1 DEF ActBooks
<1>4. CASE j = i
  BY <1>1, <1>2, <1>3, <1>4
<1>5. CASE j # i
  <2>1. acted'[j] = acted[j] /\ session'[j] = session[j]
    BY <1>1, <1>2, <1>5
  <2>2. acted[j] <= 1 /\ (acted[j] # 0 \/ session[j] # NoSession => Behind(j))
    BY <1>2 DEF ActBooks
  <2> QED BY <1>1, <2>1, <2>2
<1> QED BY <1>4, <1>5

\* What waited before i, not in i's conversation or not in i's place.
Waits(s, c) ==
    /\ Behind(c) /\ session[c] = s
    /\ \A i \in c + 1 .. Len(posts) : session[i] = s => ~NeedsYes(i)

LEMMA ScreenedWaits ==
  ASSUME TgBooks, NEW i, NEW bound \in BOOLEAN, Screened(i, bound), NEW s, NEW c, Waits(s, c),
         s = session_key(i) => ~NeedsYes(i)
  PROVE  Waits(s, c)'
<1>1. /\ i \in DOMAIN posts /\ posts' = posts /\ session' = [session EXCEPT ![i] = session_key(i)] /\ Static
      /\ \A j : Behind(j) => Behind(j)' /\ j # i
  BY ScreenedIs
<1>2. DOMAIN session = DOMAIN posts /\ DOMAIN posts = 1 .. Len(posts) /\ Len(posts) \in Nat /\ Users \subseteq DOMAIN posts
  BY PostsAre DEF TgBooks
<1>3. /\ Behind(c) /\ session[c] = s
      /\ \A j \in c + 1 .. Len(posts) : session[j] = s => ~NeedsYes(j)
  BY DEF Waits
<1>4. c \in DOMAIN posts /\ Behind(c)' /\ session'[c] = s
  BY <1>1, <1>2, <1>3 DEF Behind
<1>5. ASSUME NEW j \in c + 1 .. Len(posts'), session'[j] = s
      PROVE  ~NeedsYes(j)'
  <2>1. j \in DOMAIN posts /\ j \in c + 1 .. Len(posts)
    BY <1>1, <1>2, <1>4
  <2>2. ~NeedsYes(j)
    <3>1. CASE j = i
      BY <1>1, <1>2, <1>5, <3>1
    <3>2. CASE j # i
      BY <1>1, <1>2, <1>3, <1>5, <2>1, <3>2
    <3> QED BY <3>1, <3>2
  <2> QED BY <1>1, <2>1, <2>2, StaticKeeps DEF TgBooks
<1> QED BY <1>4, <1>5 DEF Waits

LEMMA ScreenedRan ==
  ASSUME TgBooks, NEW i, NEW bound \in BOOLEAN, Screened(i, bound), ~unsaved, NEW r \in released
  PROVE  /\ Behind(r.cmd) /\ Behind(r.by)
         /\ Behind(r.cmd)' /\ Behind(r.by)' /\ r.cmd <= r.by
         /\ r.by # r.cmd =>
               /\ session'[r.cmd] # NoSession
               /\ \A j \in r.cmd + 1 .. r.by - 1 : session'[j] = session'[r.cmd] => ~NeedsYes(j)'
<1>1. /\ i \in DOMAIN posts /\ i \in Nat /\ posts' = posts /\ session' = [session EXCEPT ![i] = session_key(i)] /\ Static
      /\ \A j : Behind(j) => Behind(j)' /\ j # i
      /\ \A j : j # i /\ Behind(j) => j < i
  BY ScreenedIs
<1>2. DOMAIN session = DOMAIN posts /\ DOMAIN posts = 1 .. Len(posts) /\ Len(posts) \in Nat /\ Users \subseteq DOMAIN posts
  BY PostsAre DEF TgBooks
<1>3. /\ Behind(r.cmd) /\ Behind(r.by) /\ r.cmd <= r.by
      /\ r.by # r.cmd => /\ session[r.cmd] # NoSession
                         /\ \A j \in r.cmd + 1 .. r.by - 1 : session[j] = session[r.cmd] => ~NeedsYes(j)
  BY DEF TgBooks, OnceBooks, RanBooks
<1>4. r.cmd \in DOMAIN posts /\ r.by \in DOMAIN posts /\ r.by < i /\ r.cmd # i
  BY <1>1, <1>2, <1>3 DEF Behind
<1>5. session'[r.cmd] = session[r.cmd]
  BY <1>1, <1>2, <1>4
<1>6. ASSUME r.by # r.cmd, NEW j \in r.cmd + 1 .. r.by - 1, session'[j] = session'[r.cmd]
      PROVE  ~NeedsYes(j)'
  <2>1. j \in DOMAIN posts /\ j # i
    BY <1>1, <1>2, <1>4
  <2>2. ~NeedsYes(j)
    BY <1>1, <1>2, <1>3, <1>5, <1>6, <2>1
  <2> QED BY <1>1, <2>1, <2>2, StaticKeeps DEF TgBooks
<1> QED BY <1>1, <1>3, <1>5, <1>6
\* What a command that waits has in common before and after: WaitBooks by its parts.
LEMMA WaitsAre ==
  ASSUME WaitBooks, NEW s \in DOMAIN parked
  PROVE  Waits(s, parked[s].cmd) /\ \A r \in released : r.cmd # parked[s].cmd
BY DEF WaitBooks, Waits

LEMMA ActedIs ==
  ASSUME TgBooks, NEW i \in DOMAIN posts, acted' = acted \/ acted' = [acted EXCEPT ![i] = @ + 1]
  PROVE  acted' \in Seq(Nat) /\ Len(acted') = Len(posts)
<1>1. acted \in Seq(Nat) /\ Len(acted) = Len(posts) /\ Len(posts) \in Nat /\ DOMAIN posts = 1 .. Len(posts)
  BY PostsAre DEF TgBooks, PostBooks
<1>2. acted[i] + 1 \in Nat
  BY <1>1
<1> QED BY <1>1, <1>2

\* The rest of the books, from what the step does to the commands that wait and that ran.
LEMMA HandledKeeps ==
  ASSUME TgBooks, NEW i, NEW bound \in BOOLEAN, Screened(i, bound), poster' \in {0, i, poster},
         acted' = acted \/ acted' = [acted EXCEPT ![i] = @ + 1],
         ParkedBooks', RunsBooks', LawBooks', ~unsaved => WaitBooks' /\ RanBooks'
  PROVE  TgBooks'
<1>1. i \in DOMAIN posts /\ unsaved' = unsaved
  BY ScreenedIs
<1>2. acted' \in Seq(Nat) /\ Len(acted') = Len(posts)
  BY <1>1, ActedIs
<1>3. PostBooks' /\ OffsetBooks' /\ SessionBooks' /\ ThreadBooks'
  BY <1>2, ScreenedKeeps
<1>4. ~unsaved => ActBooks'
  BY ScreenedActs
<1>5. OnceBooks'
  BY <1>1, <1>4 DEF OnceBooks
<1> QED BY <1>3, <1>5 DEF TgBooks

\* Nothing more ran.
LEMMA RanStays ==
  ASSUME TgBooks, NEW i, NEW bound \in BOOLEAN, Screened(i, bound), released' = released
  PROVE  LawBooks' /\ (~unsaved => RanBooks')
<1>1. LawBooks'
  BY ScreenedLaw DEF LawBooks
<1>2. ASSUME ~unsaved PROVE RanBooks'
  <2>1. \A r \in released : \A q \in released : q.cmd = r.cmd => q = r
    BY <1>2 DEF TgBooks, OnceBooks, RanBooks
  <2>2. \A r \in released :
           /\ Behind(r.cmd)' /\ Behind(r.by)' /\ r.cmd <= r.by
           /\ r.by # r.cmd =>
                 /\ session'[r.cmd] # NoSession
                 /\ \A j \in r.cmd + 1 .. r.by - 1 : session'[j] = session'[r.cmd] => ~NeedsYes(j)'
    BY <1>2, ScreenedRan
  <2> QED BY <2>1, <2>2 DEF RanBooks
<1> QED BY <1>1, <1>2

\* Fewer wait, and nothing that needs a yes came.
LEMMA ParkedStays ==
  ASSUME TgBooks, NEW i, NEW bound \in BOOLEAN, Screened(i, bound),
         \A s \in DOMAIN parked' : s \in DOMAIN parked /\ parked'[s] = parked[s],
         ~NeedsYes(i)
  PROVE  /\ ParkedBooks'
         /\ ~unsaved /\ released' = released => WaitBooks'
<1>1. ParkedBooks'
  <2> SUFFICES ASSUME NEW s \in DOMAIN parked'
               PROVE  (LET c == parked[s].cmd IN c \in Users /\ Says(c) = "Bang" /\ Owner(c) /\ Keyed(s, c))'
    BY DEF ParkedBooks
  <2>1. PICK c : c = parked[s].cmd
    OBVIOUS
  <2>2. s \in DOMAIN parked /\ parked'[s].cmd = c
    BY <2>1
  <2>3. c \in Users /\ Says(c) = "Bang" /\ Owner(c) /\ Keyed(s, c)
    BY <2>1, <2>2 DEF TgBooks, ParkedBooks
  <2> QED BY <2>2, <2>3, ScreenedParked
<1>2. ASSUME ~unsaved, released' = released
      PROVE  WaitBooks'
  <2> SUFFICES ASSUME NEW s \in DOMAIN parked'
               PROVE  (LET c == parked[s].cmd
                       IN  /\ Behind(c) /\ session[c] = s
                           /\ \A j \in c + 1 .. Len(posts) : session[j] = s => ~NeedsYes(j)
                           /\ \A r \in released : r.cmd # c)'
    BY DEF WaitBooks
  <2>1. PICK c : c = parked[s].cmd
    OBVIOUS
  <2>2. s \in DOMAIN parked /\ parked'[s].cmd = c
    BY <2>1
  <2>3. Waits(s, c) /\ \A r \in released : r.cmd # c
    BY <1>2, <2>1, <2>2, WaitsAre DEF TgBooks, OnceBooks
  <2>4. Waits(s, c)'
    BY <2>3, ScreenedWaits
  <2> QED BY <1>2, <2>2, <2>3, <2>4 DEF Waits
<1> QED BY <1>1, <1>2

\* Nothing parked, nothing released.
LEMMA PlainKeeps ==
  ASSUME TgBooks, NEW i, NEW bound \in BOOLEAN, Screened(i, bound), poster' \in {0, i, poster},
         acted' = acted \/ acted' = [acted EXCEPT ![i] = @ + 1],
         parked' = parked, released' = released, RunsBooks', ~NeedsYes(i)
  PROVE  TgBooks'
<1>1. LawBooks' /\ (~unsaved => RanBooks')
  BY RanStays
<1>2. ParkedBooks' /\ (~unsaved => WaitBooks')
  BY ParkedStays
<1> QED BY <1>1, <1>2, HandledKeeps

LEMMA NotOwnerKeeps ==
  ASSUME TgBooks, NEW i, NEW bound \in BOOLEAN, NotOwner(i, bound)
  PROVE  TgBooks'
<1>1. Screened(i, bound) /\ ~Acts(i) /\ UNCHANGED <<poster, parked, runs, acted, released>>
  BY DEF NotOwner
<1>2. ~NeedsYes(i)
  BY <1>1 DEF Acts, NeedsYes
<1>3. RunsBooks'
  BY <1>1, ScreenedRuns
<1> QED BY <1>1, <1>2, <1>3, PlainKeeps

LEMMA AnswerKeeps ==
  ASSUME TgBooks, NEW i, NEW bound \in BOOLEAN, Answer(i, bound)
  PROVE  TgBooks'
<1>1. /\ Screened(i, bound) /\ Says(i) # "Bang" /\ UNCHANGED <<parked, runs, released>>
      /\ acted' = [acted EXCEPT ![i] = @ + 1] /\ poster' = i
  BY DEF Answer
<1>2. ~NeedsYes(i)
  BY <1>1 DEF NeedsYes
<1>3. RunsBooks'
  BY <1>1, ScreenedRuns
<1> QED BY <1>1, <1>2, <1>3, PlainKeeps

LEMMA TgRunKeeps ==
  ASSUME TgBooks, NEW i, NEW bound \in BOOLEAN, NEW accepted \in BOOLEAN, Run(i, bound, accepted)
  PROVE  TgBooks'
<1>1. /\ Screened(i, bound) /\ Says(i) # "Bang" /\ UNCHANGED <<parked, released>>
      /\ acted' = acted \/ acted' = [acted EXCEPT ![i] = @ + 1]
      /\ poster' \in {0, i, poster}
      /\ \A w \in runs' : w \in runs \/ w = [msg |-> i, session |-> session_key(i), answer |-> 0]
  <2>1. Screened(i, bound) /\ Says(i) # "Bang" /\ UNCHANGED <<parked, released>>
    BY DEF Run
  <2>2. CASE accepted
    BY <2>1, <2>2 DEF Run
  <2>3. CASE ~accepted
    <3>1. acted' = [acted EXCEPT ![i] = acted[i]] /\ poster' = i /\ runs' = runs
      BY <2>3 DEF Run
    <3>2. acted' = acted
      BY <3>1 DEF TgBooks, PostBooks
    <3> QED BY <2>1, <3>1, <3>2
  <2> QED BY <2>2, <2>3
<1>2. ~NeedsYes(i)
  BY <1>1 DEF NeedsYes
<1>3. PICK k : k = session_key(i)
  OBVIOUS
<1>4. /\ Static /\ i \in DOMAIN posts /\ i \in Users /\ i \in Nat
      /\ Keyed(k, i) /\ k \in TgKeys
  BY <1>1, <1>3, ScreenedIs
<1>5. Keyed(k, i)' /\ i \in Users'
  BY <1>4, StaticKeeps DEF TgBooks
<1>6. RunsBooks'
  <2> SUFFICES ASSUME NEW w \in runs'
               PROVE  /\ w \in [msg : Nat, session : TgKeys, answer : Nat]
                      /\ w.msg \in Users' /\ Keyed(w.session, w.msg)'
                      /\ w.answer # 0 => w.answer \in DOMAIN posts' /\ posts'[w.answer].reply = w.msg
    BY DEF RunsBooks
  <2>1. CASE w \in runs
    BY <1>4, <2>1, StaticRuns DEF TgBooks
  <2>2. CASE w = [msg |-> i, session |-> k, answer |-> 0]
    <3>1. w \in [msg : Nat, session : TgKeys, answer : Nat] /\ w.msg = i /\ w.session = k /\ w.answer = 0
      BY <1>4, <2>2
    <3> QED BY <1>5, <3>1
  <2> QED BY <1>1, <1>3, <2>1, <2>2
<1> QED BY <1>1, <1>2, <1>6, PlainKeeps
\* One more ran: command c, released by message i.
LEMMA RanGrows ==
  ASSUME TgBooks, NEW i, NEW bound \in BOOLEAN, Screened(i, bound), NEW c, NEW w,
         released' = released \union {w}, w.cmd = c, w.by = i, Lawful(w)',
         ~unsaved => /\ Behind(c)' /\ c <= i /\ \A r \in released : r.cmd # c
                     /\ i # c => /\ session'[c] # NoSession
                                 /\ \A j \in c + 1 .. i - 1 : session'[j] = session'[c] => ~NeedsYes(j)'
  PROVE  LawBooks' /\ (~unsaved => RanBooks')
<1>1. LawBooks'
  BY ScreenedLaw DEF LawBooks
<1>2. ASSUME ~unsaved PROVE RanBooks'
  <2>1. Behind(i)'
    BY ScreenedIs
  <2>2. \A r \in released : \A q \in released : q.cmd = r.cmd => q = r
    BY <1>2 DEF TgBooks, OnceBooks, RanBooks
  <2>3. ASSUME NEW r \in released
        PROVE  /\ Behind(r.cmd)' /\ Behind(r.by)' /\ r.cmd <= r.by
               /\ \A q \in released' : q.cmd = r.cmd => q = r
               /\ r.by # r.cmd =>
                     /\ session'[r.cmd] # NoSession
                     /\ \A j \in r.cmd + 1 .. r.by - 1 : session'[j] = session'[r.cmd] => ~NeedsYes(j)'
    BY <1>2, <2>2, ScreenedRan
  <2>4. /\ Behind(w.cmd)' /\ Behind(w.by)' /\ w.cmd <= w.by
        /\ \A q \in released' : q.cmd = w.cmd => q = w
        /\ w.by # w.cmd =>
              /\ session'[w.cmd] # NoSession
              /\ \A j \in w.cmd + 1 .. w.by - 1 : session'[j] = session'[w.cmd] => ~NeedsYes(j)'
    BY <1>2, <2>1
  <2> QED BY <2>3, <2>4 DEF RanBooks
<1> QED BY <1>1, <1>2

\* A command that needs a yes waits in its conversation, instead of any other.
LEMMA ParkedAgain ==
  ASSUME TgBooks, NEW i, NEW bound \in BOOLEAN, Screened(i, bound), Says(i) = "Bang", Owner(i),
         parked' = Bind(parked, session_key(i), [cmd |-> i, at |-> now]), released' = released
  PROVE  ParkedBooks' /\ (~unsaved => WaitBooks')
<1>1. PICK k, v : k = session_key(i) /\ v = [cmd |-> i, at |-> now]
  OBVIOUS
<1>2. v.cmd = i /\ parked' = Bind(parked, k, v)
  BY <1>1
<1>3. /\ i \in Users /\ i \in DOMAIN posts /\ i \in Nat /\ posts' = posts /\ Static
      /\ session' = [session EXCEPT ![i] = k] /\ Keyed(k, i) /\ k # NoSession
      /\ \A j : j # i /\ Behind(j) => j < i
      /\ \A j : Behind(j) => j # i
      /\ Behind(i)'
  BY <1>1, ScreenedIs
<1>4. ASSUME NEW s \in DOMAIN parked', s # k
      PROVE  s \in DOMAIN parked /\ parked'[s] = parked[s]
  BY <1>2, <1>4 DEF Bind
<1>5. parked'[k] = v
  BY <1>2 DEF Bind
<1>6. ParkedBooks'
  <2> SUFFICES ASSUME NEW s \in DOMAIN parked'
               PROVE  (LET c == parked[s].cmd IN c \in Users /\ Says(c) = "Bang" /\ Owner(c) /\ Keyed(s, c))'
    BY DEF ParkedBooks
  <2>1. PICK c : c = parked'[s].cmd
    OBVIOUS
  <2>2. c \in Users /\ Says(c) = "Bang" /\ Owner(c) /\ Keyed(s, c)
    <3>1. CASE s = k
      BY <1>2, <1>3, <1>5, <2>1, <3>1
    <3>2. CASE s # k
      BY <1>4, <2>1, <3>2 DEF TgBooks, ParkedBooks
    <3> QED BY <3>1, <3>2
  <2> QED BY <2>1, <2>2, ScreenedParked
<1>7. ASSUME ~unsaved PROVE WaitBooks'
  <2> SUFFICES ASSUME NEW s \in DOMAIN parked'
               PROVE  (LET c == parked[s].cmd
                       IN  /\ Behind(c) /\ session[c] = s
                           /\ \A j \in c + 1 .. Len(posts) : session[j] = s => ~NeedsYes(j)
                           /\ \A r \in released : r.cmd # c)'
    BY DEF WaitBooks
  <2>1. PICK c : c = parked'[s].cmd
    OBVIOUS
  <2>2. Waits(s, c)' /\ \A r \in released : r.cmd # c
    <3>1. CASE s = k
      <4>1. c = i
        BY <1>2, <1>5, <2>1, <3>1
      <4>2. \A r \in released : r.cmd # i
        BY <1>3, <1>7 DEF TgBooks, OnceBooks, RanBooks
      <4>3. DOMAIN session = DOMAIN posts /\ DOMAIN posts = 1 .. Len(posts) /\ Len(posts) \in Nat
        BY PostsAre DEF TgBooks
      <4>4. ASSUME NEW j \in i + 1 .. Len(posts), session'[j] = k
            PROVE  FALSE
        <5>1. j \in DOMAIN posts /\ j # i /\ ~(j < i)
          BY <1>3, <4>3
        <5>2. session[j] # NoSession
          BY <1>3, <4>3, <4>4, <5>1
        <5>3. Behind(j)
          BY <1>7, <5>1, <5>2 DEF TgBooks, OnceBooks, ActBooks
        <5> QED BY <1>3, <5>1, <5>3
      <4>5. session'[i] = k
        BY <1>3, <4>3
      <4>6. Waits(k, i)'
        BY <1>3, <4>4, <4>5 DEF Waits
      <4> QED BY <3>1, <4>1, <4>2, <4>6
    <3>2. CASE s # k
      <4>1. s \in DOMAIN parked /\ c = parked[s].cmd
        BY <1>4, <2>1, <3>2
      <4>2. Waits(s, c) /\ \A r \in released : r.cmd # c
        BY <1>7, <4>1, WaitsAre DEF TgBooks, OnceBooks
      <4> QED BY <1>1, <3>2, <4>2, ScreenedWaits
    <3> QED BY <3>1, <3>2
  <2> QED BY <2>1, <2>2 DEF Waits
<1> QED BY <1>6, <1>7

LEMMA handle_typed_commandKeeps ==
  ASSUME TgBooks, NEW i, NEW bound \in BOOLEAN, handle_typed_command(i, bound)
  PROVE  TgBooks'
<1> DEFINE verdict == decide(config, Asked(i))
<1>1. /\ Screened(i, bound) /\ Says(i) = "Bang" /\ Owner(i) /\ runs' = runs
      /\ acted' = [acted EXCEPT ![i] = @ + 1] /\ poster' = i
      /\ parked' = IF verdict = "Confirm" THEN Bind(parked, session_key(i), [cmd |-> i, at |-> now]) ELSE parked
      /\ released' = IF verdict = "Allow" THEN Ran(i, i, now) ELSE released
  BY DEF handle_typed_command, Acts
<1>2. RunsBooks'
  BY <1>1, ScreenedRuns
<1>3. policy \in DOMAIN Policies /\ config = Policies[policy]
  BY DEF TgBooks, PostBooks, config
<1>4. verdict # "Confirm" => ~NeedsYes(i)
  BY <1>3 DEF NeedsYes
<1> HIDE DEF verdict
<1>5. CASE verdict = "Confirm"
  <2>1. parked' = Bind(parked, session_key(i), [cmd |-> i, at |-> now]) /\ released' = released
    BY <1>1, <1>5
  <2>2. ParkedBooks' /\ (~unsaved => WaitBooks')
    BY <1>1, <2>1, ParkedAgain
  <2>3. LawBooks' /\ (~unsaved => RanBooks')
    BY <1>1, <2>1, RanStays
  <2> QED BY <1>1, <1>2, <2>2, <2>3, HandledKeeps
<1>6. CASE verdict = "Allow"
  <2>1. PICK w : w = [cmd |-> i, by |-> i, waited |-> now - now, policy |-> policy]
    OBVIOUS
  <2>2. w.cmd = i /\ w.by = i /\ w.waited = 0 /\ w.policy = policy
    BY <2>1 DEF TgBooks, PostBooks
  <2>3. parked' = parked /\ released' = released \union {w}
    BY <1>1, <1>6, <2>1 DEF Ran
  <2>4. Static /\ i \in Users /\ i \in Nat /\ Behind(i)' /\ \A j : Behind(j) => j # i
    BY <1>1, ScreenedIs
  <2>5. Lawful(w)
    BY <1>1, <1>3, <1>6, <2>2, <2>4, TelegramAssumption DEF Lawful, verdict
  <2>6. Lawful(w)'
    BY <2>4, <2>5, StaticLaw DEF TgBooks
  <2>7. ASSUME ~unsaved PROVE \A r \in released : r.cmd # i
    BY <2>4, <2>7 DEF TgBooks, OnceBooks, RanBooks
  <2>8. LawBooks' /\ (~unsaved => RanBooks')
    BY <1>1, <2>2, <2>3, <2>4, <2>6, <2>7, RanGrows
  <2>9. ParkedBooks'
    BY <1>1, <1>4, <1>6, <2>3, ParkedStays
  <2>10. ASSUME ~unsaved PROVE WaitBooks'
    <3> SUFFICES ASSUME NEW s \in DOMAIN parked
                 PROVE  (Waits(s, parked[s].cmd) /\ \A r \in released : r.cmd # parked[s].cmd)'
      BY <2>3 DEF WaitBooks, Waits
    <3>1. PICK c : c = parked[s].cmd
      OBVIOUS
    <3>2. Waits(s, c) /\ \A r \in released : r.cmd # c
      BY <2>10, <3>1, WaitsAre DEF TgBooks, OnceBooks
    <3>3. c # i
      BY <2>4, <3>2 DEF Waits
    <3>4. Waits(s, c)'
      BY <1>1, <1>4, <1>6, <3>2, ScreenedWaits
    <3> QED BY <2>2, <2>3, <3>1, <3>2, <3>3, <3>4
  <2> QED BY <1>1, <1>2, <2>8, <2>9, <2>10, HandledKeeps
<1>7. CASE verdict # "Confirm" /\ verdict # "Allow"
  BY <1>1, <1>2, <1>4, <1>7, PlainKeeps
<1> QED BY <1>5, <1>6, <1>7

LEMMA handle_confirmationKeeps ==
  ASSUME TgBooks, NEW i, NEW bound \in BOOLEAN, handle_confirmation(i, bound)
  PROVE  TgBooks'
<1>1. PICK k : k = session_key(i)
  OBVIOUS
<1>2. PICK c : c = parked[k].cmd
  OBVIOUS
<1>3. /\ Screened(i, bound) /\ Says(i) = "Confirm" /\ Owner(i) /\ runs' = runs
      /\ acted' = [acted EXCEPT ![i] = @ + 1] /\ poster' = i
      /\ parked' = Forget(parked, k)
      /\ released' = IF Fresh(k) /\ run_allowed(config, Asked(c)) THEN Ran(c, i, parked[k].at) ELSE released
  BY <1>1, <1>2 DEF handle_confirmation, Acts, take
<1>4. /\ i \in Users /\ i \in DOMAIN posts /\ i \in Nat /\ Static /\ Keyed(k, i) /\ k # NoSession
      /\ session' = [session EXCEPT ![i] = k]
      /\ \A j : Behind(j) => Behind(j)' /\ j # i
      /\ \A j : j # i /\ Behind(j) => j < i
      /\ Behind(i)'
  BY <1>1, <1>3, ScreenedIs
<1>5. RunsBooks'
  BY <1>3, ScreenedRuns
<1>6. ~NeedsYes(i)
  BY <1>3 DEF NeedsYes
<1>7. \A s \in DOMAIN parked' : s \in DOMAIN parked /\ parked'[s] = parked[s] /\ s # k
  BY <1>3 DEF Forget
<1>8. ParkedBooks' /\ (~unsaved /\ released' = released => WaitBooks')
  BY <1>3, <1>6, <1>7, ParkedStays
<1>9. CASE released' = released
  <2>1. LawBooks' /\ (~unsaved => RanBooks')
    BY <1>3, <1>9, RanStays
  <2> QED BY <1>3, <1>5, <1>8, <1>9, <2>1, HandledKeeps
<1>10. CASE released' # released
  <2>1. Fresh(k) /\ run_allowed(config, Asked(c)) /\ released' = Ran(c, i, parked[k].at)
    BY <1>3, <1>10
  <2>2. PICK w : w = [cmd |-> c, by |-> i, waited |-> now - parked[k].at, policy |-> policy]
    OBVIOUS
  <2>3. w.cmd = c /\ w.by = i /\ w.waited = now - parked[k].at /\ w.policy = policy
    BY <2>2
  <2>4. released' = released \union {w}
    BY <2>1, <2>2 DEF Ran
  <2>5. k \in DOMAIN parked /\ w.waited <= ttl
    BY <2>1, <2>3 DEF Fresh
  <2>6. c \in Users /\ Says(c) = "Bang" /\ Owner(c) /\ Keyed(k, c)
    BY <1>2, <2>5 DEF TgBooks, ParkedBooks
  <2>7. c \in DOMAIN posts /\ c # i
    BY <1>3, <2>6 DEF Users
  <2>8. posts[c].chat = posts[i].chat /\ (InGroup(c) => Root[c] = Root[i])
    BY <1>4, <2>6, <2>7, KeyedSame DEF TgBooks
  <2>9. decide(Policies[w.policy], Asked(c)) # "Deny"
    BY <2>1, <2>3 DEF run_allowed, config
  <2>10. Lawful(w)
    BY <1>3, <1>4, <2>3, <2>5, <2>6, <2>7, <2>8, <2>9 DEF Lawful
  <2>11. Lawful(w)'
    BY <1>4, <2>10, StaticLaw DEF TgBooks
  <2>12. ASSUME ~unsaved
         PROVE  /\ Waits(k, c) /\ Waits(k, c)' /\ \A r \in released : r.cmd # c
    <3>1. Waits(k, c) /\ \A r \in released : r.cmd # c
      BY <1>2, <2>5, <2>12, WaitsAre DEF TgBooks, OnceBooks
    <3>2. Waits(k, c)'
      BY <1>3, <1>6, <3>1, ScreenedWaits
    <3> QED BY <3>1, <3>2
  <2>13. Len(posts) \in Nat /\ i <= Len(posts) /\ posts' = posts /\ c \in Nat
    <3>1. posts' = posts
      BY <1>3, ScreenedIs
    <3>2. Len(posts) \in Nat /\ DOMAIN posts = 1 .. Len(posts)
      BY PostsAre DEF TgBooks
    <3> QED BY <1>4, <2>7, <3>1, <3>2
  <2>14. ASSUME ~unsaved
         PROVE  /\ Behind(c)' /\ c <= i /\ \A r \in released : r.cmd # c
                /\ i # c => /\ session'[c] # NoSession
                            /\ \A j \in c + 1 .. i - 1 : session'[j] = session'[c] => ~NeedsYes(j)'
    <3>1. Behind(c)' /\ session'[c] = k /\ \A j \in c + 1 .. Len(posts') : session'[j] = k => ~NeedsYes(j)'
      BY <2>12, <2>14 DEF Waits
    <3>2. c < i
      BY <1>4, <2>7, <2>12, <2>14 DEF Waits
    <3>3. \A j \in c + 1 .. i - 1 : j \in c + 1 .. Len(posts')
      BY <1>4, <2>13
    <3> QED BY <1>4, <2>12, <2>13, <2>14, <3>1, <3>2, <3>3
  <2>15. LawBooks' /\ (~unsaved => RanBooks')
    BY <1>3, <2>3, <2>4, <2>11, <2>14, RanGrows
  <2>16. ASSUME ~unsaved PROVE WaitBooks'
    <3> SUFFICES ASSUME NEW s \in DOMAIN parked'
                 PROVE  (Waits(s, parked[s].cmd) /\ \A r \in released : r.cmd # parked[s].cmd)'
      BY DEF WaitBooks, Waits
    <3>1. PICK d : d = parked'[s].cmd
      OBVIOUS
    <3>2. s \in DOMAIN parked /\ d = parked[s].cmd /\ s # k
      BY <1>7, <3>1
    <3>3. Waits(s, d) /\ \A r \in released : r.cmd # d
      BY <2>16, <3>2, WaitsAre DEF TgBooks, OnceBooks
    <3>4. Waits(s, d)'
      BY <1>3, <1>6, <3>3, ScreenedWaits
    <3>5. d # c
      BY <2>12, <2>16, <3>2, <3>3 DEF Waits
    <3> QED BY <2>3, <2>4, <3>1, <3>3, <3>4, <3>5
  <2> QED BY <1>3, <1>5, <1>8, <2>15, <2>16, HandledKeeps
<1> QED BY <1>9, <1>10
-----------------------------------------------------------------------------
LEMMA TgInitBooks ==
  ASSUME TgInit PROVE TgBooks
<1>1. posts = <<>> /\ session = <<>> /\ acted = <<>> /\ thread = <<>> /\ parked = <<>> /\ runs = {} /\ released = {}
      /\ batch = {} /\ offset = 0 /\ saved = 0 /\ poster = 0 /\ now = 0 /\ policy = 1 /\ unsaved = FALSE
  BY DEF TgInit
<1>2. DOMAIN posts = {} /\ DOMAIN thread = {} /\ DOMAIN parked = {} /\ Len(posts) = 0
  BY <1>1
<1>3. story \in Seq(TgMessages)
  BY TelegramAssumption DEF TgInit, TgMessages
<1>4. 1 \in DOMAIN Policies
  <2>1. Len(Policies) \in Nat /\ DOMAIN Policies = 1 .. Len(Policies) /\ Len(Policies) # 0
    BY TelegramAssumption
  <2> QED BY <2>1
<1>5. PostBooks
  <2>1. Backward(posts)
    BY <1>1, <1>2 DEF Backward
  <2>2. session \in Seq(TgKeys) /\ acted \in Seq(Nat) /\ Len(session) = Len(posts) /\ Len(acted) = Len(posts)
    BY <1>1
  <2> QED BY <1>1, <1>2, <1>3, <1>4, <2>1, <2>2 DEF PostBooks
<1>6. OffsetBooks
  BY <1>1, <1>2 DEF OffsetBooks
<1>7. SessionBooks /\ ParkedBooks /\ ThreadBooks /\ RunsBooks /\ LawBooks /\ OnceBooks
  BY <1>1, <1>2 DEF SessionBooks, ParkedBooks, ThreadBooks, RunsBooks, LawBooks, OnceBooks, ActBooks, WaitBooks, RanBooks
<1> QED BY <1>5, <1>6, <1>7 DEF TgBooks

LEMMA TgNextKeeps ==
  ASSUME TgBooks, [TgNext]_tgVars
  PROVE  TgBooks'
<1>1. CASE UNCHANGED tgVars
  <2>1. /\ Quiet /\ story' = story /\ parked' = parked /\ thread' = thread /\ runs' = runs
        /\ UNCHANGED <<now, policy, offset, saved, batch, poster, unsaved>>
    BY <1>1 DEF Quiet, tgVars
  <2>2. OffsetBooks'
    BY <2>1 DEF TgBooks, OffsetBooks, Users, Quiet
  <2>3. \A i : Behind(i) => Behind(i)'
    BY <2>1 DEF Behind, Users, Quiet
  <2>4. now \in Nat /\ policy \in DOMAIN Policies /\ unsaved \in BOOLEAN
    BY DEF TgBooks, PostBooks
  <2> QED BY <2>1, <2>2, <2>3, <2>4, QuietKeeps
<1>2. ASSUME NEW reply \in {0} \union DOMAIN posts, UserPosts(reply) PROVE TgBooks'
  BY <1>2, UserPostsKeeps
<1>3. CASE Polls
  BY <1>3, pollKeeps DEF Polls
<1>4. CASE Handle
  <2>1. CASE Reject
    BY <2>1, RejectKeeps
  <2>2. CASE PostAnswer
    BY <2>2, PostAnswerKeeps
  <2>3. ASSUME NEW i \in DOMAIN posts, NEW bound \in BOOLEAN,
               \/ NotOwner(i, bound) \/ handle_typed_command(i, bound) \/ handle_confirmation(i, bound)
               \/ Answer(i, bound)
               \/ \E accepted \in BOOLEAN : Run(i, bound, accepted)
        PROVE  TgBooks'
    BY <2>3, NotOwnerKeeps, handle_typed_commandKeeps, handle_confirmationKeeps, AnswerKeeps, TgRunKeeps
  <2> QED BY <1>4, <2>1, <2>2, <2>3 DEF Handle
<1>5. CASE Sinks
  BY <1>5, SinkPostsKeeps, SinkBindsKeeps DEF Sinks
<1>6. CASE TimePasses
  BY <1>6, TimePassesKeeps
<1>7. CASE EditPolicy
  BY <1>7, EditPolicyKeeps
<1>8. CASE ReloadIngress
  BY <1>8, RestartedKeeps DEF ReloadIngress
<1>9. CASE CrashDaemon
  BY <1>9, RestartedKeeps DEF CrashDaemon
<1> QED BY <1>1, <1>2, <1>3, <1>4, <1>5, <1>6, <1>7, <1>8, <1>9 DEF TgNext

\* TgSafe: over any number of messages, losses, reloads and crashes, each update is acted on once at most
\* while offsets can be written, a command runs only as [os] has it at that moment and when an owner of the
\* same thread agreed in time to just that command, and sessions stay with their threads
\* (screen_with_store, handle_confirmation, session_key, Poller::poll).
THEOREM TgSafe == TgSpec => []TgInv
<1>1. TgSpec => []TgBooks
  BY TgInitBooks, TgNextKeeps, PTL DEF TgSpec
<1> QED BY <1>1, TgBooksSay, PTL
=============================================================================
