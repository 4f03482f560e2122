----------------------------- MODULE ApiBridge -----------------------------
(***************************************************************************)
(* `dotagent api' (commands/api.rs): lines from stdin to the local API's    *)
(* socket and lines from the socket to stdout, both at once.  The server is *)
(* seen from this end: it answers lines, or turns the client away, and      *)
(* closes when it likes.                                                    *)
(*                                                                          *)
(* A stream is a sequence of bytes: "b", or "nl" at the end of a line.  It  *)
(* arrives in pieces.  A direction is [pc, frame]: reading with a line in   *)
(* hand, writing it, at its end ("eof", which stdin's follows with a        *)
(* half-close), or over.                                                    *)
(***************************************************************************)
EXTENDS Integers, Sequences, SequencesExt

CONSTANTS
    Inputs,            \* what stdin may hold
    MAX_FRAME_BYTES,
    MaxSaid            \* bound: lines of the server

ASSUME BridgeAssumption == MAX_FRAME_BYTES \in Nat /\ MaxSaid \in Nat /\ Inputs \subseteq Seq({"b", "nl"})

VARIABLES
    input,     \* stdin, as far as it has not been read
    whole,     \* and all of it
    up, down,  \* forward_stdin, and forward_frames to stdout
    wire,      \* bytes of the server that have not been read
    heard,     \* bytes that reached the server
    said,      \* bytes of the server
    out,       \* stdout
    half,      \* the write side is closed
    gone,      \* the server has closed
    bridge     \* the select: both, drain, ok or failed

bridgeVars == <<input, whole, up, down, wire, heard, said, out, half, gone, bridge>>

NoLine == [pc |-> "read", frame |-> <<>>]

\* run: the socket is there.
BridgeInit ==
    /\ whole \in Inputs /\ input = whole
    /\ up = NoLine /\ down = NoLine /\ wire = <<>> /\ heard = <<>> /\ said = <<>> /\ out = <<>>
    /\ half = FALSE /\ gone = FALSE /\ bridge = "both"

-----------------------------------------------------------------------------
(* The server.                                                             *)

ServerSays(line) ==
    /\ ~gone /\ Len(SelectSeq(said, LAMBDA c : c = "nl")) < MaxSaid
    /\ said' = said \o line /\ wire' = wire \o line
    /\ UNCHANGED <<input, whole, up, down, heard, out, half, gone, bridge>>

ServerCloses ==
    /\ ~gone /\ gone' = TRUE
    /\ UNCHANGED <<input, whole, up, down, wire, heard, said, out, half, bridge>>

-----------------------------------------------------------------------------
(* A direction.                                                            *)

FirstNewline(s) == IF "nl" \in ToSet(s) THEN SelectInSeq(s, LAMBDA c : c = "nl") ELSE Len(s)

\* read_bounded_frame, one piece of what is there: up to a newline, and never past the limit.
read_bounded_frame(d, stream, ended, rest, n) ==
    LET closes == stream[n] = "nl"
        content_len == IF closes THEN n - 1 ELSE n
    IN  CASE stream = <<>> -> [ended |-> ended, rest |-> rest, next |-> IF d.frame = <<>> THEN "eof" ELSE "last"]
          [] stream # <<>> /\ content_len > MAX_FRAME_BYTES - Len(d.frame) -> [ended |-> TRUE, rest |-> stream, next |-> "error"]
          [] OTHER -> [ended |-> TRUE, rest |-> SubSeq(stream, n + 1, Len(stream)),
                       next |-> IF closes THEN "write" ELSE "read"]

\* What a direction is after a read: the line in hand goes on to be written when it is whole.
AfterRead(d, stream, r, n) ==
    [pc |-> IF r.next = "last" THEN "write" ELSE r.next,
     frame |-> IF r.next \in {"read", "write"} THEN d.frame \o SubSeq(stream, 1, n) ELSE d.frame]

Live == bridge \in {"both", "drain"}

ReadStdin(n) ==
    LET r == read_bounded_frame(up, input, TRUE, input, n)
    IN  /\ bridge = "both" /\ up.pc = "read" /\ n \in 0 .. FirstNewline(input) /\ (n = 0 <=> input = <<>>)
        /\ up' = AfterRead(up, input, r, n) /\ input' = r.rest
        /\ UNCHANGED <<whole, down, wire, heard, said, out, half, gone, bridge>>

\* A server that has gone breaks the pipe.
WriteSocket ==
    /\ bridge = "both" /\ up.pc = "write"
    /\ IF gone THEN up' = [up EXCEPT !.pc = "error"] /\ UNCHANGED heard
       ELSE up' = NoLine /\ heard' = heard \o up.frame
    /\ UNCHANGED <<input, whole, down, wire, said, out, half, gone, bridge>>

\* forward_stdin: the end of stdin closes the write side and nothing else.
HalfClose(ok) ==
    /\ bridge = "both" /\ up.pc = "eof" /\ (ok \/ gone)
    /\ up' = [up EXCEPT !.pc = IF ok THEN "over" ELSE "error"]
    /\ half' = ok
    /\ UNCHANGED <<input, whole, down, wire, heard, said, out, gone, bridge>>

ReadSocket(n) ==
    LET r == read_bounded_frame(down, wire, gone, wire, n)
    IN  /\ Live /\ down.pc = "read" /\ n \in 0 .. FirstNewline(wire) /\ (n = 0 <=> wire = <<>>)
        /\ r.ended
        /\ down' = AfterRead(down, wire, r, n) /\ wire' = r.rest
        /\ UNCHANGED <<input, whole, up, heard, said, out, half, gone, bridge>>

\* The server closed over lines it had not read: the connection is reset, after the last byte.
SocketFails ==
    /\ Live /\ down.pc = "read" /\ gone /\ wire = <<>>
    /\ down' = [down EXCEPT !.pc = "error"]
    /\ UNCHANGED <<input, whole, up, wire, heard, said, out, half, gone, bridge>>

WriteStdout(ok) ==
    /\ Live /\ down.pc = "write"
    /\ down' = IF ok THEN NoLine ELSE [down EXCEPT !.pc = "error"]
    /\ out' = IF ok THEN out \o down.frame ELSE out
    /\ UNCHANGED <<input, whole, up, wire, heard, said, half, gone, bridge>>

-----------------------------------------------------------------------------
(* The select of bridge: stdin's end, or its failure ...                   *)

StdinEnds ==
    /\ bridge = "both" /\ up.pc \in {"over", "error"}
    /\ bridge' = IF up.pc = "over" THEN "drain" ELSE "failed"
    /\ UNCHANGED <<input, whole, up, down, wire, heard, said, out, half, gone>>

\* ... or the socket's, which waits for no stdin.
SocketEnds ==
    /\ Live /\ down.pc \in {"eof", "error"}
    /\ bridge' = IF down.pc = "eof" THEN "ok" ELSE "failed"
    /\ UNCHANGED <<input, whole, up, down, wire, heard, said, out, half, gone>>

BridgeNext ==
    \/ \E line \in {<<"b", "nl">>, <<"b", "b", "b", "nl">>} : ServerSays(line)
    \/ ServerCloses
    \/ \E n \in 0 .. Len(input) : ReadStdin(n)
    \/ \E n \in 0 .. Len(wire) : ReadSocket(n)
    \/ WriteSocket \/ \E ok \in BOOLEAN : HalfClose(ok) \/ WriteStdout(ok)
    \/ SocketFails \/ StdinEnds \/ SocketEnds

BridgeSpec == BridgeInit /\ [][BridgeNext]_bridgeVars

-----------------------------------------------------------------------------
(* Properties.                                                             *)

\* Lines as they were: neither side gets a byte that the other did not send, out of order or of a line
\* that was not whole, however the bytes arrive; a line that is too long is not begun; the server is told
\* of the end only when it has everything; and a bridge that reports success has printed all the server
\* ever said, although stdin may have ended long before (read_bounded_frame, forward_stdin, bridge).
BridgeCarries ==
    LET boundary(part, all) == part = <<>> \/ part = all \/ part[Len(part)] = "nl"
    IN  /\ IsPrefix(heard, whole) /\ boundary(heard, whole)
        /\ IsPrefix(out, said) /\ boundary(out, said)
        /\ \A s \in {heard, out} : \A i \in DOMAIN s :
              i + MAX_FRAME_BYTES \in DOMAIN s => "nl" \in ToSet(SubSeq(s, i, i + MAX_FRAME_BYTES))
        /\ half => heard = whole
        /\ bridge = "ok" => gone /\ out = said
=============================================================================
