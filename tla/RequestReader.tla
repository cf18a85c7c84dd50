--------------------------- MODULE RequestReader ---------------------------
(***************************************************************************)
(* read_http_request of src/src/server.rs: one request from a socket that  *)
(* delivers it in pieces, late, or not to its end.                         *)
(*                                                                         *)
(* What the client sends is a sequence of pieces [is, value]: the lines of *)
(* the header ("request", "malformed", "badpath", "length", "badlength",   *)
(* "json", "text", "nocolon"), the empty line that ends it ("end"), and    *)
(* the bytes of the body ("byte").  The header's limit counts pieces.      *)
(***************************************************************************)
EXTENDS Integers, SequencesExt

CONSTANTS
  MAX_HEADER_BYTES,
  MAX_BODY_BYTES

ASSUME ReaderAssumption == MAX_HEADER_BYTES \in Nat /\ MAX_BODY_BYTES \in Nat

Pieces ==
  [is : {"request", "malformed", "badpath", "length", "badlength", "json", "text", "nocolon",
         "end", "byte"},
   value : Nat]

VARIABLES
  sent,     \* history: all the client sends
  unread,   \* what of it the server has not read
  header,   \* header_bytes
  body,
  socket,   \* history: "open", or how the last read failed
  status    \* 0 while reading, 200 for a request, else the refusal

readerVars == <<sent, unread, header, body, socket, status>>

InitReader(pieces) ==
  /\ sent = pieces /\ unread = pieces
  /\ header = <<>> /\ body = <<>>
  /\ socket = "open"
  /\ status = 0

Lines(kind) == {i \in DOMAIN header : header[i].is = kind}
HeaderRead == Lines("end") # {}

\* Slip: the first Content-Length counts.
FirstContentLength == IF Lines("length") = {} THEN 0 ELSE header[Min(Lines("length"))].value

\* The last Content-Length counts; without one the body is empty.
ContentLength == IF Lines("length") = {} THEN 0 ELSE header[Max(Lines("length"))].value

\* The last Content-Type counts.
JsonContent ==
  \E i \in Lines("json") : \A j \in Lines("text") : j < i

\* What is made of a header that has been read to its end.
HeaderStatus ==
  IF header[1].is # "request" \/ Lines("nocolon") \cup Lines("badlength") # {} THEN 400
  ELSE IF ContentLength > MAX_BODY_BYTES THEN 413
  ELSE IF ContentLength = 0 THEN 200
  ELSE 0

Reading == status = 0

\* One byte more of the header; its end is seen before its length is.
ReadHeader ==
  /\ Reading /\ ~HeaderRead
  /\ unread # <<>>
  /\ header' = Append(header, Head(unread))
  /\ unread' = Tail(unread)
  /\ status' = IF Head(unread).is = "end" THEN HeaderStatus'
               ELSE IF Len(header') > MAX_HEADER_BYTES THEN 413 ELSE 0
  /\ UNCHANGED <<sent, body, socket>>

\* read_exact takes what has arrived until it has all bytes of the body.
ReadBody ==
  /\ Reading /\ HeaderRead
  /\ unread # <<>>
  /\ body' = Append(body, Head(unread))
  /\ unread' = Tail(unread)
  /\ status' = IF Len(body') = ContentLength THEN 200 ELSE 0
  /\ UNCHANGED <<sent, header, socket>>

\* Slip: a read that timed out is tried again.
ReadTimeoutRetries ==
  /\ Reading
  /\ socket' \in {"open", "silent"} \ {socket}
  /\ UNCHANGED <<sent, unread, header, body, status>>

\* The client is silent for IO_TIMEOUT (TimedOut or WouldBlock).
ReadTimeout ==
  /\ Reading
  /\ socket' = "silent"
  /\ status' = 408
  /\ UNCHANGED <<sent, unread, header, body>>

\* The client has closed its side after what it sent, or the read fails.
ReadFails ==
  /\ Reading
  /\ socket' \in {"failed"} \cup (IF unread = <<>> THEN {"closed"} ELSE {})
  /\ status' = 400
  /\ UNCHANGED <<sent, unread, header, body>>

ReadRequest == ReadHeader \/ ReadBody \/ ReadTimeout \/ ReadFails

-----------------------------------------------------------------------------
(* Properties. *)

Ends == {i \in DOMAIN sent : sent[i].is = "end"}
HeaderOfSent == SubSeq(sent, 1, Min(Ends))
Declares(n) == \E i \in DOMAIN HeaderOfSent :
                 /\ sent[i] = [is |-> "length", value |-> n]
                 /\ \A j \in i + 1 .. Len(HeaderOfSent) : sent[j].is # "length"

(***************************************************************************)
(* However the pieces arrive, a request that is handled is what the client *)
(* sent: its whole header, and as much of the body as it declared, from    *)
(* the start; and a refusal has its cause in what was sent or in a read    *)
(* that failed.                                                            *)
(***************************************************************************)
HandledAsSent ==
  /\ status = 200 =>
       /\ Ends # {}
       /\ header = HeaderOfSent
       /\ body = SubSeq(sent, Len(header) + 1, Len(header) + Len(body))
       /\ Declares(Len(body)) \/ (body = <<>> /\ \A n \in Nat \cap 1 .. Len(sent) : ~Declares(n))
       /\ Len(header) <= MAX_HEADER_BYTES + 1 /\ Len(body) <= MAX_BODY_BYTES
  /\ status = 408 => socket = "silent"
  /\ status = 413 => \/ Ends = {} \/ Min(Ends) > MAX_HEADER_BYTES
                     \/ \E i \in DOMAIN sent : sent[i].is = "length" /\ sent[i].value > MAX_BODY_BYTES
  /\ status = 400 =>
       \/ socket \in {"closed", "failed"}
       \/ sent[1].is # "request"
       \/ \E i \in DOMAIN sent : sent[i].is \in {"nocolon", "badlength"}
=============================================================================
