-------------------------------- MODULE Wire --------------------------------
(***************************************************************************)
(* One connection: a ControllerProxy (in a client or in the manager) that  *)
(* calls, a CommandHandler (in the manager or a controller) that answers,  *)
(* and the framing of src/src/Net/Socket.hpp and SocketIstream.hpp between *)
(* them.  A message is a sequence of lines, each sent with "\r\n"; an      *)
(* empty line ends it.  The reader takes one character at a time.          *)
(*                                                                         *)
(* A line that is not empty is one character here: reading acts alike on   *)
(* all characters but "\n", and "\r" is dropped on arrival (peek).         *)
(***************************************************************************)
EXTENDS Sequences

CONSTANTS
  Texts,     \* lines that are not empty
  Requests,  \* messages the proxy may send
  Replies,   \* messages the handler may answer
  None       \* nothing read yet

VARIABLES
  step,    \* of each end: "idle" (the proxy between calls), "write", "read"
  out,     \* of each end: lines it has still to write before send()
  wrote,   \* of each end: its socket's writeCount is not 0
  wire,    \* characters on their way to each end
  reader,  \* of each end: its SocketStreambuf and what std::getline has made
  said,    \* of each end: the last message it decided to send
  heard    \* of each end: the message it read in this call

vars == <<step, out, wrote, wire, reader, said, heard>>

Ends == {"proxy", "handler"}
Peer == [proxy |-> "handler", handler |-> "proxy"]

Newline == "\n"
Chars   == Texts \cup {Newline}
Lines   == Texts \cup {""}

ASSUME WireAssumption ==
  /\ Newline \notin Texts /\ "" \notin Texts /\ None \notin Chars \cup Seq(Lines)
  /\ Requests \subseteq Seq(Lines) /\ Replies \subseteq Seq(Lines)

\* Socket::write(d): the characters of one line.
Written(d) == IF d = "" THEN <<Newline>> ELSE <<d, Newline>>

\* A SocketStreambuf before its constructor has peeked twice.
NewReader == [curr |-> None, next |-> None, line |-> "", lines |-> <<>>]

\* What both ends make of a message: the reply of one empty line, which a
\* controller sends for an empty listing, is the empty message.
Shown(m) == IF m = <<"">> THEN <<>> ELSE m

Init ==
  /\ step = [proxy |-> "idle", handler |-> "read"]
  /\ out = [e \in Ends |-> <<>>] /\ wire = [e \in Ends |-> <<>>]
  /\ wrote = [e \in Ends |-> FALSE]
  /\ reader = [e \in Ends |-> NewReader]
  /\ said = [e \in Ends |-> <<>>] /\ heard = [e \in Ends |-> None]

\* The end e decides on a message and starts writing it.
Say(e, m) ==
  /\ step' = [step EXCEPT ![e] = "write"]
  /\ out' = [out EXCEPT ![e] = m]
  /\ said' = [said EXCEPT ![e] = m]

-----------------------------------------------------------------------------
\* A method of ControllerProxy begins.
Call ==
  /\ step["proxy"] = "idle"
  /\ \E m \in Requests : Say("proxy", m)
  /\ heard' = [e \in Ends |-> None]
  /\ UNCHANGED <<wrote, wire, reader>>

\* Socket::write, once per line.
Write(e) ==
  /\ step[e] = "write" /\ out[e] # <<>>
  /\ wire' = [wire EXCEPT ![Peer[e]] = @ \o Written(Head(out[e]))]
  /\ out' = [out EXCEPT ![e] = Tail(@)]
  /\ wrote' = [wrote EXCEPT ![e] = TRUE]
  /\ UNCHANGED <<step, reader, said, heard>>

\* Slips: a second empty line always, or none, and a handler that leaves its
\* loop.
SendTwice(e) ==
  /\ step[e] = "write" /\ out[e] = <<>>
  /\ wire' = [wire EXCEPT ![Peer[e]] = @ \o <<Newline, Newline>>]
  /\ wrote' = [wrote EXCEPT ![e] = TRUE]
  /\ step' = [step EXCEPT ![e] = "read"]
  /\ reader' = [reader EXCEPT ![e] = NewReader]
  /\ UNCHANGED <<out, said, heard>>
SendNothing(e) ==
  /\ step[e] = "write" /\ out[e] = <<>>
  /\ step' = [step EXCEPT ![e] = "read"]
  /\ reader' = [reader EXCEPT ![e] = NewReader]
  /\ UNCHANGED <<wire, wrote, out, said, heard>>
SendAndLeave(e) ==
  /\ step[e] = "write" /\ out[e] = <<>>
  /\ wire' = [wire EXCEPT ![Peer[e]] = @ \o <<Newline>>]
  /\ wrote' = [wrote EXCEPT ![e] = TRUE]
  /\ step' = [step EXCEPT ![e] = IF e = "proxy" THEN "read" ELSE "idle"]
  /\ reader' = [reader EXCEPT ![e] = NewReader]
  /\ UNCHANGED <<out, said, heard>>

\* Socket::send, then Socket::read on a new SocketIstream.  writeCount is
\* never reset: only the first message of a socket can be sent as empty.
Send(e) ==
  /\ step[e] = "write" /\ out[e] = <<>>
  /\ wire' = [wire EXCEPT ![Peer[e]] =
                @ \o (IF wrote[e] THEN <<Newline>> ELSE <<Newline, Newline>>)]
  /\ wrote' = [wrote EXCEPT ![e] = TRUE]
  /\ step' = [step EXCEPT ![e] = "read"]
  /\ reader' = [reader EXCEPT ![e] = NewReader]
  /\ UNCHANGED <<out, said, heard>>

\* A slip: the lookahead is not looked at.
IsEOSWithoutLookahead(e) == reader[e].curr = Newline

IsEOS(e) == reader[e].curr = Newline /\ reader[e].next = Newline

\* peek() returns a character: the constructor takes two, and after that each
\* character that std::getline takes from the buffer (underflow, then uflow)
\* makes room for one.
Peek(e) ==
  /\ step[e] = "read" /\ ~IsEOS(e) /\ wire[e] # <<>>
  /\ wire' = [wire EXCEPT ![e] = Tail(@)]
  /\ reader' = [reader EXCEPT ![e] =
       [curr  |-> @.next,
        next  |-> Head(wire[e]),
        line  |-> IF @.curr \in Texts THEN @.curr ELSE "",
        lines |-> IF @.curr = Newline THEN Append(@.lines, @.line) ELSE @.lines]]
  /\ UNCHANGED <<step, out, wrote, said, heard>>

\* The lines std::getline has returned at the end of the message.
Message(e) ==
  IF reader[e].line = "" THEN reader[e].lines
  ELSE Append(reader[e].lines, reader[e].line)

\* The handler has read a request and picks an answer.
Answer ==
  /\ step["handler"] = "read" /\ IsEOS("handler")
  /\ heard' = [heard EXCEPT !["handler"] = Message("handler")]
  /\ \E m \in Replies : Say("handler", m)
  /\ UNCHANGED <<wrote, wire, reader>>

\* The method of ControllerProxy returns what it read.
Return ==
  /\ step["proxy"] = "read" /\ IsEOS("proxy")
  /\ heard' = [heard EXCEPT !["proxy"] = Message("proxy")]
  /\ step' = [step EXCEPT !["proxy"] = "idle"]
  /\ UNCHANGED <<out, wrote, wire, reader, said>>

-----------------------------------------------------------------------------
Transfer(e) == Write(e) \/ Send(e) \/ Peek(e)

Next == Call \/ Answer \/ Return \/ \E e \in Ends : Transfer(e)

Spec == Init /\ [][Next]_vars

\* Both processes run and TCP delivers; nobody has to call.
FairSpec ==
  Spec /\ WF_vars(Answer) /\ WF_vars(Return) /\ \A e \in Ends : WF_vars(Transfer(e))
-----------------------------------------------------------------------------
(* Properties *)

TypeOK ==
  /\ step["proxy"] \in {"idle", "write", "read"} /\ step["handler"] \in {"write", "read"}
  /\ out \in [Ends -> Seq(Lines)] /\ wire \in [Ends -> Seq(Chars)]
  /\ wrote \in [Ends -> BOOLEAN]
  /\ reader \in [Ends -> [curr : Chars \cup {None}, next : Chars \cup {None},
                          line : Lines, lines : Seq(Lines)]]
  /\ said \in [Ends -> Seq(Lines)] /\ heard \in [Ends -> Seq(Lines) \cup {None}]

\* Between calls no character is left on the way or in a buffer: what one
\* call leaves behind, the next one takes for its own (SocketStreambuf reads
\* ahead by one character and is thrown away with every message).
NothingLeft ==
  step["proxy"] = "idle" =>
    /\ \A e \in Ends : wire[e] = <<>>
    /\ step["handler"] = "read" /\ reader["handler"] = NewReader

\* The connection implements calls: the handler reads the lines that the proxy
\* wrote, the proxy reads those of the answer, in turn, whatever the order in
\* which the characters are written and read.
Calls == INSTANCE Rpc WITH
  Answers <- {Shown(m) : m \in Replies} \cup {<<>>},
  Requests <- Requests \cup {<<>>},
  turn    <- IF step["proxy"] = "idle" THEN "idle"
             ELSE IF heard["handler"] = None THEN "asked" ELSE "answered",
  request <- IF heard["handler"] = None THEN said["proxy"] ELSE heard["handler"],
  answer  <- IF heard["proxy"] = None THEN Shown(said["handler"]) ELSE heard["proxy"]
ImplementsRpc == Calls!Spec

\* In a call the ends never wait for each other: one of them is writing, has
\* read its whole message, or has characters to read.
NeitherWaits ==
  step["proxy"] # "idle" =>
    \E e \in Ends : \/ step[e] = "write"
                    \/ step[e] = "read" /\ (IsEOS(e) \/ wire[e] # <<>>)

\* Every call returns: neither end waits for a character that the other will
\* not send.
CallsReturn == step["proxy"] # "idle" ~> step["proxy"] = "idle"
=============================================================================
