----------------------------- MODULE WireProofs -----------------------------
(***************************************************************************)
(* Proofs about Wire: its types, and that the framing of messages works    *)
(* for messages of any number of lines, if no line but that of the empty   *)
(* listing is empty, in whatever order characters are written and read.    *)
(***************************************************************************)
EXTENDS Wire, Integers, SequenceTheorems, TLAPS

\* A line without characters, and a controller's listing of nothing.
Nil       == ""
NoRecords == <<"">>

\* Messages as the code sends them: at least one line, and none empty.
Proper(m) == m # <<>> /\ \A i \in 1 .. Len(m) : m[i] \in Texts

\* The requests of a proxy, and the answers of a controller, which sends one
\* empty line for a listing without records.
Framed ==
  /\ \A m \in Requests : Proper(m)
  /\ \A m \in Replies : Proper(m) \/ m = NoRecords

Sayable(m) == m \in Seq(Lines) /\ (Proper(m) \/ m = NoRecords)

\* The characters of a message, to the end that send() marks.
Size(m) == IF m = NoRecords THEN 2 ELSE 2 * Len(m) + 1
Char(m, i) == IF m # NoRecords /\ i < Size(m) /\ i % 2 = 1 THEN m[(i + 1) \div 2] ELSE Newline

\* A SocketStreambuf, and std::getline, after r characters of a message.
ReaderAt(m, r) ==
  [curr  |-> IF r < 2 THEN None ELSE Char(m, r - 1),
   next  |-> IF r < 1 THEN None ELSE Char(m, r),
   line  |-> IF r >= 3 /\ Char(m, r - 2) # Newline THEN Char(m, r - 2) ELSE Nil,
   lines |-> SubSeq(m, 1, (r - 2) \div 2)]

\* Of e's message m the first w characters are written, and r are read.
Flow(e, m, w, r) ==
  /\ r <= w /\ Len(wire[Peer[e]]) = w - r
  /\ \A i \in 1 .. w - r : wire[Peer[e]][i] = Char(m, r + i)
  /\ reader[Peer[e]] = ReaderAt(m, r)

\* The end e is writing m, or has sent it and waits for its own answer.
Writing(e, m, w) ==
  /\ step[e] = "write" /\ Len(out[e]) <= Len(m)
  /\ \A i \in 1 .. Len(out[e]) : out[e][i] = m[Len(m) - Len(out[e]) + i]
  /\ w = IF m = NoRecords THEN 1 - Len(out[e]) ELSE 2 * (Len(m) - Len(out[e]))
  /\ w > 0 => wrote[e]
Sent(e, m, w) ==
  /\ step[e] = "read" /\ out[e] = <<>> /\ w = Size(m)
  /\ reader[e] = NewReader

\* Its last message is on its way from e, and nothing from the other end.
Passing(e, m, w, r) ==
  /\ said[e] = m /\ Sayable(m) /\ w \in 0 .. Size(m) /\ r \in 0 .. Size(m)
  /\ Flow(e, m, w, r)
  /\ Writing(e, m, w) \/ Sent(e, m, w)
  /\ step[Peer[e]] = "read" /\ out[Peer[e]] = <<>> /\ wire[e] = <<>>
OneWay(e) ==
  \E m \in Requests \cup Replies : \E w, r \in 0 .. Size(m) : Passing(e, m, w, r)

Idle ==
  /\ step["proxy"] = "idle" /\ step["handler"] = "read"
  /\ \A e \in Ends : wire[e] = <<>> /\ out[e] = <<>>
  /\ reader["handler"] = NewReader
  /\ heard["proxy"] = None <=> heard["handler"] = None
  /\ heard["handler"] # None =>
       heard["handler"] = said["proxy"] /\ heard["proxy"] = Shown(said["handler"])

Asking ==
  /\ OneWay("proxy") /\ heard["handler"] = None /\ heard["proxy"] = None
  /\ said["proxy"] \in Requests

Answering ==
  /\ OneWay("handler") /\ heard["handler"] = said["proxy"] /\ heard["proxy"] = None

Types == TypeOK /\ DOMAIN step = Ends

\* A connection is between calls, carries a request, or carries an answer.
WireInv == Types /\ (Idle \/ Asking \/ Answering)

-----------------------------------------------------------------------------
(* Types *)

\* The two ends.
LEMMA EndsAre ==
  /\ Peer["proxy"] = "handler" /\ Peer["handler"] = "proxy"
  /\ \A e \in Ends : Peer[e] \in Ends /\ Peer[e] # e /\ Peer[Peer[e]] = e
  /\ \A e, d \in Ends : d = e \/ d = Peer[e]
  BY DEF Peer, Ends

\* Characters of a line.
LEMMA WrittenType ==
  ASSUME NEW d \in Lines
  PROVE  Written(d) \in Seq(Chars)
  <1>1. Newline \in Chars
    BY DEF Chars
  <1>2. CASE d = ""
    <2>1. Written(d) = <<Newline>>
      BY <1>2 DEF Written
    <2>2. QED
      BY <1>1, <2>1
  <1>3. CASE d # ""
    <2>1. d \in Chars
      BY <1>3 DEF Lines, Chars
    <2>2. Written(d) = <<d, Newline>>
      BY <1>3 DEF Written
    <2>3. QED
      BY <1>1, <2>1, <2>2
  <1>4. QED
    BY <1>2, <1>3

\* The first of a sequence, the rest, and one more.
LEMMA HeadTail ==
  ASSUME NEW S, NEW s \in Seq(S), s # <<>>
  PROVE  Head(s) \in S /\ Tail(s) \in Seq(S)
  BY HeadTailProperties

\* The types hold at the start.
LEMMA TypesInit == Init => Types
  <1> SUFFICES ASSUME Init PROVE Types
    OBVIOUS
  <1>1. NewReader \in [curr : Chars \cup {None}, next : Chars \cup {None},
                       line : Lines, lines : Seq(Lines)]
    BY DEF NewReader, Lines
  <1>2. <<>> \in Seq(Lines) /\ <<>> \in Seq(Chars)
    BY EmptySeq
  <1>3. QED
    BY <1>1, <1>2 DEF Init, Types, TypeOK, Ends

\* An end decides on a message.
LEMMA SayTypes ==
  ASSUME Types, NEW e \in Ends, NEW m \in Seq(Lines), Say(e, m), UNCHANGED <<wrote, wire, reader>>,
         heard' \in [Ends -> Seq(Lines) \cup {None}]
  PROVE  Types'
  <1>1. /\ DOMAIN step = Ends /\ out \in [Ends -> Seq(Lines)] /\ said \in [Ends -> Seq(Lines)]
        /\ step["proxy"] \in {"idle", "write", "read"} /\ step["handler"] \in {"write", "read"}
    BY DEF Types, TypeOK
  <1>2. out' \in [Ends -> Seq(Lines)] /\ said' \in [Ends -> Seq(Lines)]
    BY <1>1 DEF Say
  <1>3. DOMAIN step' = Ends /\ step'["proxy"] \in {"idle", "write", "read"}
        /\ step'["handler"] \in {"write", "read"}
    BY <1>1 DEF Say
  <1>4. QED
    BY <1>2, <1>3 DEF Types, TypeOK

\* Every step keeps the types.
LEMMA TypesStep == Types /\ [Next]_vars => Types'
  <1> SUFFICES ASSUME Types, [Next]_vars PROVE Types'
    OBVIOUS
  <1> DEFINE Reader == [curr : Chars \cup {None}, next : Chars \cup {None},
                        line : Lines, lines : Seq(Lines)]
  <1>0. /\ DOMAIN step = Ends
        /\ step["proxy"] \in {"idle", "write", "read"} /\ step["handler"] \in {"write", "read"}
        /\ out \in [Ends -> Seq(Lines)] /\ wire \in [Ends -> Seq(Chars)]
        /\ wrote \in [Ends -> BOOLEAN] /\ reader \in [Ends -> Reader]
        /\ said \in [Ends -> Seq(Lines)] /\ heard \in [Ends -> Seq(Lines) \cup {None}]
        /\ "proxy" \in Ends /\ "handler" \in Ends
    BY DEF Types, TypeOK, Ends
  <1>n. NewReader \in Reader
    <2>1. <<>> \in Seq(Lines)
      BY EmptySeq
    <2>2. QED
      BY <2>1 DEF NewReader, Lines
  <1>m. ASSUME NEW e \in Ends PROVE Message(e) \in Seq(Lines)
    <2>1. reader[e].line \in Lines /\ reader[e].lines \in Seq(Lines)
      BY <1>0
    <2>2. QED
      BY <2>1, AppendProperties DEF Message
  <1>1. CASE Call
    <2>1. PICK m \in Requests : Say("proxy", m)
      BY <1>1 DEF Call
    <2>2. m \in Seq(Lines)
      BY WireAssumption
    <2>3. heard' \in [Ends -> Seq(Lines) \cup {None}] /\ UNCHANGED <<wrote, wire, reader>>
      BY <1>1 DEF Call
    <2>4. QED
      BY <1>0, <2>1, <2>2, <2>3, SayTypes
  <1>2. ASSUME NEW e \in Ends, Write(e) PROVE Types'
    <2>1. Head(out[e]) \in Lines /\ Tail(out[e]) \in Seq(Lines)
      BY <1>0, <1>2, HeadTail DEF Write
    <2>2. wire[Peer[e]] \o Written(Head(out[e])) \in Seq(Chars)
      BY <1>0, <2>1, EndsAre, WrittenType, ConcatProperties
    <2>3. wire' \in [Ends -> Seq(Chars)] /\ out' \in [Ends -> Seq(Lines)]
      BY <1>0, <1>2, <2>1, <2>2 DEF Write
    <2>4. wrote' \in [Ends -> BOOLEAN]
      BY <1>0, <1>2 DEF Write
    <2>5. QED
      BY <1>0, <1>2, <2>3, <2>4 DEF Write, Types, TypeOK
  <1>3. ASSUME NEW e \in Ends, Send(e) PROVE Types'
    <2>1. <<Newline>> \in Seq(Chars) /\ <<Newline, Newline>> \in Seq(Chars)
      BY DEF Chars
    <2>2. wire[Peer[e]] \o (IF wrote[e] THEN <<Newline>> ELSE <<Newline, Newline>>) \in Seq(Chars)
      BY <1>0, <2>1, EndsAre, ConcatProperties
    <2>3. wire' \in [Ends -> Seq(Chars)]
      BY <1>0, <1>3, <2>2 DEF Send
    <2>4. reader' \in [Ends -> Reader] /\ wrote' \in [Ends -> BOOLEAN]
      BY <1>0, <1>3, <1>n DEF Send
    <2>5. DOMAIN step' = Ends /\ step'["proxy"] \in {"idle", "write", "read"}
          /\ step'["handler"] \in {"write", "read"}
      BY <1>0, <1>3 DEF Send
    <2>6. QED
      BY <1>0, <1>3, <2>3, <2>4, <2>5 DEF Send, Types, TypeOK
  <1>4. ASSUME NEW e \in Ends, Peek(e) PROVE Types'
    <2>1. Head(wire[e]) \in Chars /\ Tail(wire[e]) \in Seq(Chars)
      BY <1>0, <1>4, HeadTail DEF Peek
    <2>2. reader[e] \in Reader
      BY <1>0
    <2> DEFINE c == reader[e].curr
               line == IF c \in Texts THEN c ELSE ""
               lines == IF c = Newline THEN Append(reader[e].lines, reader[e].line)
                        ELSE reader[e].lines
               new == [curr |-> reader[e].next, next |-> Head(wire[e]),
                       line |-> line, lines |-> lines]
    <2>3. lines \in Seq(Lines)
      BY <2>2, AppendProperties
    <2>4. line \in Lines
      BY DEF Lines
    <2>5. new \in Reader
      BY <2>1, <2>2, <2>3, <2>4
    <2>6. reader' = [reader EXCEPT ![e] = new]
      BY <1>0, <1>4 DEF Peek
    <2>7. reader' \in [Ends -> Reader]
      BY <1>0, <2>5, <2>6
    <2>8. wire' \in [Ends -> Seq(Chars)]
      BY <1>0, <1>4, <2>1 DEF Peek
    <2>9. QED
      BY <1>0, <1>4, <2>7, <2>8 DEF Peek, Types, TypeOK
  <1>5. CASE Answer
    <2>1. PICK m \in Replies : Say("handler", m)
      BY <1>5 DEF Answer
    <2>2. m \in Seq(Lines)
      BY WireAssumption
    <2>3. heard' \in [Ends -> Seq(Lines) \cup {None}] /\ UNCHANGED <<wrote, wire, reader>>
      BY <1>0, <1>5, <1>m DEF Answer
    <2>4. QED
      BY <1>0, <2>1, <2>2, <2>3, SayTypes
  <1>6. CASE Return
    BY <1>0, <1>6, <1>m DEF Return, Types, TypeOK
  <1>7. CASE UNCHANGED vars
    BY <1>0, <1>7 DEF vars, Types, TypeOK
  <1>8. QED
    BY <1>1, <1>2, <1>3, <1>4, <1>5, <1>6, <1>7 DEF Next, Transfer

\* TypeCorrect: what an end writes, reads and makes of it are characters, lines
\* and messages, for all texts, requests and replies.
THEOREM TypeCorrect == Spec => []TypeOK
  <1>1. Types => TypeOK
    BY DEF Types
  <1>2. QED
    BY TypesInit, TypesStep, <1>1, PTL DEF Spec

-----------------------------------------------------------------------------
(* The characters of a message *)

\* A message with a text on each line is not the one empty line.
LEMMA ProperSize ==
  ASSUME NEW m \in Seq(Lines), Proper(m)
  PROVE  m # NoRecords /\ Len(m) \in Nat \ {0} /\ Size(m) = 2 * Len(m) + 1
  <1>1. Len(m) \in Nat \ {0}
    BY EmptySeq DEF Proper
  <1>2. m[1] \in Texts
    BY <1>1 DEF Proper
  <1>3. m # NoRecords
    <2>1. SUFFICES ASSUME m = NoRecords PROVE FALSE
      OBVIOUS
    <2>2. m[1] = ""
      BY <2>1 DEF NoRecords
    <2>3. QED
      BY <1>2, <2>2, WireAssumption
  <1>4. QED
    BY <1>1, <1>3 DEF Size

\* Texts are at odd places, and all other characters end a line.
LEMMA CharIs ==
  ASSUME NEW m \in Seq(Lines), Proper(m)
  PROVE  /\ \A j \in 1 .. Len(m) : Char(m, 2 * j - 1) = m[j] /\ m[j] \in Texts
         /\ \A j \in 1 .. Len(m) : Char(m, 2 * j) = Newline
         /\ Char(m, Size(m)) = Newline
  <1>1. m # NoRecords /\ Len(m) \in Nat \ {0} /\ Size(m) = 2 * Len(m) + 1
    BY ProperSize
  <1>2. ASSUME NEW j \in 1 .. Len(m)
        PROVE  Char(m, 2 * j - 1) = m[j] /\ m[j] \in Texts /\ Char(m, 2 * j) = Newline
    <2>1. 2 * j - 1 < Size(m) /\ (2 * j - 1) % 2 = 1 /\ ((2 * j - 1) + 1) \div 2 = j
      BY <1>1
    <2>2. (2 * j) % 2 = 0
      OBVIOUS
    <2>3. QED
      BY <1>1, <2>1, <2>2 DEF Char, Proper
  <1>3. Char(m, Size(m)) = Newline
    BY <1>1 DEF Char
  <1>4. QED
    BY <1>2, <1>3

\* The empty listing is two ends of lines.
LEMMA CharEmpty ==
  ASSUME NEW m, m = NoRecords
  PROVE  Size(m) = 2 /\ \A i : Char(m, i) = Newline
  BY DEF Size, Char

\* A place in a message is that of a text, of the end of a line, or the last.
LEMMA Places ==
  ASSUME NEW m \in Seq(Lines), Proper(m), NEW i \in 1 .. Size(m)
  PROVE  i = Size(m) \/ \E j \in 1 .. Len(m) : i = 2 * j - 1 \/ i = 2 * j
  <1>1. Len(m) \in Nat \ {0} /\ Size(m) = 2 * Len(m) + 1
    BY ProperSize
  <1>2. SUFFICES ASSUME i <= 2 * Len(m) PROVE \E j \in 1 .. Len(m) : i = 2 * j - 1 \/ i = 2 * j
    BY <1>1
  <1>3. /\ (i + 1) \div 2 \in 1 .. Len(m)
        /\ i = 2 * ((i + 1) \div 2) - 1 \/ i = 2 * ((i + 1) \div 2)
    BY <1>1, <1>2
  <1>4. QED
    BY <1>3

\* Characters are texts or the end of a line, and never None.
LEMMA CharType ==
  ASSUME NEW m \in Seq(Lines), Sayable(m), NEW i \in 1 .. Size(m)
  PROVE  Char(m, i) \in Texts \cup {Newline} /\ Char(m, i) # None
  <1>1. Char(m, i) \in Texts \cup {Newline}
    <2>1. CASE Proper(m)
      <3>1. Char(m, Size(m)) = Newline
        BY <2>1, CharIs
      <3>2. ASSUME NEW j \in 1 .. Len(m), i = 2 * j - 1 \/ i = 2 * j
            PROVE  Char(m, i) \in Texts \cup {Newline}
        BY <2>1, <3>2, CharIs
      <3>3. i = Size(m) \/ \E j \in 1 .. Len(m) : i = 2 * j - 1 \/ i = 2 * j
        BY <2>1, Places
      <3>4. QED
        BY <3>1, <3>2, <3>3
    <2>2. CASE m = NoRecords
      BY <2>2, CharEmpty
    <2>3. QED
      BY <2>1, <2>2 DEF Sayable
  <1>2. QED
    BY <1>1, WireAssumption DEF Chars

\* Two ends of lines follow each other only at the end of a message.
LEMMA EndsOnce ==
  ASSUME NEW m \in Seq(Lines), Sayable(m), NEW r \in 0 .. Size(m),
         ReaderAt(m, r).curr = Newline, ReaderAt(m, r).next = Newline
  PROVE  r = Size(m)
  <1>1. None # Newline
    BY WireAssumption DEF Chars
  <1>2. Size(m) \in Nat
    BY LenProperties DEF Size
  <1>3. r >= 2 /\ Char(m, r - 1) = Newline /\ Char(m, r) = Newline
    <2>1. ReaderAt(m, r).curr = IF r < 2 THEN None ELSE Char(m, r - 1)
      BY DEF ReaderAt
    <2>2. ReaderAt(m, r).next = IF r < 1 THEN None ELSE Char(m, r)
      BY DEF ReaderAt
    <2>3. QED
      BY <1>1, <1>2, <2>1, <2>2
  <1>4. CASE Proper(m)
    <2>1. SUFFICES ASSUME r # Size(m) PROVE FALSE
      OBVIOUS
    <2>2. r \in 1 .. Size(m) /\ r - 1 \in 1 .. Size(m)
      BY <1>2, <1>3
    <2>3. PICK j \in 1 .. Len(m) : r = 2 * j - 1 \/ r = 2 * j
      BY <1>4, <2>1, <2>2, Places
    <2>4. Char(m, 2 * j - 1) \in Texts
      BY <1>4, CharIs
    <2>5. r = 2 * j - 1 \/ r - 1 = 2 * j - 1
      BY <2>3
    <2>6. QED
      BY <1>3, <2>4, <2>5, WireAssumption
  <1>5. CASE m = NoRecords
    BY <1>3, <1>5, CharEmpty
  <1>6. QED
    BY <1>4, <1>5 DEF Sayable

\* A reader that has read a message to its end sees the end.
LEMMA ReadToEnd ==
  ASSUME NEW m \in Seq(Lines), Sayable(m), NEW e, reader[e] = ReaderAt(m, Size(m))
  PROVE  IsEOS(e)
  <1>1. Size(m) \in Nat /\ Size(m) >= 2
        /\ Char(m, Size(m) - 1) = Newline /\ Char(m, Size(m)) = Newline
    <2>1. CASE Proper(m)
      <3>1. Len(m) \in Nat \ {0} /\ Size(m) = 2 * Len(m) + 1
        BY <2>1, ProperSize
      <3>2. Char(m, 2 * Len(m)) = Newline /\ Char(m, Size(m)) = Newline
        BY <2>1, <3>1, CharIs
      <3>3. Size(m) - 1 = 2 * Len(m)
        BY <3>1
      <3>4. QED
        BY <3>1, <3>2, <3>3
    <2>2. CASE m = NoRecords
      BY <2>2, CharEmpty
    <2>3. QED
      BY <2>1, <2>2 DEF Sayable
  <1>2. ReaderAt(m, Size(m)).curr = Newline /\ ReaderAt(m, Size(m)).next = Newline
    BY <1>1 DEF ReaderAt
  <1>3. QED
    BY <1>2 DEF IsEOS

\* The first j lines are the first j - 1 and line j.
LEMMA OneLineMore ==
  ASSUME NEW m \in Seq(Lines), NEW j \in 1 .. Len(m)
  PROVE  /\ Append(SubSeq(m, 1, j - 1), m[j]) = SubSeq(m, 1, j)
         /\ j = Len(m) => Append(SubSeq(m, 1, j - 1), m[j]) = m
  <1>1. Len(m) \in Nat /\ \A i \in 1 .. Len(m) : m[i] \in Lines
    BY LenProperties, ElementOfSeq
  <1>2. \A i \in 1 .. j - 1 : m[i] \in Lines
    BY <1>1
  <1>3. SubSeq(m, 1, j - 1) \in Seq(Lines) /\ m[j] \in Lines
    BY <1>1, <1>2, SubSeqProperties
  <1>4. Append(SubSeq(m, 1, j - 1), m[j]) = SubSeq(m, 1, j - 1) \o <<m[j]>>
    BY <1>3, AppendIsConcat
  <1>5. 1 \in 1 .. Len(m) /\ j \in 1 .. Len(m)
    BY <1>1
  <1>6. SubSeq(m, 1, j) = SubSeq(m, 1, j - 1) \o <<m[j]>>
    BY <1>5, SubSeqRecursiveSecond
  <1>7. SubSeq(m, 1, Len(m)) = m
    BY SubSeqFull
  <1>8. QED
    BY <1>4, <1>6, <1>7

\* The parts of a reader.
LEMMA ReaderParts ==
  ASSUME NEW m, NEW r
  PROVE  /\ ReaderAt(m, r).curr = IF r < 2 THEN None ELSE Char(m, r - 1)
         /\ ReaderAt(m, r).next = IF r < 1 THEN None ELSE Char(m, r)
         /\ ReaderAt(m, r).line =
              IF r >= 3 /\ Char(m, r - 2) # Newline THEN Char(m, r - 2) ELSE Nil
         /\ ReaderAt(m, r).lines = SubSeq(m, 1, (r - 2) \div 2)
         /\ ReaderAt(m, r) =
              [curr |-> ReaderAt(m, r).curr, next |-> ReaderAt(m, r).next,
               line |-> ReaderAt(m, r).line, lines |-> ReaderAt(m, r).lines]
  BY DEF ReaderAt

\* What std::getline has returned.
LEMMA Returned ==
  ASSUME NEW e
  PROVE  Message(e) = IF reader[e].line = Nil THEN reader[e].lines
                      ELSE Append(reader[e].lines, reader[e].line)
  BY DEF Message, Nil

\* At the end of a message its reader has all of its lines.
LEMMA WholeMessage ==
  ASSUME NEW m \in Seq(Lines), Sayable(m), NEW e \in Ends, reader[e] = ReaderAt(m, Size(m))
  PROVE  Message(e) = Shown(m)
  <1> DEFINE L == Len(m)
  <1>1. CASE Proper(m)
    <2>1. m # NoRecords /\ L \in Nat \ {0} /\ Size(m) = 2 * L + 1
      BY <1>1, ProperSize
    <2>2. Char(m, Size(m) - 2) = m[L] /\ m[L] \in Texts
      <3>1. Size(m) - 2 = 2 * L - 1 /\ L \in 1 .. L
        BY <2>1
      <3>2. QED
        BY <1>1, <3>1, CharIs
    <2>3. m[L] # Newline /\ m[L] # Nil
      BY <2>2, WireAssumption DEF Nil
    <2>4. (Size(m) - 2) \div 2 = L - 1 /\ Size(m) >= 3
      BY <2>1
    <2>5. reader[e].line = m[L] /\ reader[e].lines = SubSeq(m, 1, L - 1)
      BY <2>2, <2>3, <2>4, ReaderParts
    <2>6. Message(e) = Append(SubSeq(m, 1, L - 1), m[L])
      BY <2>3, <2>5, Returned
    <2>7. Append(SubSeq(m, 1, L - 1), m[L]) = m
      BY <2>1, OneLineMore
    <2>8. QED
      BY <2>1, <2>6, <2>7 DEF Shown, NoRecords
  <1>2. CASE m = NoRecords
    <2>1. Size(m) = 2
      BY <1>2, CharEmpty
    <2>2. reader[e].line = Nil /\ reader[e].lines = SubSeq(m, 1, 0)
      <3>1. (2 - 2) \div 2 = 0 /\ ~(2 >= 3)
        OBVIOUS
      <3>2. QED
        BY <2>1, <3>1, ReaderParts
    <2>3. SubSeq(m, 1, 0) = <<>>
      BY SubSeqEmpty
    <2>4. Message(e) = <<>>
      BY <2>2, <2>3, Returned
    <2>5. QED
      BY <1>2, <2>4 DEF Shown, NoRecords
  <1>3. QED
    BY <1>1, <1>2 DEF Sayable

\* A reader that has read nothing.
LEMMA NewReaderIs ==
  NewReader = [curr |-> None, next |-> None, line |-> Nil, lines |-> <<>>]
  BY DEF NewReader, Nil

\* A reader starts as its constructor leaves it.
LEMMA ReaderStarts ==
  ASSUME NEW m
  PROVE  ReaderAt(m, 0) = NewReader
  <1>1. (0 - 2) \div 2 = -1
    OBVIOUS
  <1>2. SubSeq(m, 1, -1) = <<>>
    BY SubSeqEmpty
  <1>3. /\ ReaderAt(m, 0).curr = None /\ ReaderAt(m, 0).next = None
        /\ ReaderAt(m, 0).line = Nil /\ ReaderAt(m, 0).lines = <<>>
    BY <1>1, <1>2, ReaderParts
  <1>4. QED
    BY <1>3, ReaderParts, NewReaderIs

\* A reader takes one more character.
LEMMA ReaderNext ==
  ASSUME NEW m \in Seq(Lines), Sayable(m), NEW r \in 0 .. Size(m) - 1
  PROVE  ReaderAt(m, r + 1) =
           [curr  |-> ReaderAt(m, r).next,
            next  |-> Char(m, r + 1),
            line  |-> IF ReaderAt(m, r).curr \in Texts THEN ReaderAt(m, r).curr ELSE Nil,
            lines |-> IF ReaderAt(m, r).curr = Newline
                      THEN Append(ReaderAt(m, r).lines, ReaderAt(m, r).line)
                      ELSE ReaderAt(m, r).lines]
  <1> DEFINE a == ReaderAt(m, r)
             b == ReaderAt(m, r + 1)
  <1>a. Len(m) \in Nat
    BY LenProperties
  <1>b. Size(m) \in Nat
    BY <1>a DEF Size
  <1>c. Newline \notin Texts /\ None \notin Texts /\ None # Newline
    BY WireAssumption DEF Chars
  <1>0. /\ Size(m) \in Nat /\ r \in Nat /\ Len(m) \in Nat
        /\ Newline \notin Texts /\ None \notin Texts /\ None # Newline
    BY <1>a, <1>b, <1>c
  <1>1. /\ a.curr = IF r < 2 THEN None ELSE Char(m, r - 1)
        /\ a.next = IF r < 1 THEN None ELSE Char(m, r)
        /\ a.line = IF r >= 3 /\ Char(m, r - 2) # Newline THEN Char(m, r - 2) ELSE Nil
        /\ a.lines = SubSeq(m, 1, (r - 2) \div 2)
    BY ReaderParts
  <1>2. /\ b.curr = IF r + 1 < 2 THEN None ELSE Char(m, (r + 1) - 1)
        /\ b.next = IF r + 1 < 1 THEN None ELSE Char(m, r + 1)
        /\ b.line = IF r + 1 >= 3 /\ Char(m, (r + 1) - 2) # Newline
                    THEN Char(m, (r + 1) - 2) ELSE Nil
        /\ b.lines = SubSeq(m, 1, ((r + 1) - 2) \div 2)
        /\ b = [curr |-> b.curr, next |-> b.next, line |-> b.line, lines |-> b.lines]
    BY ReaderParts
  <1> HIDE DEF a, b
  <1>3. (r + 1) - 1 = r /\ (r + 1) - 2 = r - 1 /\ ~(r + 1 < 1)
        /\ (r + 1 < 2 <=> r < 1) /\ (r + 1 >= 3 <=> ~(r < 2))
    BY <1>0
  <1>4. b.curr = a.next /\ b.next = Char(m, r + 1)
    BY <1>1, <1>2, <1>3
  <1>5. b.line = IF a.curr \in Texts THEN a.curr ELSE Nil
    <2>1. CASE r < 2
      BY <1>0, <1>1, <1>2, <1>3, <2>1
    <2>2. CASE ~(r < 2)
      <3>1. r - 1 \in 1 .. Size(m)
        BY <1>0, <2>2
      <3>2. Char(m, r - 1) \in Texts \cup {Newline}
        BY <3>1, CharType
      <3>3. QED
        BY <1>0, <1>1, <1>2, <1>3, <2>2, <3>2
    <2>3. QED
      BY <2>1, <2>2
  <1>6. b.lines = IF a.curr = Newline THEN Append(a.lines, a.line) ELSE a.lines
    <2>0. b.lines = SubSeq(m, 1, (r - 1) \div 2)
      BY <1>2, <1>3
    <2>1. CASE r < 2
      <3>1. a.curr # Newline
        BY <1>0, <1>1, <2>1
      <3>2. (r - 1) \div 2 < 1 /\ (r - 2) \div 2 < 1 /\ (r - 1) \div 2 \in Int /\ (r - 2) \div 2 \in Int
        BY <1>0, <2>1
      <3>3. SubSeq(m, 1, (r - 1) \div 2) = <<>> /\ SubSeq(m, 1, (r - 2) \div 2) = <<>>
        BY <3>2, SubSeqEmpty
      <3>4. QED
        BY <1>1, <2>0, <3>1, <3>3
    <2>2. CASE ~(r < 2)
      <3>1. a.curr = Char(m, r - 1)
        BY <1>1, <2>2
      <3>2. CASE m = NoRecords
        BY <1>0, <2>2, <3>2, CharEmpty
      <3>3. CASE Proper(m)
        <4>1. Size(m) = 2 * Len(m) + 1
          BY <3>3, ProperSize
        <4>2. PICK j \in 1 .. Len(m) : r - 1 = 2 * j - 1 \/ r - 1 = 2 * j
          <5>1. r - 1 \in 1 .. Size(m) /\ r - 1 # Size(m)
            BY <1>0, <2>2
          <5>2. QED
            BY <3>3, <5>1, Places
        <4>3. CASE r - 1 = 2 * j - 1
          <5>1. a.curr \in Texts
            BY <3>1, <3>3, <4>3, CharIs
          <5>2. (r - 1) \div 2 = j - 1 /\ (r - 2) \div 2 = j - 1
            BY <1>0, <4>3
          <5>3. QED
            BY <1>0, <1>1, <2>0, <5>1, <5>2
        <4>4. CASE r - 1 = 2 * j
          <5>1. a.curr = Newline
            BY <3>1, <3>3, <4>4, CharIs
          <5>2. (r - 1) \div 2 = j /\ (r - 2) \div 2 = j - 1 /\ r - 2 = 2 * j - 1 /\ r >= 3
            BY <1>0, <4>4
          <5>3. Char(m, r - 2) = m[j] /\ m[j] \in Texts
            BY <3>3, <5>2, CharIs
          <5>4. a.line = m[j] /\ a.lines = SubSeq(m, 1, j - 1)
            BY <1>0, <1>1, <5>2, <5>3
          <5>5. Append(SubSeq(m, 1, j - 1), m[j]) = SubSeq(m, 1, j)
            BY OneLineMore
          <5>6. QED
            BY <2>0, <5>1, <5>2, <5>4, <5>5
        <4>5. QED
          BY <4>2, <4>3, <4>4
      <3>4. QED
        BY <3>2, <3>3 DEF Sayable
    <2>3. QED
      BY <2>1, <2>2
  <1>7. QED
    BY <1>2, <1>4, <1>5, <1>6 DEF a, b

-----------------------------------------------------------------------------
(* A message on its way *)

\* The types of what is on its way.
LEMMA FlowTypes ==
  ASSUME Types
  PROVE  /\ DOMAIN step = Ends /\ out \in [Ends -> Seq(Lines)] /\ wire \in [Ends -> Seq(Chars)]
         /\ wrote \in [Ends -> BOOLEAN] /\ said \in [Ends -> Seq(Lines)]
         /\ DOMAIN reader = Ends /\ heard \in [Ends -> Seq(Lines) \cup {None}]
         /\ \A e \in Ends : Len(out[e]) \in Nat /\ Len(wire[e]) \in Nat
  <1>1. /\ DOMAIN step = Ends /\ out \in [Ends -> Seq(Lines)] /\ wire \in [Ends -> Seq(Chars)]
        /\ wrote \in [Ends -> BOOLEAN] /\ said \in [Ends -> Seq(Lines)]
        /\ DOMAIN reader = Ends /\ heard \in [Ends -> Seq(Lines) \cup {None}]
    BY DEF Types, TypeOK
  <1>2. ASSUME NEW e \in Ends PROVE Len(out[e]) \in Nat /\ Len(wire[e]) \in Nat
    BY <1>1, LenProperties
  <1>3. QED
    BY <1>1, <1>2

\* The size of a message.
LEMMA SizeType ==
  ASSUME NEW m \in Seq(Lines)
  PROVE  Size(m) \in Nat /\ Len(m) \in Nat
  <1>1. Len(m) \in Nat
    BY LenProperties
  <1>2. QED
    BY <1>1 DEF Size

\* More characters are written, the next ones of the message.
LEMMA FlowMore ==
  ASSUME Types, NEW e \in Ends, NEW m, NEW w \in Nat, NEW r \in Nat, Flow(e, m, w, r),
         NEW s \in Seq(Chars), NEW v, v = w + Len(s),
         \A i \in 1 .. Len(s) : s[i] = Char(m, w + i),
         wire'[Peer[e]] = wire[Peer[e]] \o s, reader'[Peer[e]] = reader[Peer[e]]
  PROVE  Flow(e, m, v, r)'
  <1> DEFINE p == Peer[e]
             t == wire[p]
  <1>1. p \in Ends /\ t \in Seq(Chars)
    BY EndsAre, FlowTypes
  <1>2. wire'[p] = t \o s
    OBVIOUS
  <1>3. /\ r <= w /\ Len(t) = w - r /\ \A i \in 1 .. w - r : t[i] = Char(m, r + i)
        /\ reader[p] = ReaderAt(m, r)
    BY DEF Flow
  <1>4. Len(s) \in Nat
    BY LenProperties
  <1>5. /\ Len(t \o s) = Len(t) + Len(s)
        /\ \A i \in 1 .. Len(t) + Len(s) : (t \o s)[i] = IF i <= Len(t) THEN t[i] ELSE s[i - Len(t)]
    BY <1>1, ConcatProperties
  <1>6. ASSUME NEW i \in 1 .. (w + Len(s)) - r PROVE (t \o s)[i] = Char(m, r + i)
    <2>1. CASE i <= w - r
      BY <1>3, <1>4, <1>5, <2>1
    <2>2. CASE i > w - r
      <3>1. i - (w - r) \in 1 .. Len(s) /\ w + (i - (w - r)) = r + i
        BY <1>3, <1>4, <2>2
      <3>2. Len(t) = w - r /\ i \in 1 .. Len(t) + Len(s) /\ ~(i <= Len(t))
        BY <1>3, <1>4, <2>2
      <3>3. (t \o s)[i] = s[i - (w - r)]
        BY <1>5, <3>2
      <3>4. QED
        BY <3>1, <3>3
    <2>3. QED
      BY <1>3, <1>4, <2>1, <2>2
  <1>7. r <= w + Len(s) /\ Len(t \o s) = (w + Len(s)) - r
    BY <1>3, <1>4, <1>5
  <1>8. QED
    BY <1>2, <1>3, <1>6, <1>7 DEF Flow

\* The characters of a line.
LEMMA WrittenIs ==
  ASSUME NEW d
  PROVE  Written(d) = IF d = Nil THEN <<Newline>> ELSE <<d, Newline>>
  BY DEF Written, Nil

\* An end writes a line of its message.
LEMMA WriteFlow ==
  ASSUME Types, NEW e \in Ends, NEW m \in Seq(Lines), Sayable(m),
         NEW w \in 0 .. Size(m), NEW r \in 0 .. Size(m),
         Flow(e, m, w, r), Writing(e, m, w), Write(e)
  PROVE  \E v \in 0 .. Size(m) : Flow(e, m, v, r)' /\ Writing(e, m, v)'
  <1> DEFINE n == Len(out[e])
  <1>0. /\ Size(m) \in Nat /\ Len(m) \in Nat /\ n \in Nat /\ out \in [Ends -> Seq(Lines)]
        /\ DOMAIN step = Ends /\ wrote \in [Ends -> BOOLEAN] /\ w \in Nat /\ r \in Nat
    BY SizeType, FlowTypes
  <1>1. /\ step[e] = "write" /\ out[e] # <<>> /\ out[e] \in Seq(Lines)
        /\ wire' = [wire EXCEPT ![Peer[e]] = @ \o Written(Head(out[e]))]
        /\ out' = [out EXCEPT ![e] = Tail(@)] /\ wrote' = [wrote EXCEPT ![e] = TRUE]
        /\ UNCHANGED <<step, reader>>
    BY <1>0 DEF Write
  <1>w. w \in Nat /\ r \in Nat
    BY <1>0
  <1>r. reader'[Peer[e]] = reader[Peer[e]]
    BY <1>1
  <1>p. wire'[Peer[e]] = wire[Peer[e]] \o Written(Head(out[e]))
    BY <1>1, EndsAre, FlowTypes
  <1>2. /\ n \in 1 .. Len(m) /\ \A i \in 1 .. n : out[e][i] = m[Len(m) - n + i]
        /\ w = IF m = NoRecords THEN 1 - n ELSE 2 * (Len(m) - n)
    BY <1>0, <1>1, EmptySeq DEF Writing
  <1>3. Head(out[e]) = m[Len(m) - n + 1]
    <2>1. 1 \in 1 .. n /\ Head(out[e]) = out[e][1]
      BY <1>2
    <2>2. QED
      BY <1>2, <2>1
  <1>4. /\ out'[e] = Tail(out[e]) /\ Len(out'[e]) = n - 1
        /\ \A i \in 1 .. n - 1 : out'[e][i] = out[e][i + 1]
    BY <1>0, <1>1, HeadTailProperties
  <1>5. \A i \in 1 .. n - 1 : out'[e][i] = m[Len(m) - (n - 1) + i]
    <2>1. SUFFICES ASSUME NEW i \in 1 .. n - 1 PROVE out'[e][i] = m[Len(m) - (n - 1) + i]
      OBVIOUS
    <2>2. i + 1 \in 1 .. n /\ Len(m) - n + (i + 1) = Len(m) - (n - 1) + i
      BY <1>0, <1>2
    <2>3. QED
      BY <1>2, <1>4, <2>2
  \* The end goes on writing, v characters in all.
  <1>6. ASSUME NEW v \in Nat, v = IF m = NoRecords THEN 1 - (n - 1) ELSE 2 * (Len(m) - (n - 1))
        PROVE  Writing(e, m, v)'
    <2>1. step'[e] = "write" /\ wrote'[e] = TRUE /\ n - 1 <= Len(m)
      BY <1>0, <1>1, <1>2
    <2>2. QED
      BY <1>4, <1>5, <1>6, <2>1 DEF Writing
  <1>7. CASE Proper(m)
    <2>1. m # NoRecords /\ Size(m) = 2 * Len(m) + 1
      BY <1>7, ProperSize
    <2> DEFINE k == Len(m) - n + 1
               d == m[k]
    <2>2. k \in 1 .. Len(m) /\ w + 1 = 2 * k - 1 /\ w + 2 = 2 * k /\ w + 2 <= Size(m)
      BY <1>0, <1>2, <2>1
    <2>3. Char(m, w + 1) = d /\ Char(m, w + 2) = Newline /\ d \in Texts
      BY <1>7, <2>2, CharIs
    <2>4. Written(d) = <<d, Newline>>
      <3>1. d # Nil
        BY <2>3, WireAssumption DEF Nil
      <3>2. QED
        BY <3>1, WrittenIs
    <2>5. d \in Chars /\ Newline \in Chars
      BY <2>3 DEF Chars
    <2> HIDE DEF d, k
    <2> DEFINE s == <<d, Newline>>
    <2>6. s \in Seq(Chars) /\ Len(s) = 2 /\ s[1] = d /\ s[2] = Newline
      BY <2>5
    <2>7. \A i \in 1 .. Len(s) : s[i] = Char(m, w + i)
      BY <2>3, <2>6
    <2>8. wire'[Peer[e]] = wire[Peer[e]] \o s
      BY <1>p, <1>3, <2>4 DEF d, k
    <2> HIDE DEF s
    <2>9. w + 2 = w + Len(s)
      BY <2>6
    <2>10. Flow(e, m, w + 2, r)'
      BY <1>w, <1>r, <2>6, <2>7, <2>8, <2>9, FlowMore
    <2>11. w + 2 \in 0 .. Size(m) /\ w + 2 \in Nat /\ w + 2 = 2 * (Len(m) - (n - 1))
      BY <1>0, <1>2, <2>1, <2>2
    <2>12. Writing(e, m, w + 2)'
      BY <1>6, <2>1, <2>11
    <2>13. QED
      BY <2>10, <2>11, <2>12
  <1>8. CASE m = NoRecords
    <2>a. Len(m) = 1 /\ m[1] = Nil
      BY <1>8 DEF NoRecords, Nil
    <2>1. Size(m) = 2 /\ Char(m, 0 + 1) = Newline
      BY <1>8, CharEmpty
    <2>2. n = 1 /\ w = 0
      BY <1>2, <1>8, <2>a
    <2>3. Written(Head(out[e])) = <<Newline>>
      <3>1. Head(out[e]) = Nil
        BY <1>3, <2>a, <2>2
      <3>2. QED
        BY <3>1, WrittenIs
    <2> DEFINE s == <<Newline>>
    <2>4. s \in Seq(Chars) /\ Len(s) = 1 /\ s[1] = Newline
      BY DEF Chars
    <2>5. \A i \in 1 .. Len(s) : s[i] = Char(m, w + i)
      BY <2>1, <2>2, <2>4
    <2>6. wire'[Peer[e]] = wire[Peer[e]] \o s
      BY <1>p, <2>3
    <2> HIDE DEF s
    <2>7. 1 = w + Len(s) /\ 1 \in 0 .. Size(m) /\ 1 - (n - 1) = 1
      BY <2>1, <2>2, <2>4
    <2>8. Flow(e, m, 1, r)'
      BY <1>w, <1>r, <2>4, <2>5, <2>6, <2>7, FlowMore
    <2>9. Writing(e, m, 1)'
      BY <1>6, <1>8, <2>7
    <2>10. QED
      BY <2>7, <2>8, <2>9
  <1>9. QED
    BY <1>7, <1>8 DEF Sayable

\* An end has written its lines, and sends the message.
LEMMA SendFlow ==
  ASSUME Types, NEW e \in Ends, NEW m \in Seq(Lines), Sayable(m),
         NEW w \in 0 .. Size(m), NEW r \in 0 .. Size(m),
         Flow(e, m, w, r), Writing(e, m, w), Send(e)
  PROVE  \E v \in 0 .. Size(m) : Flow(e, m, v, r)' /\ Sent(e, m, v)'
  <1>0. /\ Size(m) \in Nat /\ Len(m) \in Nat /\ w \in Nat /\ r \in Nat
        /\ DOMAIN step = Ends /\ wrote \in [Ends -> BOOLEAN] /\ DOMAIN reader = Ends
    BY SizeType, FlowTypes
  <1>1. /\ out[e] = <<>>
        /\ wire' = [wire EXCEPT ![Peer[e]] =
                      @ \o (IF wrote[e] THEN <<Newline>> ELSE <<Newline, Newline>>)]
        /\ step' = [step EXCEPT ![e] = "read"] /\ reader' = [reader EXCEPT ![e] = NewReader]
        /\ out' = out
    BY DEF Send
  <1>2. Len(out[e]) = 0
    BY <1>1, EmptySeq
  <1>3. /\ w = IF m = NoRecords THEN 1 ELSE 2 * Len(m)
        /\ w > 0 => wrote[e]
    BY <1>0, <1>2 DEF Writing
  <1>4. w > 0 /\ w + 1 = Size(m) /\ Char(m, w + 1) = Newline
    <2>1. CASE Proper(m)
      BY <1>0, <1>3, <2>1, ProperSize, CharIs
    <2>2. CASE m = NoRecords
      BY <1>3, <2>2, CharEmpty
    <2>3. QED
      BY <2>1, <2>2 DEF Sayable
  <1> DEFINE s == <<Newline>>
  <1>5. s \in Seq(Chars) /\ Len(s) = 1 /\ s[1] = Newline
    BY DEF Chars
  <1>6. \A i \in 1 .. Len(s) : s[i] = Char(m, w + i)
    BY <1>4, <1>5
  <1>7. wire'[Peer[e]] = wire[Peer[e]] \o s
    <2>1. wrote[e]
      BY <1>3, <1>4
    <2>2. wire' = [wire EXCEPT ![Peer[e]] = @ \o s]
      BY <1>1, <2>1
    <2>3. QED
      BY <2>2, EndsAre, FlowTypes
  <1> HIDE DEF s
  <1>8. reader'[Peer[e]] = reader[Peer[e]]
    BY <1>1, EndsAre
  <1>9. w + 1 = w + Len(s) /\ w + 1 \in 0 .. Size(m)
    BY <1>0, <1>4, <1>5
  <1>10. Flow(e, m, w + 1, r)'
    BY <1>0, <1>5, <1>6, <1>7, <1>8, <1>9, FlowMore
  <1>11. Sent(e, m, w + 1)'
    BY <1>0, <1>1, <1>4 DEF Sent
  <1>12. QED
    BY <1>9, <1>10, <1>11

\* The other end takes a character.
LEMMA PeekFlow ==
  ASSUME Types, NEW e \in Ends, NEW m \in Seq(Lines), Sayable(m),
         NEW w \in 0 .. Size(m), NEW r \in 0 .. Size(m),
         Flow(e, m, w, r), Peek(Peer[e])
  PROVE  r + 1 \in 0 .. Size(m) /\ Flow(e, m, w, r + 1)'
  <1> DEFINE p == Peer[e]
             t == wire[p]
             a == reader[p]
  <1>0. /\ Size(m) \in Nat /\ w \in Nat /\ r \in Nat
        /\ p \in Ends /\ t \in Seq(Chars) /\ DOMAIN reader = Ends /\ DOMAIN wire = Ends
    BY SizeType, FlowTypes, EndsAre
  <1>1. /\ t # <<>> /\ wire' = [wire EXCEPT ![p] = Tail(@)]
        /\ reader' = [reader EXCEPT ![p] =
             [curr  |-> @.next,
              next  |-> Head(t),
              line  |-> IF @.curr \in Texts THEN @.curr ELSE Nil,
              lines |-> IF @.curr = Newline THEN Append(@.lines, @.line) ELSE @.lines]]
    BY DEF Peek, Nil
  <1>2. /\ r <= w /\ Len(t) = w - r /\ \A i \in 1 .. w - r : t[i] = Char(m, r + i)
        /\ a = ReaderAt(m, r)
    BY DEF Flow
  <1>3. /\ Len(t) > 0 /\ Head(t) = t[1] /\ wire'[p] = Tail(t) /\ Len(Tail(t)) = Len(t) - 1
        /\ \A i \in 1 .. Len(t) - 1 : Tail(t)[i] = t[i + 1]
    <2>1. wire'[p] = Tail(t)
      BY <1>0, <1>1
    <2>2. Len(t) \in Nat /\ Len(t) # 0
      BY <1>0, <1>1, EmptySeq, LenProperties
    <2>3. Head(t) = t[1]
      BY <1>0, <1>1
    <2>4. Len(Tail(t)) = Len(t) - 1 /\ \A i \in 1 .. Len(t) - 1 : Tail(t)[i] = t[i + 1]
      BY <1>0, <1>1, <2>2, HeadTailProperties
    <2>5. QED
      BY <2>1, <2>2, <2>3, <2>4
  <1>4. r + 1 <= w /\ r \in 0 .. Size(m) - 1 /\ r + 1 \in 0 .. Size(m)
    BY <1>0, <1>2, <1>3
  <1>5. Head(t) = Char(m, r + 1)
    <2>1. 1 \in 1 .. w - r
      BY <1>0, <1>4
    <2>2. QED
      BY <1>2, <1>3, <2>1
  <1>6. reader'[p] = [curr  |-> a.next,
                      next  |-> Char(m, r + 1),
                      line  |-> IF a.curr \in Texts THEN a.curr ELSE Nil,
                      lines |-> IF a.curr = Newline THEN Append(a.lines, a.line) ELSE a.lines]
    BY <1>0, <1>1, <1>5
  <1>7. reader'[p] = ReaderAt(m, r + 1)
    BY <1>2, <1>4, <1>6, ReaderNext
  <1>n. w \in Nat /\ r \in Nat
    BY SizeType
  <1>8. ASSUME NEW i \in 1 .. w - (r + 1) PROVE wire'[p][i] = Char(m, (r + 1) + i)
    <2>1. i + 1 \in 1 .. w - r /\ r + (i + 1) = (r + 1) + i
      BY <1>n
    <2>2. i \in 1 .. (w - r) - 1
      BY <1>n
    <2>3. i \in 1 .. Len(t) - 1
      BY <1>2, <2>2
    <2>4. QED
      BY <1>2, <1>3, <2>1, <2>3
  <1>9. Len(wire'[p]) = w - (r + 1)
    BY <1>0, <1>2, <1>3
  <1>10. QED
    BY <1>4, <1>7, <1>8, <1>9 DEF Flow

-----------------------------------------------------------------------------
(* Calls *)

\* A reader that is not at the end of a message.
LEMMA NewReaderWaits ==
  ASSUME NEW e, reader[e] = NewReader
  PROVE  ~IsEOS(e)
  <1>1. NewReader.curr = None
    BY NewReaderIs
  <1>2. None # Newline
    BY WireAssumption DEF Chars
  <1>3. QED
    BY <1>1, <1>2 DEF IsEOS

\* Where a message is on its way, only its reader can be at its end, and then
\* all of it is sent and read.
LEMMA AtEnd ==
  ASSUME Types, NEW e \in Ends, NEW m \in Seq(Lines), NEW w, NEW r,
         Passing(e, m, w, r), IsEOS(Peer[e])
  PROVE  /\ Sent(e, m, w) /\ wire[Peer[e]] = <<>>
         /\ Message(Peer[e]) = Shown(m)
  <1>0. /\ Size(m) \in Nat /\ Len(m) \in Nat /\ w \in Nat /\ r \in Nat
        /\ Peer[e] \in Ends /\ wire[Peer[e]] \in Seq(Chars) /\ Len(out[e]) \in Nat
        /\ w \in 0 .. Size(m) /\ r \in 0 .. Size(m)
    BY SizeType, FlowTypes, EndsAre DEF Passing
  <1>1. /\ r <= w /\ Len(wire[Peer[e]]) = w - r /\ reader[Peer[e]] = ReaderAt(m, r)
        /\ Sayable(m) /\ (Writing(e, m, w) \/ Sent(e, m, w))
    BY DEF Passing, Flow
  <1>2. r = Size(m)
    <2>1. ReaderAt(m, r).curr = Newline /\ ReaderAt(m, r).next = Newline
      BY <1>1 DEF IsEOS
    <2>2. QED
      BY <1>0, <1>1, <2>1, EndsOnce
  <1>3. w = Size(m)
    BY <1>0, <1>1, <1>2
  <1>4. ~Writing(e, m, w)
    <2>1. SUFFICES ASSUME Writing(e, m, w) PROVE FALSE
      OBVIOUS
    <2>2. w = IF m = NoRecords THEN 1 - Len(out[e]) ELSE 2 * (Len(m) - Len(out[e]))
      BY <2>1 DEF Writing
    <2>n. Len(out[e]) \in Nat /\ Len(m) \in Nat
      BY <1>0
    <2>3. CASE m = NoRecords
      <3>1. w = 2 /\ w = 1 - Len(out[e])
        BY <1>3, <2>2, <2>3, CharEmpty
      <3>2. QED
        BY <2>n, <3>1
    <2>4. CASE Proper(m)
      <3>1. w = 2 * Len(m) + 1 /\ w = 2 * (Len(m) - Len(out[e]))
        BY <1>3, <2>2, <2>4, ProperSize
      <3>2. QED
        BY <2>n, <3>1
    <2>5. QED
      BY <1>1, <2>3, <2>4 DEF Sayable
  <1>5. wire[Peer[e]] = <<>>
    BY <1>0, <1>1, <1>2, <1>3, EmptySeq
  <1>6. Message(Peer[e]) = Shown(m)
    BY <1>0, <1>1, <1>2, WholeMessage
  <1>7. QED
    BY <1>1, <1>4, <1>5, <1>6

\* The end that sends a message, or waits for an answer, is not at an end.
LEMMA SenderWaits ==
  ASSUME NEW e, NEW m, NEW w, Writing(e, m, w) \/ Sent(e, m, w)
  PROVE  ~(step[e] = "read" /\ IsEOS(e))
  <1>1. CASE Writing(e, m, w)
    BY <1>1 DEF Writing
  <1>2. CASE Sent(e, m, w)
    BY <1>2, NewReaderWaits DEF Sent
  <1>3. QED
    BY <1>1, <1>2

\* What is on its way is a message.
LEMMA OneWayIs ==
  ASSUME NEW e, OneWay(e)
  PROVE  \E m \in Seq(Lines), w, r \in Nat : m \in Requests \cup Replies /\ Passing(e, m, w, r)
  <1>1. PICK m \in Requests \cup Replies : \E w, r \in 0 .. Size(m) : Passing(e, m, w, r)
    BY DEF OneWay
  <1>2. m \in Seq(Lines)
    BY WireAssumption
  <1>3. PICK w \in 0 .. Size(m), r \in 0 .. Size(m) : Passing(e, m, w, r)
    BY <1>1
  <1>4. w \in Nat /\ r \in Nat
    BY <1>2, SizeType
  <1>5. QED
    BY <1>2, <1>3, <1>4

\* Writing, sending and reading keep a message on its way.
LEMMA OneWayMoves ==
  ASSUME Types, NEW e \in Ends, OneWay(e), NEW d \in Ends, Transfer(d)
  PROVE  OneWay(e)' /\ said' = said /\ heard' = heard
  <1>1. PICK m \in Seq(Lines), w \in Nat, r \in Nat : m \in Requests \cup Replies /\ Passing(e, m, w, r)
    BY OneWayIs
  <1> DEFINE p == Peer[e]
  <1>2. /\ said[e] = m /\ Sayable(m) /\ Flow(e, m, w, r)
        /\ w \in 0 .. Size(m) /\ r \in 0 .. Size(m)
        /\ Writing(e, m, w) \/ Sent(e, m, w)
        /\ step[p] = "read" /\ out[p] = <<>> /\ wire[e] = <<>>
    BY <1>1 DEF Passing
  <1>3. /\ p \in Ends /\ p # e /\ Peer[p] = e /\ (d = e \/ d = p)
        /\ DOMAIN step = Ends /\ DOMAIN out = Ends /\ DOMAIN wire = Ends /\ DOMAIN reader = Ends
    BY EndsAre, FlowTypes
  <1>4. said' = said /\ heard' = heard
    BY DEF Transfer, Write, Send, Peek
  <1>5. ASSUME NEW v \in 0 .. Size(m), NEW q \in 0 .. Size(m), Flow(e, m, v, q)',
               Writing(e, m, v)' \/ Sent(e, m, v)',
               step'[p] = "read", out'[p] = <<>>, wire'[e] = <<>>
        PROVE  OneWay(e)' /\ said' = said /\ heard' = heard
    <2>1. Passing(e, m, v, q)'
      BY <1>2, <1>4, <1>5 DEF Passing
    <2>2. QED
      BY <1>1, <1>4, <2>1 DEF OneWay
  <1>6. CASE Write(d)
    <2>1. d = e
      BY <1>2, <1>3, <1>6 DEF Write
    <2>2. Writing(e, m, w)
      BY <1>2, <1>6, <2>1 DEF Write, Sent
    <2>3. PICK v \in 0 .. Size(m) : Flow(e, m, v, r)' /\ Writing(e, m, v)'
      BY <1>2, <1>6, <2>1, <2>2, WriteFlow
    <2>4. step'[p] = "read" /\ out'[p] = <<>> /\ wire'[e] = <<>>
      BY <1>2, <1>3, <1>6, <2>1 DEF Write
    <2>5. QED
      BY <1>2, <1>5, <2>3, <2>4
  <1>7. CASE Send(d)
    <2>1. d = e
      BY <1>2, <1>3, <1>7 DEF Send
    <2>2. Writing(e, m, w)
      BY <1>2, <1>7, <2>1 DEF Send, Sent
    <2>3. PICK v \in 0 .. Size(m) : Flow(e, m, v, r)' /\ Sent(e, m, v)'
      BY <1>2, <1>7, <2>1, <2>2, SendFlow
    <2>4. step'[p] = "read" /\ out'[p] = <<>> /\ wire'[e] = <<>>
      BY <1>2, <1>3, <1>7, <2>1 DEF Send
    <2>5. QED
      BY <1>2, <1>5, <2>3, <2>4
  <1>8. CASE Peek(d)
    <2>1. d = p
      BY <1>2, <1>3, <1>8 DEF Peek
    <2>2. r + 1 \in 0 .. Size(m) /\ Flow(e, m, w, r + 1)'
      BY <1>2, <1>8, <2>1, PeekFlow
    <2>3. step' = step /\ out' = out /\ wrote' = wrote /\ reader'[e] = reader[e]
      BY <1>3, <1>8, <2>1 DEF Peek
    <2>4. wire'[e] = <<>>
      BY <1>2, <1>3, <1>8, <2>1 DEF Peek
    <2>5. Writing(e, m, w)' \/ Sent(e, m, w)'
      BY <1>2, <2>3 DEF Writing, Sent
    <2>6. QED
      BY <1>2, <1>4, <1>5, <2>2, <2>3, <2>4, <2>5
  <1>9. QED
    BY <1>4, <1>6, <1>7, <1>8 DEF Transfer

\* A message starts on its way.
LEMMA OneWayStarts ==
  ASSUME Types, NEW e \in Ends, NEW m \in Requests \cup Replies, Sayable(m), Say(e, m),
         UNCHANGED <<wrote, wire, reader>>,
         wire[e] = <<>>, wire[Peer[e]] = <<>>, reader[Peer[e]] = NewReader,
         step[Peer[e]] = "read", out[Peer[e]] = <<>>
  PROVE  OneWay(e)'
  <1> DEFINE p == Peer[e]
  <1>1. /\ p \in Ends /\ p # e /\ DOMAIN step = Ends /\ DOMAIN out = Ends /\ DOMAIN said = Ends
    BY EndsAre, FlowTypes
  <1>2. /\ step'[e] = "write" /\ out'[e] = m /\ said'[e] = m
        /\ step'[p] = "read" /\ out'[p] = <<>> /\ wire'[e] = <<>>
        /\ wire'[p] = <<>> /\ reader'[p] = NewReader
    BY <1>1 DEF Say
  <1>3. Size(m) \in Nat /\ Len(m) \in Nat
    BY SizeType, WireAssumption
  <1>4. Flow(e, m, 0, 0)'
    <2>1. Len(wire'[p]) = 0 - 0 /\ reader'[p] = ReaderAt(m, 0)
      BY <1>2, ReaderStarts, EmptySeq
    <2>2. QED
      BY <2>1 DEF Flow
  <1>5. Writing(e, m, 0)'
    <2>1. /\ Len(out'[e]) = Len(m) /\ Len(out'[e]) <= Len(m)
          /\ Len(m) - Len(out'[e]) = 0
          /\ 2 * (Len(m) - Len(out'[e])) = 0
      BY <1>2, <1>3
    <2>2. \A i \in 1 .. Len(out'[e]) : out'[e][i] = m[Len(m) - Len(out'[e]) + i]
      BY <1>2, <1>3, <2>1
    <2>3. m = NoRecords => Len(out'[e]) = 1
      <3>1. Len(NoRecords) = 1
        BY DEF NoRecords
      <3>2. QED
        BY <2>1, <3>1
    <2>4. 0 = IF m = NoRecords THEN 1 - Len(out'[e]) ELSE 2 * (Len(m) - Len(out'[e]))
      BY <2>1, <2>3
    <2>5. QED
      BY <1>2, <2>1, <2>2, <2>4 DEF Writing
  <1>6. 0 \in 0 .. Size(m) /\ 0 \in Nat
    BY <1>3
  <1>7. Passing(e, m, 0, 0)'
    BY <1>2, <1>4, <1>5, <1>6 DEF Passing
  <1>8. QED
    BY <1>6, <1>7 DEF OneWay

\* Before a call nothing is on its way, and the handler waits for a request.
LEMMA CallKeeps ==
  ASSUME Framed, Types, Idle, Call
  PROVE  Asking'
  <1>1. PICK m \in Requests : Say("proxy", m)
    BY DEF Call
  <1>2. m \in Seq(Lines) /\ Sayable(m)
    BY WireAssumption DEF Framed, Sayable
  <1>3. /\ "proxy" \in Ends /\ "handler" \in Ends /\ Peer["proxy"] = "handler"
        /\ DOMAIN said = Ends
    BY EndsAre, FlowTypes DEF Ends
  <1>4. OneWay("proxy")'
    BY <1>1, <1>2, <1>3, OneWayStarts DEF Idle, Call
  <1>5. heard'["proxy"] = None /\ heard'["handler"] = None
    BY <1>3 DEF Call
  <1>6. said'["proxy"] = m
    BY <1>1, <1>3 DEF Say
  <1>7. QED
    BY <1>4, <1>5, <1>6 DEF Asking

\* The handler answers when all of the request is read, and nothing else is on
\* its way.
LEMMA AnswerKeeps ==
  ASSUME Framed, Types, Asking, Answer
  PROVE  Answering' /\ said'["proxy"] = said["proxy"]
         /\ heard' = [heard EXCEPT !["handler"] = said["proxy"]]
  <1>0. /\ "proxy" \in Ends /\ "handler" \in Ends /\ Peer["proxy"] = "handler"
        /\ Peer["handler"] = "proxy" /\ DOMAIN said = Ends /\ DOMAIN heard = Ends
        /\ DOMAIN step = Ends /\ DOMAIN out = Ends
    BY EndsAre, FlowTypes DEF Ends
  <1>1. PICK m \in Seq(Lines), w \in Nat, r \in Nat : Passing("proxy", m, w, r)
    BY OneWayIs DEF Asking
  <1>2. step["handler"] = "read" /\ IsEOS("handler")
    BY DEF Answer
  <1>3. Sent("proxy", m, w) /\ wire["handler"] = <<>> /\ Message("handler") = Shown(m)
    BY <1>0, <1>1, <1>2, AtEnd
  <1>4. said["proxy"] = m /\ out["handler"] = <<>> /\ wire["proxy"] = <<>>
    BY <1>0, <1>1 DEF Passing
  <1>5. Shown(m) = m
    <2>1. Proper(m)
      BY <1>4 DEF Asking, Framed
    <2>2. m # NoRecords
      BY <2>1, ProperSize
    <2>3. QED
      BY <2>2 DEF Shown, NoRecords
  <1>6. PICK n \in Replies : Say("handler", n)
    BY DEF Answer
  <1>7. n \in Seq(Lines) /\ Sayable(n)
    BY WireAssumption DEF Framed, Sayable
  <1>8. step["proxy"] = "read" /\ out["proxy"] = <<>> /\ reader["proxy"] = NewReader
    BY <1>3 DEF Sent
  <1>9. UNCHANGED <<wrote, wire, reader>>
    BY DEF Answer
  <1>10. OneWay("handler")'
    BY <1>0, <1>3, <1>4, <1>6, <1>7, <1>8, <1>9, OneWayStarts
  <1>11. heard' = [heard EXCEPT !["handler"] = said["proxy"]]
    BY <1>3, <1>4, <1>5 DEF Answer
  <1>12. heard'["handler"] = said["proxy"] /\ heard'["proxy"] = None
    BY <1>0, <1>11 DEF Asking
  <1>13. said'["proxy"] = said["proxy"]
    BY <1>0, <1>6 DEF Say
  <1>14. QED
    BY <1>10, <1>11, <1>12, <1>13 DEF Answering

\* The proxy returns when all of the answer is read, and nothing else is on its
\* way.
LEMMA ReturnKeeps ==
  ASSUME Types, Answering, Return
  PROVE  /\ Idle' /\ said' = said
         /\ heard' = [heard EXCEPT !["proxy"] = Shown(said["handler"])]
         /\ Shown(said["handler"]) # None /\ said["proxy"] # None
  <1>0. /\ "proxy" \in Ends /\ "handler" \in Ends /\ Peer["proxy"] = "handler"
        /\ Peer["handler"] = "proxy" /\ DOMAIN said = Ends /\ DOMAIN heard = Ends
        /\ DOMAIN step = Ends /\ said \in [Ends -> Seq(Lines)]
        /\ \A e \in Ends : e = "proxy" \/ e = "handler"
    BY EndsAre, FlowTypes DEF Ends
  <1>1. PICK m \in Seq(Lines), w \in Nat, r \in Nat : Passing("handler", m, w, r)
    BY OneWayIs DEF Answering
  <1>2. step["proxy"] = "read" /\ IsEOS("proxy")
    BY DEF Return
  <1>3. Sent("handler", m, w) /\ wire["proxy"] = <<>> /\ Message("proxy") = Shown(m)
    BY <1>0, <1>1, <1>2, AtEnd
  <1>4. said["handler"] = m /\ out["proxy"] = <<>> /\ wire["handler"] = <<>>
    BY <1>0, <1>1 DEF Passing
  <1>5. step["handler"] = "read" /\ out["handler"] = <<>> /\ reader["handler"] = NewReader
    BY <1>3 DEF Sent
  <1>6. heard' = [heard EXCEPT !["proxy"] = Shown(said["handler"])]
    BY <1>3, <1>4 DEF Return
  <1>7. /\ step' = [step EXCEPT !["proxy"] = "idle"]
        /\ UNCHANGED <<out, wrote, wire, reader, said>>
    BY DEF Return
  <1>8. Shown(said["handler"]) # None /\ said["proxy"] # None
    <2>1. \A n \in Seq(Lines) : n # None
      BY WireAssumption
    <2>2. <<>> \in Seq(Lines)
      BY EmptySeq
    <2>3. Shown(said["handler"]) \in Seq(Lines)
      BY <1>0, <2>2 DEF Shown
    <2>4. QED
      BY <1>0, <2>1, <2>3
  <1>9. heard'["proxy"] = Shown(said["handler"]) /\ heard'["handler"] = said["proxy"]
    BY <1>0, <1>6 DEF Answering
  <1>10. step'["proxy"] = "idle" /\ step'["handler"] = "read"
    BY <1>0, <1>5, <1>7
  <1>11. \A e \in Ends : wire'[e] = <<>> /\ out'[e] = <<>>
    BY <1>0, <1>3, <1>4, <1>5, <1>7
  <1>12. QED
    BY <1>5, <1>6, <1>7, <1>8, <1>9, <1>10, <1>11 DEF Idle

\* Who may act while nothing, a request, or an answer is on its way.
LEMMA OnlyCall ==
  ASSUME Types, Idle
  PROVE  ~Answer /\ ~Return /\ \A e \in Ends : ~Transfer(e)
  <1>1. ~Answer
    BY NewReaderWaits DEF Idle, Answer
  <1>2. ~Return
    BY DEF Idle, Return
  <1>3. ASSUME NEW e \in Ends PROVE ~Transfer(e)
    <2>1. step[e] # "write" /\ wire[e] = <<>>
      BY DEF Idle, Ends
    <2>2. QED
      BY <2>1 DEF Transfer, Write, Send, Peek
  <1>4. QED
    BY <1>1, <1>2, <1>3

\* A request that is on its way can only be answered next.
LEMMA OnlyAnswer ==
  ASSUME Asking
  PROVE  ~Call /\ ~Return /\ step["proxy"] # "idle"
  <1>1. PICK m \in Seq(Lines), w \in Nat, r \in Nat : Passing("proxy", m, w, r)
    BY OneWayIs DEF Asking
  <1>2. Writing("proxy", m, w) \/ Sent("proxy", m, w)
    BY <1>1 DEF Passing
  <1>3. step["proxy"] # "idle"
    BY <1>2 DEF Writing, Sent
  <1>4. ~(step["proxy"] = "read" /\ IsEOS("proxy"))
    BY <1>2, SenderWaits
  <1>5. QED
    BY <1>3, <1>4 DEF Call, Return

\* An answer that is on its way can only be returned next.
LEMMA OnlyReturn ==
  ASSUME Answering
  PROVE  ~Call /\ ~Answer /\ step["proxy"] # "idle"
  <1>1. PICK m \in Seq(Lines), w \in Nat, r \in Nat : Passing("handler", m, w, r)
    BY OneWayIs DEF Answering
  <1>2. Writing("handler", m, w) \/ Sent("handler", m, w)
    BY <1>1 DEF Passing
  <1>3. step["proxy"] # "idle"
    BY <1>1, EndsAre DEF Passing
  <1>4. ~(step["handler"] = "read" /\ IsEOS("handler"))
    BY <1>2, SenderWaits
  <1>5. QED
    BY <1>3, <1>4 DEF Call, Answer

\* Where the connection stands when nothing changes.
LEMMA WireStays ==
  ASSUME WireInv, UNCHANGED vars
  PROVE  WireInv'
  <1>1. Types'
    BY TypesStep DEF WireInv
  <1>2. CASE Idle
    <2>1. Idle'
      BY <1>2 DEF Idle, vars
    <2>2. QED
      BY <1>1, <2>1 DEF WireInv
  <1>3. ASSUME NEW e, OneWay(e) PROVE OneWay(e)'
    <2>1. ASSUME NEW m, NEW w, NEW r, Passing(e, m, w, r) PROVE Passing(e, m, w, r)'
      BY <2>1 DEF Passing, Flow, Writing, Sent, vars
    <2>2. QED
      BY <1>3, <2>1 DEF OneWay
  <1>4. CASE Asking
    <2>1. Asking'
      BY <1>3, <1>4 DEF Asking, vars
    <2>2. QED
      BY <1>1, <2>1 DEF WireInv
  <1>5. CASE Answering
    <2>1. Answering'
      BY <1>3, <1>5 DEF Answering, vars
    <2>2. QED
      BY <1>1, <2>1 DEF WireInv
  <1>6. QED
    BY <1>2, <1>4, <1>5 DEF WireInv

\* Nothing is on its way at the start.
LEMMA WireInit == Init => WireInv
  <1> SUFFICES ASSUME Init PROVE WireInv
    OBVIOUS
  <1>1. Idle
    BY DEF Init, Idle, Ends
  <1>2. QED
    BY <1>1, TypesInit DEF WireInv

\* Every step leaves nothing, the request or the answer on its way.
LEMMA WireStep ==
  ASSUME Framed
  PROVE  WireInv /\ [Next]_vars => WireInv'
  <1> SUFFICES ASSUME WireInv, [Next]_vars PROVE WireInv'
    OBVIOUS
  <1>1. Types /\ Types' /\ (Idle \/ Asking \/ Answering)
    BY TypesStep DEF WireInv
  <1>2. CASE Idle /\ Call
    BY <1>1, <1>2, CallKeeps DEF WireInv
  <1>3. CASE Asking /\ Answer
    BY <1>1, <1>3, AnswerKeeps DEF WireInv
  <1>4. CASE Answering /\ Return
    BY <1>1, <1>4, ReturnKeeps DEF WireInv
  <1>5. ASSUME NEW d \in Ends, Transfer(d), Asking PROVE WireInv'
    <2>1. OneWay("proxy")' /\ said' = said /\ heard' = heard
      BY <1>1, <1>5, OneWayMoves DEF Asking, Ends
    <2>2. Asking'
      BY <1>5, <2>1 DEF Asking
    <2>3. QED
      BY <1>1, <2>2 DEF WireInv
  <1>6. ASSUME NEW d \in Ends, Transfer(d), Answering PROVE WireInv'
    <2>1. OneWay("handler")' /\ said' = said /\ heard' = heard
      BY <1>1, <1>6, OneWayMoves DEF Answering, Ends
    <2>2. Answering'
      BY <1>6, <2>1 DEF Answering
    <2>3. QED
      BY <1>1, <2>2 DEF WireInv
  <1>7. CASE UNCHANGED vars
    BY <1>7, WireStays
  <1>8. CASE Next
    <2>1. CASE Idle
      BY <1>1, <1>2, <1>8, <2>1, OnlyCall DEF Next
    <2>2. CASE Asking
      BY <1>3, <1>5, <1>8, <2>2, OnlyAnswer DEF Next
    <2>3. CASE Answering
      BY <1>4, <1>6, <1>8, <2>3, OnlyReturn DEF Next
    <2>4. QED
      BY <1>1, <2>1, <2>2, <2>3
  <1>9. QED
    BY <1>7, <1>8

\* NothingLeftCorrect: messages without empty lines leave nothing behind, in a
\* socket or in a reader's lookahead, however long they are.
THEOREM NothingLeftCorrect ==
  ASSUME Framed
  PROVE  Spec => []NothingLeft
  <1>1. ASSUME WireInv PROVE NothingLeft
    <2>1. CASE Idle
      BY <2>1 DEF Idle, NothingLeft
    <2>2. CASE Asking
      BY <2>2, OnlyAnswer DEF NothingLeft
    <2>3. CASE Answering
      BY <2>3, OnlyReturn DEF NothingLeft
    <2>4. QED
      BY <1>1, <2>1, <2>2, <2>3 DEF WireInv
  <1>2. WireInv => NothingLeft
    BY <1>1
  <1>3. WireInv /\ [Next]_vars => WireInv'
    BY WireStep
  <1>4. QED
    BY WireInit, <1>2, <1>3, PTL DEF Spec

\* While a message passes, its sender writes, or its reader is at the end or
\* has characters to read: what is written and not read is on its way.
LEMMA PassingGoesOn ==
  ASSUME Types, NEW e \in Ends, OneWay(e)
  PROVE  \E d \in Ends : \/ step[d] = "write"
                         \/ step[d] = "read" /\ (IsEOS(d) \/ wire[d] # <<>>)
  <1>1. PICK m \in Seq(Lines), w \in Nat, r \in Nat : m \in Requests \cup Replies /\ Passing(e, m, w, r)
    BY OneWayIs
  <1>2. /\ Sayable(m) /\ r \in 0 .. Size(m) /\ Flow(e, m, w, r) /\ step[Peer[e]] = "read"
        /\ Writing(e, m, w) \/ Sent(e, m, w)
    BY <1>1 DEF Passing
  <1>3. Peer[e] \in Ends
    BY EndsAre
  <1>4. CASE Writing(e, m, w)
    BY <1>4 DEF Writing
  <1>5. CASE w = Size(m)
    <2>1. Len(wire[Peer[e]]) = w - r /\ reader[Peer[e]] = ReaderAt(m, r)
      BY <1>2 DEF Flow
    <2>2. CASE r = Size(m)
      <3>1. IsEOS(Peer[e])
        BY <2>1, <2>2, ReadToEnd, <1>2
      <3>2. QED
        BY <1>2, <1>3, <3>1
    <2>3. CASE r # Size(m)
      <3>1. w - r # 0
        BY <1>5, <2>3
      <3>2. Len(<<>>) = 0
        OBVIOUS
      <3>3. wire[Peer[e]] # <<>>
        BY <2>1, <3>1, <3>2
      <3>4. QED
        BY <1>2, <1>3, <3>3
    <2>4. QED
      BY <2>2, <2>3
  <1>6. QED
    BY <1>2, <1>4, <1>5 DEF Sent

\* NeitherWaitsCorrect: the two ends never wait for each other, for messages of
\* any length whose lines are not empty. Without Framed find_wire_empty is how
\* they do; that a call then also returns is left to fairness.
THEOREM NeitherWaitsCorrect ==
  ASSUME Framed
  PROVE  Spec => []NeitherWaits
  <1>1. ASSUME WireInv PROVE NeitherWaits
    <2>1. CASE Idle
      BY <2>1 DEF Idle, NeitherWaits
    <2>2. CASE Asking
      <3>1. OneWay("proxy") /\ "proxy" \in Ends
        BY <2>2 DEF Asking, Ends
      <3>2. QED
        BY <1>1, <3>1, PassingGoesOn DEF NeitherWaits, WireInv
    <2>3. CASE Answering
      <3>1. OneWay("handler") /\ "handler" \in Ends
        BY <2>3 DEF Answering, Ends
      <3>2. QED
        BY <1>1, <3>1, PassingGoesOn DEF NeitherWaits, WireInv
    <2>4. QED
      BY <1>1, <2>1, <2>2, <2>3 DEF WireInv
  <1>2. WireInv => NeitherWaits
    BY <1>1
  <1>3. WireInv /\ [Next]_vars => WireInv'
    BY WireStep
  <1>4. QED
    BY WireInit, <1>2, <1>3, PTL DEF Spec

-----------------------------------------------------------------------------
(* The connection implements calls *)

\* Where a call stands, and what it carries.
Turn    == IF step["proxy"] = "idle" THEN "idle"
           ELSE IF heard["handler"] = None THEN "asked" ELSE "answered"
Request == IF heard["handler"] = None THEN said["proxy"] ELSE heard["handler"]
Reply   == IF heard["proxy"] = None THEN Shown(said["handler"]) ELSE heard["proxy"]

\* What is seen of a call while it is made, answered and over.
Shows ==
  /\ Idle => Turn = "idle" /\ Reply = Shown(said["handler"])
  /\ Asking => step["proxy"] # "idle" /\ Turn = "asked"
               /\ Request = said["proxy"] /\ Reply = Shown(said["handler"])
  /\ Answering => step["proxy"] # "idle" /\ Turn = "answered"
                  /\ Request = said["proxy"] /\ Reply = Shown(said["handler"])

\* Where a call is, is what Rpc sees of it.
LEMMA Seen == Types => Shows
  <1> SUFFICES ASSUME Types PROVE Shows
    OBVIOUS
  <1>1. said["proxy"] # None
    <2>1. said["proxy"] \in Seq(Lines)
      BY FlowTypes DEF Ends
    <2>2. QED
      BY <2>1, WireAssumption
  <1>2. ASSUME Idle PROVE Turn = "idle" /\ Reply = Shown(said["handler"])
    BY <1>1, <1>2 DEF Idle, Turn, Reply
  <1>3. ASSUME Asking
        PROVE  step["proxy"] # "idle" /\ Turn = "asked"
               /\ Request = said["proxy"] /\ Reply = Shown(said["handler"])
    BY <1>3, OnlyAnswer DEF Asking, Turn, Request, Reply
  <1>4. ASSUME Answering
        PROVE  step["proxy"] # "idle" /\ Turn = "answered"
               /\ Request = said["proxy"] /\ Reply = Shown(said["handler"])
    BY <1>1, <1>4, OnlyReturn DEF Answering, Turn, Request, Reply
  <1>5. QED
    BY <1>2, <1>3, <1>4 DEF Shows

\* The same, after a step.
LEMMA SeenNext == Types' => Shows'
  BY Seen, PTL

\* Steps of the connection are steps of a call, or change nothing of it.
LEMMA CallStep ==
  ASSUME Framed, WireInv, [Next]_vars
  PROVE  \/ Turn = "idle" /\ Turn' = "asked"
            /\ Request' \in Requests \cup {<<>>} /\ Reply' = Reply
         \/ Turn = "asked" /\ Turn' = "answered"
            /\ Reply' \in {Shown(m) : m \in Replies} \cup {<<>>} /\ Request' = Request
         \/ Turn = "answered" /\ Turn' = "idle" /\ Request' = Request /\ Reply' = Reply
         \/ Turn' = Turn /\ Request' = Request /\ Reply' = Reply
  <1> DEFINE Goal ==
         \/ Turn = "idle" /\ Turn' = "asked"
            /\ Request' \in Requests \cup {<<>>} /\ Reply' = Reply
         \/ Turn = "asked" /\ Turn' = "answered"
            /\ Reply' \in {Shown(m) : m \in Replies} \cup {<<>>} /\ Request' = Request
         \/ Turn = "answered" /\ Turn' = "idle" /\ Request' = Request /\ Reply' = Reply
         \/ Turn' = Turn /\ Request' = Request /\ Reply' = Reply
  <1>1. Types /\ Types' /\ (Idle \/ Asking \/ Answering)
    BY TypesStep DEF WireInv
  <1>2. /\ "proxy" \in Ends /\ "handler" \in Ends /\ "proxy" # "handler"
        /\ DOMAIN said = Ends /\ DOMAIN heard = Ends
    BY <1>1, FlowTypes DEF Ends
  <1>3. ASSUME Idle, Call PROVE Goal
    <2>1. Asking'
      BY <1>1, <1>3, CallKeeps
    <2>2. Turn = "idle" /\ Reply = Shown(said["handler"])
      BY <1>1, <1>3, Seen DEF Shows
    <2>3. Turn' = "asked" /\ Request' = said'["proxy"] /\ Reply' = Shown(said'["handler"])
      BY <1>1, <2>1, SeenNext DEF Shows
    <2>4. said'["handler"] = said["handler"]
      BY <1>2, <1>3 DEF Call, Say
    <2>5. said'["proxy"] \in Requests
      BY <2>1 DEF Asking
    <2>6. QED
      BY <2>2, <2>3, <2>4, <2>5
  <1>4. ASSUME Asking, Answer PROVE Goal
    <2>1. Answering' /\ said'["proxy"] = said["proxy"]
      BY <1>1, <1>4, AnswerKeeps
    <2>2. Turn = "asked" /\ Request = said["proxy"]
      BY <1>1, <1>4, Seen DEF Shows
    <2>3. Turn' = "answered" /\ Request' = said'["proxy"] /\ Reply' = Shown(said'["handler"])
      BY <1>1, <2>1, SeenNext DEF Shows
    <2>4. said'["handler"] \in Replies
      BY <1>2, <1>4 DEF Answer, Say
    <2>5. QED
      BY <2>1, <2>2, <2>3, <2>4
  <1>5. ASSUME Answering, Return PROVE Goal
    <2>1. /\ Idle' /\ said' = said
          /\ heard' = [heard EXCEPT !["proxy"] = Shown(said["handler"])]
          /\ Shown(said["handler"]) # None /\ said["proxy"] # None
      BY <1>1, <1>5, ReturnKeeps
    <2>2. Turn = "answered" /\ Request = said["proxy"] /\ Reply = Shown(said["handler"])
      BY <1>1, <1>5, Seen DEF Shows
    <2>3. Turn' = "idle" /\ Reply' = Shown(said'["handler"])
      BY <1>1, <2>1, SeenNext DEF Shows
    <2>4. heard'["handler"] = said["proxy"]
      BY <1>2, <1>5, <2>1 DEF Answering
    <2>5. Request' = said["proxy"]
      BY <2>1, <2>4 DEF Request
    <2>6. QED
      BY <2>1, <2>2, <2>3, <2>5
  <1>6. ASSUME NEW d \in Ends, Transfer(d), Asking \/ Answering PROVE Goal
    <2>1. said' = said /\ heard' = heard /\ (Asking' \/ Answering')
      <3>1. CASE Asking
        <4>1. OneWay("proxy")' /\ said' = said /\ heard' = heard
          BY <1>1, <1>2, <1>6, <3>1, OneWayMoves DEF Asking
        <4>2. QED
          BY <3>1, <4>1 DEF Asking
      <3>2. CASE Answering
        <4>1. OneWay("handler")' /\ said' = said /\ heard' = heard
          BY <1>1, <1>2, <1>6, <3>2, OneWayMoves DEF Answering
        <4>2. QED
          BY <3>2, <4>1 DEF Answering
      <3>3. QED
        BY <1>6, <3>1, <3>2
    <2>2. step["proxy"] # "idle"
      BY <1>6, OnlyAnswer, OnlyReturn
    <2>3. step'["proxy"] # "idle"
      BY <1>1, <2>1, SeenNext DEF Shows
    <2>4. QED
      BY <2>1, <2>2, <2>3 DEF Turn, Request, Reply
  <1>7. ASSUME UNCHANGED vars PROVE Goal
    BY <1>7 DEF vars, Turn, Request, Reply
  <1>8. CASE Next
    <2>1. CASE Idle
      BY <1>1, <1>3, <1>8, <2>1, OnlyCall DEF Next
    <2>2. CASE Asking
      BY <1>4, <1>6, <1>8, <2>2, OnlyAnswer DEF Next
    <2>3. CASE Answering
      BY <1>5, <1>6, <1>8, <2>3, OnlyReturn DEF Next
    <2>4. QED
      BY <1>1, <2>1, <2>2, <2>3
  <1>9. QED
    BY <1>7, <1>8

\* RpcCorrect: with messages without empty lines a connection implements calls:
\* the handler reads the lines of the request and the proxy those of the answer,
\* in turn, in whatever order the characters are written and read.
THEOREM RpcCorrect ==
  ASSUME Framed
  PROVE  Spec => ImplementsRpc
  <1>1. Init => Calls!Init
    <2>1. SUFFICES ASSUME Init PROVE Calls!Init
      OBVIOUS
    <2>2. /\ step["proxy"] = "idle" /\ heard["handler"] = None /\ heard["proxy"] = None
          /\ said["proxy"] = <<>> /\ said["handler"] = <<>>
      BY <2>1 DEF Init, Ends
    <2>3. Shown(<<>>) = <<>>
      BY DEF Shown
    <2>4. QED
      BY <2>2, <2>3 DEF Calls!Init
  <1>2. WireInv /\ [Next]_vars => [Calls!Next]_(Calls!call)
    <2>1. SUFFICES ASSUME WireInv, [Next]_vars PROVE [Calls!Next]_(Calls!call)
      OBVIOUS
    <2>2. \/ Turn = "idle" /\ Turn' = "asked"
             /\ Request' \in Requests \cup {<<>>} /\ Reply' = Reply
          \/ Turn = "asked" /\ Turn' = "answered"
             /\ Reply' \in {Shown(m) : m \in Replies} \cup {<<>>} /\ Request' = Request
          \/ Turn = "answered" /\ Turn' = "idle" /\ Request' = Request /\ Reply' = Reply
          \/ Turn' = Turn /\ Request' = Request /\ Reply' = Reply
      BY <2>1, CallStep
    <2>3. QED
      BY <2>2 DEF Turn, Request, Reply, Calls!Next, Calls!Ask, Calls!Answer, Calls!Return,
                  Calls!call
  <1>3. WireInv /\ [Next]_vars => WireInv'
    BY WireStep
  <1>4. QED
    BY WireInit, <1>1, <1>2, <1>3, PTL DEF Spec, ImplementsRpc, Calls!Spec

=============================================================================
