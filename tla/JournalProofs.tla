----------------------------- MODULE JournalProofs -----------------------------
(***************************************************************************)
(* The properties of the guarded calls, their journal and its upload, for  *)
(* every number of calls, of concurrent uploads and of lost batches, and   *)
(* every batch size.                                                       *)
(*                                                                         *)
(* The journal (JournalInv): only the last line can be unreadable, and     *)
(* nothing is appended behind it; the first pieces of the lines are a      *)
(* chain of events with different hashes; a call that may run has its      *)
(* allowed decision on a line that no later append can reach, or is the    *)
(* one call whose decision made the last line unreadable.                  *)
(*                                                                         *)
(* The stream (StreamInv): the endpoint stores the events of the first n   *)
(* lines, for some n that never decreases; a batch in flight is a section  *)
(* of the journal, and what a run has behind it lies within those n lines. *)
(***************************************************************************)
EXTENDS JournalSync, FiniteSetTheorems, TLAPS

Hash == {GENESIS_PREVIOUS_HASH} \cup (GuardedCalls \X {"decision", "outcome"})

Event ==
    [type : {"decision"}, call : GuardedCalls, decision : {"allowed", "denied"}, prev : Hash]
    \cup
    [type : {"outcome"}, call : GuardedCalls,
     decision_event : GuardedCalls \X {"decision"}, prev : Hash]

Piece == Event \cup {Torn}

\* The event a line was begun with: it is never rewritten.
Begun(i) == lines[i][1]

Lines == 1..Len(lines)

\* What the event after the first n lines refers to.
HeadOf(n) == IF n = 0 THEN GENESIS_PREVIOUS_HASH ELSE EventHash(Begun(n))

JournalShape ==
    /\ lines \in Seq(Seq(Piece))
    /\ newline \in BOOLEAN
    /\ calls \in [GuardedCalls -> {"idle", "recorded", "executed", "ended"}]
    /\ executions \in [GuardedCalls -> Nat]
    /\ \A i \in Lines : /\ Len(lines[i]) >= 1
                        /\ i # Len(lines) => Parses(lines[i])
    /\ newline \/ Len(lines) >= 1

\* The first pieces are a chain of events with different hashes.
JournalLinks ==
    /\ \A i \in Lines : Begun(i) # Torn => Begun(i).prev = HeadOf(i - 1)
    /\ \A i, j \in Lines :
          Begun(i) # Torn /\ Begun(j) # Torn /\ EventHash(Begun(i)) = EventHash(Begun(j)) => i = j

\* What a call has not done yet is not in the journal.
CallsAhead ==
    \A c \in GuardedCalls, i \in Lines :
        Begun(i) # Torn /\ Begun(i).call = c =>
            /\ calls[c] # "idle"
            /\ calls[c] \in {"recorded", "executed"} => Begun(i).type = "decision"

Allows(e, c) == e.type = "decision" /\ e.call = c /\ e.decision = "allowed"

\* The allowed decision is on a line that the next append does not extend.
Settled(c) ==
    \E i \in Lines : Parses(lines[i]) /\ Allows(Begun(i), c) /\ (i # Len(lines) \/ newline)

\* The call's decision was written behind another event, on the last line.
Spoiled(c) ==
    Len(lines) >= 1 /\ Len(lines[Len(lines)]) = 2 /\ lines[Len(lines)][2] # Torn
    /\ lines[Len(lines)][2].call = c

Ran(c) == calls[c] \in {"recorded", "executed"} \/ executions[c] > 0

CallsDecided ==
    /\ \A c \in GuardedCalls : Ran(c) => Settled(c) \/ Spoiled(c)
    /\ \A c \in GuardedCalls : executions[c] <= IF calls[c] \in {"idle", "recorded"} THEN 0 ELSE 1

\* An outcome follows the allowed decision it answers.
OutcomesAnswer ==
    \A i \in Lines : Begun(i) # Torn /\ Begun(i).type = "outcome" =>
        /\ Begun(i).decision_event = <<Begun(i).call, "decision">>
        /\ \E j \in 1..(i - 1) : Allows(Begun(j), Begun(i).call)

JournalInv == JournalShape /\ JournalLinks /\ CallsAhead /\ CallsDecided /\ OutcomesAnswer

-----------------------------------------------------------------------------

\* The events of lines k + 1 .. k + Len(s).
Section(s, k) ==
    /\ k \in Nat
    /\ s \in Seq(Event)
    /\ k + Len(s) <= Len(lines)
    /\ \A i \in 1..Len(s) : s[i] = Begun(k + i)

\* The endpoint has verified the events of the first n lines.
Stores(n) ==
    /\ n \in 0..Len(lines)
    /\ StoredEvents = {Begun(i) : i \in 1..n}
    /\ StreamHead = HeadOf(n)
    /\ \A i \in 1..n : Begun(i) # Torn

\* A batch on its way.
InTransit(batch) == Len(batch) >= 1 /\ \E k \in Nat : Section(batch, k)

\* A run of the command: rest begins after line k, and what is before it is stored.
Uploading(run, k, n) ==
    /\ run = [pc |-> run.pc, events |-> run.events, rest |-> run.rest,
              resynced |-> run.resynced, continued |-> run.continued, answer |-> run.answer]
    /\ run.pc \in {"send", "answered"}
    /\ Section(run.events, 0)
    /\ Section(run.rest, k)
    /\ k + Len(run.rest) = Len(run.events)
    /\ Len(run.rest) >= 1
    /\ k <= n
    /\ run.pc = "answered" =>
          \/ run.answer.kind = "verified" /\ k + Len(NextChunk(run.rest)) <= n
          \/ run.answer.kind = "mismatch" /\ \E m \in 0..n : run.answer.head = HeadOf(m)

RunInv(run, n) ==
    \/ run = Over
    \/ run.pc = "reported" /\ Section(run.events, 0) /\ Len(run.events) <= n
    \/ \E k \in Nat : Uploading(run, k, n)

RunsInv(n) == \A u \in Uploaders : RunInv(syncRuns[u], n)

StreamInv ==
    /\ stream \in Seq(Seq(Event))
    /\ refused = {}
    /\ syncRuns = [u \in Uploaders |-> syncRuns[u]]
    /\ \A batch \in delayed : InTransit(batch)
    /\ \E n \in Nat : Stores(n) /\ RunsInv(n)

-----------------------------------------------------------------------------
(* Appending to the journal                                                *)

\* What every event has.
LEMMA EventFacts ==
    ASSUME NEW e \in Event
    PROVE  /\ e # Torn /\ e \in Piece
           /\ e.type \in {"decision", "outcome"} /\ e.call \in GuardedCalls
           /\ EventHash(e) \in Hash /\ EventHash(e) # GENESIS_PREVIOUS_HASH
<1>1. e.type \in {"decision", "outcome"} /\ e.call \in GuardedCalls
  BY DEF Event
<1>2. e # Torn
  BY <1>1 DEF Torn
<1>3. EventHash(e) # GENESIS_PREVIOUS_HASH
  BY DEF EventHash, GENESIS_PREVIOUS_HASH
<1> QED BY <1>1, <1>2, <1>3 DEF EventHash, Hash, Piece

\* A piece that is not the beginning of a torn line is an event.
LEMMA BegunFacts ==
    ASSUME JournalShape, NEW i \in Lines
    PROVE  Begun(i) \in Piece /\ (Begun(i) # Torn => Begun(i) \in Event)
<1>1. lines[i] \in Seq(Piece) /\ Len(lines[i]) >= 1
  BY DEF JournalShape, Lines
<1>2. Begun(i) \in Piece
  BY <1>1 DEF Begun
<1> QED BY <1>2 DEF Piece

\* A sequence with one more element.
LEMMA AppendFacts ==
    ASSUME NEW S, NEW s \in Seq(S), NEW p \in S
    PROVE  /\ Append(s, p) \in Seq(S)
           /\ Len(Append(s, p)) = Len(s) + 1
           /\ \A i \in 1..Len(s) : Append(s, p)[i] = s[i] /\ s[i] \in S
           /\ Append(s, p)[Len(s) + 1] = p
<1>1. Append(s, p) \in Seq(S) /\ Len(Append(s, p)) = Len(s) + 1
  OBVIOUS
<1>2. \A i \in 1..Len(s) : Append(s, p)[i] = s[i]
  OBVIOUS
<1>3. \A i \in 1..Len(s) : s[i] \in S
  OBVIOUS
<1>4. Append(s, p)[Len(s) + 1] = p
  OBVIOUS
<1> QED BY <1>1, <1>2, <1>3, <1>4

\* A second piece behind the only one of a line.
LEMMA SecondPiece ==
    ASSUME NEW S, NEW s \in Seq(S), Len(s) = 1, NEW p \in S
    PROVE  Append(s, p) = <<s[1], p>>
<1>1. PICK t : t = Append(s, p)
  OBVIOUS
<1>2. /\ t \in Seq(S) /\ Len(t) = Len(s) + 1 /\ t[Len(s) + 1] = p
      /\ \A i \in 1..Len(s) : t[i] = s[i] /\ s[i] \in S
  BY <1>1, AppendFacts
<1>3. Len(t) = 2 /\ t[1] = s[1] /\ t[2] = p
  BY <1>2
<1>4. t = <<t[1], t[2]>>
  BY <1>2, <1>3
<1> QED BY <1>1, <1>3, <1>4

\* The file after a piece was written at its end: on a new line, or on the last one.
LEMMA Grown ==
    ASSUME JournalShape, TailIntact, NEW p \in Piece, lines' = Extended(p)
    PROVE  /\ Len(lines) \in Nat
           /\ lines' \in Seq(Seq(Piece))
           /\ newline => /\ Len(lines') = Len(lines) + 1
                         /\ \A i \in Lines : lines'[i] = lines[i]
                         /\ lines'[Len(lines) + 1] = <<p>>
           /\ ~newline => /\ Len(lines') = Len(lines)
                          /\ Len(lines) >= 1
                          /\ \A i \in Lines : i # Len(lines) => lines'[i] = lines[i]
                          /\ lines'[Len(lines)] = <<Begun(Len(lines)), p>>
                          /\ Begun(Len(lines)) # Torn
<1>1. Len(lines) \in Nat /\ lines \in Seq(Seq(Piece))
  BY DEF JournalShape
<1>2. CASE newline
  <2>1. lines' = Append(lines, <<p>>)
    BY <1>2 DEF Extended
  <2>2. <<p>> \in Seq(Piece)
    OBVIOUS
  <2> QED BY <1>1, <1>2, <2>1, <2>2 DEF Lines
<1>3. CASE ~newline
  <2>1. Len(lines) >= 1 /\ Len(lines) \in Lines
    BY <1>1, <1>3 DEF JournalShape, Lines
  <2>2. Len(lines[Len(lines)]) = 1 /\ Begun(Len(lines)) # Torn
    BY <1>1, <2>1 DEF TailIntact, Parses, Begun
  <2>3. lines[Len(lines)] \in Seq(Piece)
    BY <1>1, <2>1 DEF Lines
  <2>4. Append(lines[Len(lines)], p) = <<Begun(Len(lines)), p>>
    BY <2>2, <2>3, SecondPiece DEF Begun
  <2>5. lines' = [lines EXCEPT ![Len(lines)] = <<Begun(Len(lines)), p>>]
    BY <1>3, <2>4 DEF Extended
  <2>6. <<Begun(Len(lines)), p>> \in Seq(Piece)
    BY <2>1, BegunFacts
  <2> QED BY <1>1, <1>3, <2>1, <2>2, <2>5, <2>6 DEF Lines
<1> QED BY <1>2, <1>3, <1>1

\* No append touches the beginning of a line that is there.
BegunStay ==
    /\ Len(lines) \in Nat /\ Len(lines') \in Nat
    /\ Len(lines) <= Len(lines')
    /\ \A i \in Lines : i \in Lines' /\ Begun(i)' = Begun(i)

LEMMA AppendKeeps ==
    ASSUME JournalShape, TailIntact, NEW p \in Piece, lines' = Extended(p)
    PROVE  BegunStay
<1>1. CASE newline
  BY <1>1, Grown DEF BegunStay, Begun, Lines
<1>2. CASE ~newline
  <2>1. \A i \in Lines : i # Len(lines) => Begun(i)' = Begun(i)
    BY <1>2, Grown DEF Begun
  <2>2. Begun(Len(lines))' = Begun(Len(lines))
    <3>1. lines'[Len(lines)] = <<Begun(Len(lines)), p>>
      BY <1>2, Grown
    <3>2. lines'[Len(lines)][1] = Begun(Len(lines))
      BY <3>1
    <3>3. Len(lines') = Len(lines)
      BY <1>2, Grown
    <3> QED BY <3>2, <3>3 DEF Begun
  <2> QED BY <1>2, <2>1, <2>2, Grown DEF BegunStay, Lines
<1> QED BY <1>1, <1>2
-----------------------------------------------------------------------------
(* A guarded call                                                          *)

\* The call c goes to state s having tried to append e, of which p is written if anything.
Writes(c, e, p, s) ==
    /\ c \in GuardedCalls /\ e \in Event /\ p \in {e, Torn} /\ s \in {"recorded", "ended"}
    /\ e.call = c /\ e.prev = ReadLastEventHash
    /\ calls' = [calls EXCEPT ![c] = s]
    /\ UNCHANGED executions
    /\ newline' \in BOOLEAN
    /\ \/ calls[c] = "idle" /\ e.type = "decision"
       \/ /\ calls[c] = "executed" /\ e.type = "outcome" /\ s = "ended"
          /\ e.decision_event = <<c, "decision">>
    /\ s = "recorded" => Allows(e, c) /\ p = e /\ newline' /\ TailIntact /\ lines' = Extended(p)
    /\ \/ UNCHANGED <<lines, newline>>
       \/ TailIntact /\ lines' = Extended(p)

\* The head a new event links to.
LEMMA LastHash ==
    ASSUME JournalShape
    PROVE  ReadLastEventHash = HeadOf(Len(lines)) /\ Len(lines) \in Nat
<1>1. Len(lines) \in Nat /\ (lines = <<>> <=> Len(lines) = 0)
  BY DEF JournalShape
<1> QED BY <1>1 DEF ReadLastEventHash, HeadOf, Begun

\* The event is not in the journal yet.
LEMMA NewHash ==
    ASSUME JournalInv, NEW c, NEW e, NEW p, NEW s, Writes(c, e, p, s),
           NEW i \in Lines, Begun(i) # Torn
    PROVE  EventHash(Begun(i)) # EventHash(e)
<1>1. c \in GuardedCalls /\ e.call = c
  BY DEF Writes
<1>2. CASE Begun(i).call # c
  BY <1>1, <1>2 DEF EventHash
<1>3. CASE Begun(i).call = c
  <2>1. calls[c] # "idle" /\ (calls[c] \in {"recorded", "executed"} => Begun(i).type = "decision")
    BY <1>1, <1>3 DEF JournalInv, CallsAhead
  <2>2. e.type = "outcome" /\ Begun(i).type = "decision"
    BY <2>1 DEF Writes
  <2> QED BY <2>2 DEF EventHash
<1> QED BY <1>2, <1>3

\* A new line after the first n begins with the piece, and they are as before.
NewLine(p, n) ==
    /\ n \in Nat /\ Len(lines) = n /\ Len(lines') = n + 1
    /\ \A i \in Lines : lines'[i] = lines[i] /\ Begun(i)' = Begun(i) /\ i \in Lines'
    /\ lines'[n + 1] = <<p>>
    /\ Begun(n + 1)' = p
    /\ n + 1 \in Lines'
    /\ \A i \in Lines' : i \in Lines \/ i = n + 1

\* The last line gets a second piece, and every other line is as before.
SpoiledLine(p) ==
    /\ Len(lines) \in Nat \ {0}
    /\ Lines' = Lines
    /\ Len(lines') = Len(lines)
    /\ \A i \in Lines : Begun(i)' = Begun(i)
    /\ \A i \in Lines : i # Len(lines) => lines'[i] = lines[i]
    /\ lines'[Len(lines)] = <<Begun(Len(lines)), p>>
    /\ Begun(Len(lines)) # Torn
    /\ ~newline

LEMMA LineWritten ==
    ASSUME JournalShape, TailIntact, NEW p \in Piece, lines' = Extended(p),
           NEW n, n = Len(lines)
    PROVE  /\ newline => NewLine(p, n)
           /\ ~newline => SpoiledLine(p)
<1>1. BegunStay
  BY AppendKeeps
<1>2. CASE newline
  <2>1. /\ n \in Nat /\ Len(lines) = n /\ Len(lines') = n + 1
        /\ \A i \in Lines : lines'[i] = lines[i]
        /\ lines'[n + 1] = <<p>>
    BY <1>2, Grown
  <2>2. Begun(n + 1)' = p
    BY <2>1 DEF Begun
  <2>3. n + 1 \in Lines' /\ \A i \in Lines' : i \in Lines \/ i = n + 1
    BY <2>1 DEF Lines
  <2> QED BY <1>1, <1>2, <2>1, <2>2, <2>3 DEF NewLine, BegunStay
<1>3. CASE ~newline
  <2>1. /\ Len(lines) \in Nat \ {0} /\ Len(lines') = Len(lines)
        /\ \A i \in Lines : i # Len(lines) => lines'[i] = lines[i]
        /\ lines'[Len(lines)] = <<Begun(Len(lines)), p>>
        /\ Begun(Len(lines)) # Torn
    BY <1>3, Grown
  <2>2. Lines' = Lines
    BY <2>1 DEF Lines
  <2> QED BY <1>1, <1>3, <2>1, <2>2 DEF SpoiledLine, BegunStay
<1> QED BY <1>2, <1>3

\* The three things that can happen to the file.
LEMMA WriteCases ==
    ASSUME JournalShape, NEW c, NEW e, NEW p, NEW s, Writes(c, e, p, s), NEW n, n = Len(lines)
    PROVE  /\ p \in Piece
           /\ \/ UNCHANGED <<lines, newline>>
              \/ TailIntact /\ newline /\ NewLine(p, n)
              \/ TailIntact /\ ~newline /\ SpoiledLine(p)
<1>1. p \in Piece
  BY DEF Writes, Piece
<1> QED BY <1>1, LineWritten DEF Writes

LEMMA WriteShape ==
    ASSUME JournalShape, NEW c, NEW e, NEW p, NEW s, Writes(c, e, p, s)
    PROVE  JournalShape'
<1>1. PICK n : n = Len(lines)
  OBVIOUS
<1>2. calls' \in [GuardedCalls -> {"idle", "recorded", "executed", "ended"}]
  BY DEF Writes, JournalShape
<1>3. executions' \in [GuardedCalls -> Nat] /\ newline' \in BOOLEAN
  BY DEF Writes, JournalShape
<1>4. CASE UNCHANGED <<lines, newline>>
  BY <1>2, <1>3, <1>4 DEF JournalShape, Lines, Parses
<1>5. CASE TailIntact /\ newline /\ NewLine(p, n)
  <2>1. lines' \in Seq(Seq(Piece))
    BY <1>1, <1>5, WriteCases, Grown DEF Writes, JournalShape, NewLine
  <2>2. \A i \in Lines : Len(lines[i]) >= 1 /\ Parses(lines[i])
    BY <1>5 DEF JournalShape, Lines, TailIntact, NewLine
  <2>3. Len(<<p>>) >= 1 /\ n + 1 >= 1
    BY <1>5 DEF NewLine
  <2>4. \A i \in Lines' : /\ Len(lines'[i]) >= 1
                          /\ i # Len(lines') => Parses(lines'[i])
    BY <1>5, <2>2, <2>3 DEF NewLine
  <2> QED BY <1>2, <1>3, <1>5, <2>1, <2>3, <2>4 DEF JournalShape, NewLine
<1>6. CASE TailIntact /\ ~newline /\ SpoiledLine(p)
  <2>1. lines' \in Seq(Seq(Piece))
    BY <1>1, <1>6, WriteCases, Grown DEF Writes, JournalShape, SpoiledLine
  <2>2. \A i \in Lines : i # Len(lines) => Len(lines'[i]) >= 1 /\ Parses(lines'[i])
    BY <1>6 DEF JournalShape, SpoiledLine
  <2>3. Len(lines'[Len(lines)]) >= 1
    BY <1>6 DEF SpoiledLine
  <2>4. \A i \in Lines' : /\ Len(lines'[i]) >= 1
                          /\ i # Len(lines') => Parses(lines'[i])
    BY <1>6, <2>2, <2>3 DEF SpoiledLine
  <2> QED BY <1>2, <1>3, <1>6, <2>1, <2>4 DEF JournalShape, SpoiledLine
<1> QED BY <1>1, <1>4, <1>5, <1>6, WriteCases

LEMMA WriteLinks ==
    ASSUME JournalInv, NEW c, NEW e, NEW p, NEW s, Writes(c, e, p, s)
    PROVE  JournalLinks'
<1>1. PICK n : n = Len(lines)
  OBVIOUS
<1>2. JournalShape /\ JournalLinks
  BY DEF JournalInv
<1>3. CASE UNCHANGED <<lines, newline>>
  BY <1>2, <1>3 DEF JournalLinks, Lines, Begun, HeadOf
<1>4. CASE TailIntact /\ newline /\ NewLine(p, n)
  <2>1. p # Torn => p = e /\ p.prev = HeadOf(n)
    BY <1>1, <1>2, LastHash DEF Writes
  <2>2. \A m \in 0..n : HeadOf(m)' = HeadOf(m)
    BY <1>4 DEF HeadOf, NewLine, Lines
  <2>3. ASSUME NEW i \in Lines', Begun(i)' # Torn PROVE Begun(i)'.prev = HeadOf(i - 1)'
    <3>1. CASE i \in Lines
      <4>1. i - 1 \in 0..n
        BY <1>4, <3>1 DEF NewLine, Lines
      <4> QED BY <1>2, <1>4, <2>2, <2>3, <3>1, <4>1 DEF JournalLinks, NewLine
    <3>2. CASE i = n + 1
      <4>1. n \in Nat /\ i - 1 = n /\ n \in 0..n
        BY <1>4, <3>2 DEF NewLine
      <4>2. Begun(i)' = p
        BY <1>4, <3>2 DEF NewLine
      <4> QED BY <2>1, <2>2, <2>3, <4>1, <4>2
    <3> QED BY <1>4, <3>1, <3>2 DEF NewLine
  <2>4. \A i \in Lines : Begun(i) # Torn => EventHash(Begun(i)) # EventHash(e)
    BY NewHash
  <2>5. \A i, j \in Lines' :
           Begun(i)' # Torn /\ Begun(j)' # Torn /\ EventHash(Begun(i))' = EventHash(Begun(j))'
           => i = j
    BY <1>2, <1>4, <2>1, <2>4 DEF JournalLinks, NewLine, EventHash
  <2> QED BY <2>3, <2>5 DEF JournalLinks
<1>5. CASE TailIntact /\ ~newline /\ SpoiledLine(p)
  <2>1. \A i \in Lines : HeadOf(i - 1)' = HeadOf(i - 1)
    BY <1>5 DEF HeadOf, SpoiledLine, Lines
  <2> QED BY <1>2, <1>5, <2>1 DEF JournalLinks, SpoiledLine, EventHash
<1> QED BY <1>1, <1>2, <1>3, <1>4, <1>5, WriteCases

\* The events a step adds to the beginnings of lines.
LEMMA WriteBegins ==
    ASSUME JournalInv, NEW c, NEW e, NEW p, NEW s, Writes(c, e, p, s), NEW i \in Lines'
    PROVE  \/ i \in Lines /\ Begun(i)' = Begun(i)
           \/ /\ TailIntact /\ i = Len(lines) + 1 /\ Begun(i)' = p
              /\ \A j \in Lines : Begun(j)' = Begun(j)
<1>1. PICK n : n = Len(lines)
  OBVIOUS
<1>2. JournalShape
  BY DEF JournalInv
<1>3. CASE UNCHANGED <<lines, newline>>
  BY <1>3 DEF Lines, Begun
<1>4. CASE TailIntact /\ newline /\ NewLine(p, n)
  BY <1>4 DEF NewLine
<1>5. CASE TailIntact /\ ~newline /\ SpoiledLine(p)
  BY <1>5 DEF SpoiledLine
<1> QED BY <1>1, <1>2, <1>3, <1>4, <1>5, WriteCases

LEMMA WriteAhead ==
    ASSUME JournalInv, NEW c, NEW e, NEW p, NEW s, Writes(c, e, p, s)
    PROVE  CallsAhead'
<1> SUFFICES ASSUME NEW d \in GuardedCalls, NEW i \in Lines', Begun(i)' # Torn, Begun(i)'.call = d
             PROVE  /\ calls'[d] # "idle"
                    /\ calls'[d] \in {"recorded", "executed"} => Begun(i)'.type = "decision"
    BY DEF CallsAhead
<1>1. /\ d # c => calls'[d] = calls[d]
      /\ d = c => calls'[d] = s /\ s \in {"recorded", "ended"}
  BY DEF JournalInv, JournalShape, Writes
<1>2. CASE i \in Lines /\ Begun(i)' = Begun(i)
  <2>1. /\ calls[d] # "idle"
        /\ calls[d] \in {"recorded", "executed"} => Begun(i).type = "decision"
    BY <1>2 DEF JournalInv, CallsAhead
  <2>2. d = c => calls'[d] = "ended"
    BY <1>1, <2>1 DEF Writes
  <2> QED BY <1>1, <1>2, <2>1, <2>2
<1>3. CASE Begun(i)' = p
  <2>1. p = e /\ d = c
    BY <1>3 DEF Writes
  <2>2. s = "recorded" => e.type = "decision"
    BY DEF Writes
  <2> QED BY <1>1, <1>3, <2>1, <2>2
<1> QED BY <1>2, <1>3, WriteBegins

\* A settled decision stays settled, and nothing is written behind a spoiled line.
LEMMA SettledStays ==
    ASSUME JournalInv, NEW c, NEW e, NEW p, NEW s, Writes(c, e, p, s), NEW d
    PROVE  /\ Settled(d) => Settled(d)'
           /\ Spoiled(d) => Spoiled(d)' /\ ~TailIntact
<1>1. PICK n : n = Len(lines)
  OBVIOUS
<1>2. JournalShape
  BY DEF JournalInv
<1>3. Spoiled(d) => ~TailIntact
  BY <1>2 DEF Spoiled, TailIntact, Parses, JournalShape
<1>4. CASE UNCHANGED <<lines, newline>>
  BY <1>3, <1>4 DEF Settled, Spoiled, Lines, Begun
<1>5. CASE TailIntact /\ newline /\ NewLine(p, n)
  <2>1. \A i \in Lines : i # Len(lines')
    BY <1>5 DEF NewLine, Lines
  <2> QED BY <1>3, <1>5, <2>1 DEF Settled, NewLine
<1>6. CASE TailIntact /\ ~newline /\ SpoiledLine(p)
  BY <1>3, <1>6 DEF Settled, SpoiledLine
<1> QED BY <1>1, <1>2, <1>4, <1>5, <1>6, WriteCases

LEMMA WriteDecided ==
    ASSUME JournalInv, NEW c, NEW e, NEW p, NEW s, Writes(c, e, p, s)
    PROVE  CallsDecided'
<1>1. /\ c \in GuardedCalls /\ e.call = c
      /\ \A d \in GuardedCalls : d # c => calls'[d] = calls[d]
      /\ calls'[c] = s /\ s \in {"recorded", "ended"}
      /\ executions' = executions
      /\ s = "recorded" => calls[c] = "idle"
      /\ calls[c] \in {"idle", "executed"}
  BY DEF JournalInv, JournalShape, Writes
<1>2. \A d \in GuardedCalls :
         executions'[d] <= IF calls'[d] \in {"idle", "recorded"} THEN 0 ELSE 1
  BY <1>1 DEF JournalInv, JournalShape, CallsDecided
<1>3. ASSUME NEW d \in GuardedCalls, Ran(d) PROVE Settled(d)' \/ Spoiled(d)'
  BY <1>3, SettledStays DEF JournalInv, CallsDecided
<1>4. ASSUME s = "recorded" PROVE Settled(c)' \/ Spoiled(c)'
  <2>1. /\ Allows(e, c) /\ p = e /\ newline' /\ TailIntact /\ lines' = Extended(p)
        /\ p \in Piece /\ p # Torn
    BY <1>4, EventFacts DEF Writes
  <2>2. PICK n : n = Len(lines)
    OBVIOUS
  <2>3. JournalShape
    BY DEF JournalInv
  <2>4. CASE newline
    <3>1. NewLine(p, n)
      BY <2>1, <2>2, <2>3, <2>4, LineWritten
    <3>2. Parses(<<p>>)
      BY <2>1 DEF Parses
    <3>3. n + 1 \in Lines' /\ Parses(lines'[n + 1]) /\ Allows(Begun(n + 1)', c)
      BY <2>1, <3>1, <3>2 DEF NewLine
    <3> QED BY <2>1, <3>3 DEF Settled
  <2>5. CASE ~newline
    <3>1. SpoiledLine(p)
      BY <2>1, <2>2, <2>3, <2>5, LineWritten
    <3>2. Len(lines') >= 1 /\ lines'[Len(lines')] = <<Begun(Len(lines)), p>>
      BY <3>1 DEF SpoiledLine
    <3>3. Len(lines'[Len(lines')]) = 2 /\ lines'[Len(lines')][2] = p
      BY <3>2
    <3> QED BY <1>1, <2>1, <3>2, <3>3 DEF Spoiled
  <2> QED BY <2>4, <2>5
<1>5. \A d \in GuardedCalls : Ran(d)' => Ran(d) \/ (d = c /\ s = "recorded")
  BY <1>1 DEF Ran
<1> QED BY <1>2, <1>3, <1>4, <1>5 DEF CallsDecided

LEMMA WriteAnswers ==
    ASSUME JournalInv, NEW c, NEW e, NEW p, NEW s, Writes(c, e, p, s)
    PROVE  OutcomesAnswer'
<1> SUFFICES ASSUME NEW i \in Lines', Begun(i)' # Torn, Begun(i)'.type = "outcome"
             PROVE  /\ Begun(i)'.decision_event = <<Begun(i)'.call, "decision">>
                    /\ \E j \in 1..(i - 1) : Allows(Begun(j)', Begun(i)'.call)
    BY DEF OutcomesAnswer, Allows
<1>0. Len(lines) \in Nat
  BY DEF JournalInv, JournalShape
<1>1. CASE i \in Lines /\ Begun(i)' = Begun(i)
  <2>1. PICK j \in 1..(i - 1) : Allows(Begun(j), Begun(i).call)
    BY <1>1 DEF JournalInv, OutcomesAnswer
  <2>2. j \in Lines /\ j \in Lines' /\ j # Len(lines) + 1
    BY <1>0, <1>1, <2>1 DEF Lines
  <2>3. Begun(j)' = Begun(j)
    BY <2>2, WriteBegins
  <2> QED BY <1>1, <2>1, <2>3 DEF JournalInv, OutcomesAnswer
<1>2. CASE /\ TailIntact /\ i = Len(lines) + 1 /\ Begun(i)' = p
           /\ \A j \in Lines : Begun(j)' = Begun(j)
  <2>1. /\ p = e /\ e.type = "outcome" /\ calls[c] = "executed" /\ c \in GuardedCalls
        /\ e.decision_event = <<c, "decision">> /\ e.call = c
    BY <1>2 DEF Writes
  <2>2. Settled(c)
    BY <1>2, <2>1, SettledStays DEF JournalInv, CallsDecided, Ran
  <2>3. PICK j \in Lines : Allows(Begun(j), c)
    BY <2>2 DEF Settled
  <2>4. j \in 1..(i - 1)
    BY <1>0, <1>2 DEF Lines
  <2> QED BY <1>2, <2>1, <2>3, <2>4
<1> QED BY <1>1, <1>2, WriteBegins

LEMMA WriteStep ==
    ASSUME JournalInv, NEW c, NEW e, NEW p, NEW s, Writes(c, e, p, s)
    PROVE  JournalInv'
<1>1. JournalShape'
  BY WriteShape DEF JournalInv
<1> QED BY <1>1, WriteLinks, WriteAhead, WriteDecided, WriteAnswers DEF JournalInv

\* The call c goes to state s without touching the file; its function ran r times.
Moves(c, s, r) ==
    /\ c \in GuardedCalls /\ r \in {0, 1}
    /\ calls' = [calls EXCEPT ![c] = s]
    /\ executions' = [executions EXCEPT ![c] = @ + r]
    /\ UNCHANGED <<lines, newline>>
    /\ \/ calls[c] = "recorded" /\ s \in {"executed", "ended"}
       \/ calls[c] \in {"idle", "executed"} /\ s = "ended" /\ r = 0

LEMMA MoveStep ==
    ASSUME JournalInv, NEW c, NEW s, NEW r, Moves(c, s, r)
    PROVE  JournalInv'
<1>1. /\ c \in GuardedCalls /\ r \in {0, 1}
      /\ \A d \in GuardedCalls : d # c => calls'[d] = calls[d] /\ executions'[d] = executions[d]
      /\ calls'[c] = s /\ executions'[c] = executions[c] + r
      /\ calls' \in [GuardedCalls -> {"idle", "recorded", "executed", "ended"}]
      /\ executions' \in [GuardedCalls -> Nat]
      /\ \/ calls[c] = "recorded" /\ s \in {"executed", "ended"}
         \/ calls[c] \in {"idle", "executed"} /\ s = "ended" /\ r = 0
  BY DEF JournalInv, JournalShape, Moves
<1>2. /\ UNCHANGED <<lines, newline>> /\ Lines' = Lines /\ \A i : Begun(i)' = Begun(i)
      /\ \A i : HeadOf(i)' = HeadOf(i)
  BY DEF Moves, Lines, Begun, HeadOf
<1>3. JournalShape'
  BY <1>1, <1>2 DEF JournalInv, JournalShape
<1>4. JournalLinks' /\ OutcomesAnswer'
  BY <1>2 DEF JournalInv, JournalLinks, OutcomesAnswer, Allows
<1>5. CallsAhead'
  BY <1>1, <1>2 DEF JournalInv, CallsAhead
<1>6. \A d : (Settled(d)' <=> Settled(d)) /\ (Spoiled(d)' <=> Spoiled(d))
  BY <1>2 DEF Settled, Spoiled
<1>7. \A d \in GuardedCalls : Ran(d)' => Ran(d)
  BY <1>1 DEF Ran, JournalInv, JournalShape
<1>8. \A d \in GuardedCalls :
         executions'[d] <= IF calls'[d] \in {"idle", "recorded"} THEN 0 ELSE 1
  BY <1>1 DEF JournalInv, JournalShape, CallsDecided
<1>9. CallsDecided'
  BY <1>6, <1>7, <1>8 DEF JournalInv, CallsDecided
<1> QED BY <1>3, <1>4, <1>5, <1>9 DEF JournalInv

\* The events calls append.
LEMMA NewEvents ==
    ASSUME JournalShape, TailIntact, NEW c \in GuardedCalls, NEW v \in {"allowed", "denied"}
    PROVE  DecisionEvent(c, v) \in Event /\ OutcomeEvent(c) \in Event
<1>1. ReadLastEventHash \in Hash
  <2>1. CASE lines = <<>>
    BY <2>1 DEF ReadLastEventHash, Hash
  <2>2. CASE lines # <<>>
    <3>1. Len(lines) \in Lines
      BY <2>2 DEF JournalShape, Lines
    <3>2. Begun(Len(lines)) # Torn
      BY <2>2 DEF TailIntact, Parses, Begun
    <3>3. EventHash(Begun(Len(lines))) \in Hash
      BY <3>1, <3>2, BegunFacts, EventFacts
    <3> QED BY <2>2, <3>3 DEF ReadLastEventHash, Begun
  <2> QED BY <2>1, <2>2
<1>2. PICK h \in Hash : h = ReadLastEventHash
  BY <1>1
<1> QED BY <1>2 DEF DecisionEvent, OutcomeEvent, Event

\* What an append can have done.
LEMMA AppendCases ==
    ASSUME NEW e, AppendFails(e)
    PROVE  \/ UNCHANGED <<lines, newline>>
           \/ TailIntact /\ newline' \in BOOLEAN /\ \E p \in {e, Torn} : lines' = Extended(p)
  BY DEF AppendFails, AppendEvent

\* What one step of a call does.
CallSteps ==
    \/ \E c, s, r : Moves(c, s, r)
    \/ \E c, e, p, s : Writes(c, e, p, s)

LEMMA DecisionSteps ==
    ASSUME JournalShape, NEW c \in GuardedCalls, NEW v \in {"allowed", "denied"},
           AppendDecision(c, v) \/ DecisionNotRecorded(c, v)
    PROVE  CallSteps
<1>1. PICK e : e = DecisionEvent(c, v)
  OBVIOUS
<1>2. e.call = c /\ e.type = "decision" /\ e.decision = v /\ e.prev = ReadLastEventHash
  BY <1>1 DEF DecisionEvent
<1>3. CASE AppendDecision(c, v)
  <2>1. /\ TailIntact /\ e \in Event /\ lines' = Extended(e) /\ newline' = TRUE
    BY <1>1, <1>3, NewEvents DEF AppendDecision, AppendEvent
  <2>2. PICK s : s = IF v = "allowed" THEN "recorded" ELSE "ended"
    OBVIOUS
  <2>3. calls[c] = "idle" /\ calls' = [calls EXCEPT ![c] = s] /\ UNCHANGED executions
    BY <1>3, <2>2 DEF AppendDecision
  <2>4. Writes(c, e, e, s)
    BY <1>2, <2>1, <2>2, <2>3 DEF Writes, Allows
  <2> QED BY <2>4 DEF CallSteps
<1>4. CASE DecisionNotRecorded(c, v)
  <2>1. calls[c] = "idle" /\ calls' = [calls EXCEPT ![c] = "ended"] /\ UNCHANGED executions
    BY <1>4 DEF DecisionNotRecorded, EndCall
  <2>2. CASE UNCHANGED <<lines, newline>>
    <3>1. executions' = [executions EXCEPT ![c] = @ + 0]
      BY <2>1 DEF JournalShape
    <3>2. Moves(c, "ended", 0)
      BY <2>1, <2>2, <3>1 DEF Moves
    <3> QED BY <3>2 DEF CallSteps
  <2>3. ASSUME TailIntact, newline' \in BOOLEAN, NEW p \in {e, Torn}, lines' = Extended(p)
        PROVE  CallSteps
    <3>1. e \in Event
      BY <1>1, <2>3, NewEvents
    <3>2. Writes(c, e, p, "ended")
      BY <1>2, <2>1, <2>3, <3>1 DEF Writes
    <3> QED BY <3>2 DEF CallSteps
  <2> QED BY <1>1, <1>4, <2>2, <2>3, AppendCases DEF DecisionNotRecorded
<1> QED BY <1>3, <1>4

LEMMA OutcomeSteps ==
    ASSUME JournalShape, NEW c \in GuardedCalls, AppendOutcome(c) \/ OutcomeNotRecorded(c)
    PROVE  CallSteps
<1>1. PICK e : e = OutcomeEvent(c)
  OBVIOUS
<1>2. /\ e.call = c /\ e.type = "outcome" /\ e.decision_event = <<c, "decision">>
      /\ e.prev = ReadLastEventHash
  BY <1>1 DEF OutcomeEvent
<1>3. calls[c] = "executed" /\ calls' = [calls EXCEPT ![c] = "ended"] /\ UNCHANGED executions
  BY DEF AppendOutcome, OutcomeNotRecorded, EndCall
<1>4. AppendFails(e)
  BY <1>1 DEF AppendOutcome, OutcomeNotRecorded, AppendFails
<1>5. CASE UNCHANGED <<lines, newline>>
  <2>1. executions' = [executions EXCEPT ![c] = @ + 0]
    BY <1>3 DEF JournalShape
  <2>2. Moves(c, "ended", 0)
    BY <1>3, <1>5, <2>1 DEF Moves
  <2> QED BY <2>2 DEF CallSteps
<1>6. ASSUME TailIntact, newline' \in BOOLEAN, NEW p \in {e, Torn}, lines' = Extended(p)
      PROVE  CallSteps
  <2>1. e \in Event
    BY <1>1, <1>6, NewEvents
  <2>2. Writes(c, e, p, "ended")
    BY <1>2, <1>3, <1>6, <2>1 DEF Writes
  <2> QED BY <2>2 DEF CallSteps
<1> QED BY <1>4, <1>5, <1>6, AppendCases

LEMMA GuardSteps ==
    ASSUME JournalShape, GuardNext
    PROVE  CallSteps
<1>1. PICK c \in GuardedCalls :
         \/ \E v \in {"allowed", "denied"} : AppendDecision(c, v) \/ DecisionNotRecorded(c, v)
         \/ Execute(c) \/ Interrupted(c) \/ AppendOutcome(c) \/ OutcomeNotRecorded(c)
  BY DEF GuardNext
<1>2. CASE Execute(c)
  <2>1. Moves(c, "executed", 1)
    BY <1>2 DEF Moves, Execute
  <2> QED BY <2>1 DEF CallSteps
<1>3. CASE Interrupted(c)
  <2>1. \E r \in {0, 1} : Moves(c, "ended", r)
    BY <1>3 DEF Moves, Interrupted, EndCall
  <2> QED BY <2>1 DEF CallSteps
<1> QED BY <1>1, <1>2, <1>3, DecisionSteps, OutcomeSteps

\* A step of the calls keeps the journal's invariant and the beginnings of its lines.
LEMMA GuardStep ==
    ASSUME JournalInv, GuardNext
    PROVE  JournalInv' /\ BegunStay
<1>1. JournalShape /\ CallSteps
  BY GuardSteps DEF JournalInv
<1>2. JournalInv'
  BY <1>1, WriteStep, MoveStep DEF CallSteps
<1>3. UNCHANGED <<lines, newline>> => BegunStay
  BY <1>1 DEF BegunStay, JournalShape, Lines, Begun
<1>4. ASSUME NEW c, NEW e, NEW p, NEW s, Writes(c, e, p, s) PROVE BegunStay
  <2>1. p \in Piece
    BY <1>1, <1>4, WriteCases
  <2> QED BY <1>1, <1>3, <1>4, <2>1, AppendKeeps DEF Writes
<1>5. ASSUME NEW c, NEW s, NEW r, Moves(c, s, r) PROVE BegunStay
  BY <1>3, <1>5 DEF Moves
<1> QED BY <1>1, <1>2, <1>4, <1>5 DEF CallSteps

\* A call that has run and whose decision cannot be read is the one that spoiled the tail.
LEMMA GuardStops == JournalInv => UnreadableDecisionStopsGuard
<1> SUFFICES ASSUME JournalInv PROVE UnreadableDecisionStopsGuard
    OBVIOUS
<1> DEFINE U == {c \in GuardedCalls : executions[c] > 0 /\ ~ ReadableDecision(c)}
<1>1. \A c \in GuardedCalls : executions[c] <= 1
  BY DEF JournalInv, JournalShape, CallsDecided
<1>2. \A c \in U : Spoiled(c)
  <2> SUFFICES ASSUME NEW c \in U PROVE Spoiled(c)
      OBVIOUS
  <2>1. Settled(c) => ReadableDecision(c)
    BY DEF Settled, ReadableDecision, Allows, Begun, Lines
  <2> QED BY <2>1 DEF JournalInv, CallsDecided, Ran
<1>3. \A c, d \in U : c = d
  BY <1>2 DEF Spoiled
<1>4. Cardinality(U) <= 1
  <2>1. CASE U = {}
    BY <2>1, FS_EmptySet
  <2>2. ASSUME NEW c \in U PROVE Cardinality(U) <= 1
    <3>1. U = {c}
      BY <1>3
    <3>2. Cardinality({c}) = 1
      BY FS_Singleton, Zenon
    <3> HIDE DEF U
    <3> QED BY <3>1, <3>2
  <2> HIDE DEF U
  <2> QED BY <2>1, <2>2
<1> QED BY <1>1, <1>4 DEF UnreadableDecisionStopsGuard

-----------------------------------------------------------------------------
(* Sections of the journal                                                 *)

\* A section of the journal consists of events.
LEMMA SectionEvents ==
    ASSUME JournalShape, NEW s, NEW k, Section(s, k)
    PROVE  /\ Len(s) \in Nat /\ k \in Nat /\ Len(lines) \in Nat
           /\ \A i \in 1..Len(s) : /\ s[i] \in Event /\ s[i] = Begun(k + i)
                                   /\ k + i \in Lines /\ Begun(k + i) # Torn
<1>1. Len(s) \in Nat /\ k \in Nat /\ Len(lines) \in Nat /\ k + Len(s) <= Len(lines)
  BY DEF Section, JournalShape
<1>2. \A i \in 1..Len(s) : s[i] \in Event /\ s[i] = Begun(k + i)
  BY DEF Section
<1>3. \A i \in 1..Len(s) : k + i \in Lines
  BY <1>1 DEF Lines
<1> QED BY <1>1, <1>2, <1>3, EventFacts

\* A part of a section is a section.
LEMMA SubSection ==
    ASSUME JournalShape, NEW s, NEW k, Section(s, k),
           NEW a \in Nat, NEW b \in Nat, 1 <= a, a <= b + 1, b <= Len(s)
    PROVE  /\ Section(SubSeq(s, a, b), k + (a - 1))
           /\ Len(SubSeq(s, a, b)) = (b + 1) - a
<1>1. s \in Seq(Event) /\ Len(s) \in Nat /\ k \in Nat
  BY DEF Section
<1>2. PICK t : t = SubSeq(s, a, b)
  OBVIOUS
<1>3. t \in Seq(Event) /\ Len(t) = (b + 1) - a
  BY <1>1, <1>2
<1>4. \A i \in 1..Len(t) : t[i] = s[a + i - 1]
  BY <1>1, <1>2, <1>3
<1>5. \A i \in 1..Len(t) : a + i - 1 \in 1..Len(s) /\ k + (a + i - 1) = (k + (a - 1)) + i
  BY <1>1, <1>3
<1>6. \A i \in 1..Len(t) : t[i] = Begun((k + (a - 1)) + i)
  BY <1>4, <1>5 DEF Section
<1>7. (k + (a - 1)) + Len(t) <= Len(lines) /\ k + (a - 1) \in Nat
  <2>1. k + Len(s) <= Len(lines) /\ Len(lines) \in Nat
    BY DEF Section, JournalShape
  <2>2. k + (a - 1) \in Nat /\ (k + (a - 1)) + Len(t) = k + b
    BY <1>1, <1>3
  <2>3. k + b <= Len(lines)
    BY <1>1, <2>1
  <2> QED BY <2>2, <2>3
<1> QED BY <1>2, <1>3, <1>6, <1>7 DEF Section

\* The batch a run sends next.
LEMMA ChunkFacts ==
    ASSUME JournalShape, NEW s, NEW k, Section(s, k), Len(s) >= 1
    PROVE  /\ Section(NextChunk(s), k)
           /\ Len(NextChunk(s)) \in 1..Len(s)
<1>1. PICK m : m = IF Len(s) < MaxBatch THEN Len(s) ELSE MaxBatch
  OBVIOUS
<1>2. Len(s) \in Nat /\ k \in Nat
  BY DEF Section
<1>3. m \in Nat /\ 1 <= m /\ m <= Len(s)
  BY <1>1, <1>2, BatchAssumption
<1>4. NextChunk(s) = SubSeq(s, 1, m)
  BY <1>1 DEF NextChunk
<1>5. Section(SubSeq(s, 1, m), k + (1 - 1)) /\ Len(SubSeq(s, 1, m)) = (m + 1) - 1
  BY <1>2, <1>3, SubSection
<1>6. k + (1 - 1) = k /\ (m + 1) - 1 = m
  BY <1>2, <1>3
<1> QED BY <1>2, <1>3, <1>4, <1>5, <1>6

\* Different prefixes of the journal have different heads.
LEMMA HeadInjective ==
    ASSUME JournalInv, NEW k \in 0..Len(lines), NEW n \in 0..Len(lines),
           k # 0 => Begun(k) # Torn, n # 0 => Begun(n) # Torn, HeadOf(k) = HeadOf(n)
    PROVE  k = n
<1>1. JournalShape /\ JournalLinks /\ Len(lines) \in Nat
  BY DEF JournalInv, JournalShape
<1>2. \A m \in 0..Len(lines) : m # 0 /\ Begun(m) # Torn =>
         /\ m \in Lines /\ HeadOf(m) = EventHash(Begun(m))
         /\ EventHash(Begun(m)) # GENESIS_PREVIOUS_HASH
  <2> SUFFICES ASSUME NEW m \in 0..Len(lines), m # 0, Begun(m) # Torn
               PROVE  /\ m \in Lines /\ HeadOf(m) = EventHash(Begun(m))
                      /\ EventHash(Begun(m)) # GENESIS_PREVIOUS_HASH
      OBVIOUS
  <2>1. m \in Lines
    BY <1>1 DEF Lines
  <2>2. Begun(m) \in Event
    BY <1>1, <2>1, BegunFacts
  <2> QED BY <2>1, <2>2, EventFacts DEF HeadOf
<1>3. CASE k = 0
  BY <1>2, <1>3 DEF HeadOf
<1>4. CASE n = 0
  BY <1>2, <1>4 DEF HeadOf
<1>5. CASE k # 0 /\ n # 0
  BY <1>1, <1>2, <1>5 DEF JournalLinks
<1> QED BY <1>3, <1>4, <1>5
-----------------------------------------------------------------------------
(* The endpoint                                                            *)

\* A batch that extends the stream's head starts right after the stored lines.
LEMMA ContinuesAt ==
    ASSUME JournalInv, NEW n, Stores(n), NEW batch, NEW k, Section(batch, k), Len(batch) >= 1,
           batch[1].prev = StreamHead
    PROVE  k = n
<1>1. JournalShape /\ JournalLinks
  BY DEF JournalInv
<1>2. /\ Len(batch) \in Nat /\ k \in Nat /\ Len(lines) \in Nat
      /\ \A i \in 1..Len(batch) : /\ batch[i] = Begun(k + i)
                                  /\ k + i \in Lines /\ Begun(k + i) # Torn
  BY <1>1, SectionEvents
<1>3. batch[1] = Begun(k + 1) /\ k + 1 \in Lines /\ Begun(k + 1) # Torn
  BY <1>2
<1>4. Begun(k + 1).prev = HeadOf((k + 1) - 1) /\ (k + 1) - 1 = k
  BY <1>1, <1>2, <1>3 DEF JournalLinks
<1>5. HeadOf(k) = HeadOf(n)
  BY <1>3, <1>4 DEF Stores
<1>6. n \in 0..Len(lines) /\ (n # 0 => Begun(n) # Torn)
  BY <1>2 DEF Stores
<1>7. k \in 0..Len(lines) /\ (k # 0 => k \in Lines /\ k # Len(lines))
  BY <1>2, <1>3 DEF Lines
<1>8. k # 0 => Begun(k) # Torn
  BY <1>1, <1>7 DEF JournalShape, Parses, Begun
<1> QED BY <1>5, <1>6, <1>7, <1>8, HeadInjective

\* Such a batch passes the verification of decisions and outcomes.
LEMMA TransitionsHold ==
    ASSUME JournalInv, NEW n, Stores(n), NEW batch, Section(batch, n)
    PROVE  Transitions(batch)
<1>1. JournalShape /\ JournalLinks /\ OutcomesAnswer
  BY DEF JournalInv
<1>2. /\ Len(batch) \in Nat /\ n \in Nat /\ Len(lines) \in Nat
      /\ \A i \in 1..Len(batch) : /\ batch[i] = Begun(n + i)
                                  /\ n + i \in Lines /\ Begun(n + i) # Torn
  BY <1>1, SectionEvents
<1> SUFFICES ASSUME NEW i \in 1..Len(batch), batch[i].type = "outcome"
             PROVE  /\ \E decision \in StoredEvents \cup {batch[j] : j \in 1..(i - 1)} :
                          /\ EventHash(decision) = batch[i].decision_event
                          /\ decision.type = "decision" /\ decision.decision = "allowed"
                    /\ \A j \in 1..(i - 1) :
                          batch[j].type = "outcome" =>
                              batch[j].decision_event # batch[i].decision_event
    BY DEF Transitions
<1>3. /\ batch[i] = Begun(n + i) /\ n + i \in Lines /\ Begun(n + i) # Torn
      /\ batch[i].decision_event = <<batch[i].call, "decision">>
  BY <1>1, <1>2 DEF OutcomesAnswer
<1>4. PICK j \in 1..((n + i) - 1) : Allows(Begun(j), batch[i].call)
  BY <1>1, <1>3 DEF OutcomesAnswer
<1>5. EventHash(Begun(j)) = batch[i].decision_event
  BY <1>3, <1>4 DEF EventHash, Allows
<1>6. Begun(j) \in StoredEvents \cup {batch[m] : m \in 1..(i - 1)}
  <2>1. CASE j <= n
    BY <1>2, <1>4, <2>1 DEF Stores
  <2>2. CASE j > n
    <3>1. j - n \in 1..(i - 1) /\ j - n \in 1..Len(batch) /\ n + (j - n) = j
      BY <1>2, <1>4, <2>2
    <3> QED BY <1>2, <3>1
  <2> QED BY <1>2, <1>4, <2>1, <2>2
<1>7. ASSUME NEW m \in 1..(i - 1), batch[m].type = "outcome",
             batch[m].decision_event = batch[i].decision_event
      PROVE  FALSE
  <2>1. m \in 1..Len(batch) /\ n + m # n + i
    BY <1>2
  <2>2. batch[m] = Begun(n + m) /\ n + m \in Lines /\ Begun(n + m) # Torn
    BY <1>2, <2>1
  <2>3. batch[m].decision_event = <<batch[m].call, "decision">>
    BY <1>1, <1>7, <2>2 DEF OutcomesAnswer
  <2>4. EventHash(batch[m]) = EventHash(batch[i])
    BY <1>3, <1>7, <2>3 DEF EventHash
  <2> QED BY <1>1, <1>3, <2>1, <2>2, <2>4 DEF JournalLinks
<1> QED BY <1>4, <1>5, <1>6, <1>7 DEF Allows

\* The stream after a batch was appended to it.
LEMMA StreamGrows ==
    ASSUME JournalInv, stream \in Seq(Seq(Event)), UNCHANGED lines, NEW n, Stores(n),
           NEW batch, Section(batch, n), Len(batch) >= 1, stream' = Append(stream, batch)
    PROVE  stream' \in Seq(Seq(Event)) /\ Stores(n + Len(batch))'
<1>1. PICK b : b = batch
  OBVIOUS
<1>2. PICK m : m = n + Len(b)
  OBVIOUS
<1>3. /\ Len(b) \in Nat /\ n \in Nat /\ Len(lines) \in Nat /\ b \in Seq(Event)
      /\ \A i \in 1..Len(b) : b[i] = Begun(n + i) /\ n + i \in Lines /\ Begun(n + i) # Torn
  BY <1>1, SectionEvents DEF JournalInv, Section
<1>4. /\ Lines' = Lines /\ Len(lines') = Len(lines)
      /\ \A i : Begun(i)' = Begun(i) /\ HeadOf(i)' = HeadOf(i)
  BY DEF Lines, Begun, HeadOf
<1>5. /\ stream' \in Seq(Seq(Event)) /\ Len(stream') = Len(stream) + 1
      /\ \A i \in 1..Len(stream) : stream'[i] = stream[i]
      /\ stream'[Len(stream) + 1] = b
      /\ Len(stream) \in Nat
  BY <1>1, <1>3, AppendFacts
<1>6. Batched' = Batched \cup {b}
  <2>1. 1..Len(stream') = (1..Len(stream)) \cup {Len(stream) + 1}
    BY <1>5
  <2> QED BY <1>5, <2>1 DEF Batched
<1>7. StoredEvents' = StoredEvents \cup {b[i] : i \in 1..Len(b)}
  BY <1>6 DEF StoredEvents
<1>8. {Begun(i) : i \in 1..m} = {Begun(i) : i \in 1..n} \cup {b[i] : i \in 1..Len(b)}
  <2>1. ASSUME NEW i \in 1..m PROVE i \in 1..n \/ (i - n \in 1..Len(b) /\ Begun(i) = b[i - n])
    BY <1>2, <1>3
  <2>2. ASSUME NEW i \in 1..n PROVE i \in 1..m
    BY <1>2, <1>3
  <2>3. ASSUME NEW i \in 1..Len(b) PROVE n + i \in 1..m /\ b[i] = Begun(n + i)
    BY <1>2, <1>3
  <2> QED BY <2>1, <2>2, <2>3
<1>9. StoredEvents' = {Begun(i)' : i \in 1..m}
  BY <1>4, <1>7, <1>8 DEF Stores
<1>10. StreamHead' = HeadOf(m)'
  <2>1. stream' # <<>> /\ stream'[Len(stream')] = b
    BY <1>5
  <2>2. StreamHead' = EventHash(b[Len(b)])
    BY <2>1 DEF StreamHead, EventHash
  <2>3. b[Len(b)] = Begun(m) /\ m # 0
    BY <1>1, <1>2, <1>3
  <2> QED BY <1>4, <2>2, <2>3 DEF HeadOf
<1>11. m \in 0..Len(lines) /\ m \in Nat
  BY <1>1, <1>2, <1>3 DEF Section
<1>12. \A i \in 1..m : Begun(i)' # Torn
  <2> SUFFICES ASSUME NEW i \in 1..m PROVE Begun(i) # Torn
      BY <1>4
  <2>1. CASE i <= n
    BY <1>3, <2>1 DEF Stores
  <2>2. CASE i > n
    <3>1. i - n \in 1..Len(b) /\ n + (i - n) = i
      BY <1>2, <1>3, <2>2
    <3> QED BY <1>3, <3>1
  <2> QED BY <1>2, <1>3, <2>1, <2>2
<1>13. Stores(m)'
  BY <1>4, <1>9, <1>10, <1>11, <1>12 DEF Stores
<1> QED BY <1>1, <1>2, <1>5, <1>13

\* The endpoint has answered a batch that begins after line k.
Answered(batch, k, n, answer) ==
    \/ answer.kind = "verified" /\ k + Len(batch) <= n
    \/ answer.kind = "mismatch" /\ \E m \in 0..n : answer.head = HeadOf(m)

\* Every section of the journal is verified, replayed or answered with a mismatch.
LEMMA HandleStep ==
    ASSUME JournalInv, stream \in Seq(Seq(Event)), refused = {}, UNCHANGED lines,
           NEW n, Stores(n), NEW batch, NEW k, Section(batch, k), Len(batch) >= 1,
           HandleBatch(batch), NEW answer, answer = AnswerTo(batch)
    PROVE  /\ stream' \in Seq(Seq(Event)) /\ refused' = {}
           /\ \E m \in Nat : n <= m /\ Stores(m)' /\ Answered(batch, k, m, answer)'
<1>1. /\ Len(batch) \in Nat /\ n \in Nat /\ Len(lines) \in Nat /\ n \in 0..Len(lines) /\ k \in Nat
      /\ \A i \in 1..Len(batch) : /\ batch[i] \in Event /\ batch[i] = Begun(k + i)
                                  /\ k + i \in Lines /\ Begun(k + i) # Torn
  BY SectionEvents DEF JournalInv, JournalShape, Stores
<1>2. /\ Lines' = Lines /\ Len(lines') = Len(lines)
      /\ \A i : Begun(i)' = Begun(i) /\ HeadOf(i)' = HeadOf(i)
  BY DEF Lines, Begun, HeadOf
<1>3. CASE Continues(batch)
  <2>1. batch \notin Batched /\ batch \notin refused /\ k = n
    BY <1>3, ContinuesAt DEF Continues
  <2>2. Transitions(batch)
    BY <2>1, TransitionsHold
  <2>3. stream' = Append(stream, batch) /\ refused' = {}
    BY <1>3, <2>2 DEF HandleBatch
  <2>4. stream' \in Seq(Seq(Event)) /\ Stores(n + Len(batch))'
    BY <2>1, <2>3, StreamGrows
  <2>5. answer.kind = "verified"
    BY <1>3, <2>1, <2>2 DEF AnswerTo
  <2>6. n + Len(batch) \in Nat /\ n <= n + Len(batch)
    BY <1>1
  <2> QED BY <1>1, <2>1, <2>3, <2>4, <2>5, <2>6 DEF Answered
<1>4. CASE ~Continues(batch)
  <2>1. stream' = stream /\ refused' = {}
    BY <1>4 DEF HandleBatch
  <2>2. StoredEvents' = StoredEvents /\ StreamHead' = StreamHead
    BY <2>1 DEF StoredEvents, Batched, StreamHead, EventHash
  <2>3. Stores(n)'
    BY <1>2, <2>2 DEF Stores
  <2>4. CASE batch \in Batched
    <3>1. answer.kind = "verified"
      BY <2>4 DEF AnswerTo
    <3>2. Len(batch) \in 1..Len(batch) /\ batch[Len(batch)] \in StoredEvents
      BY <1>1, <2>4 DEF StoredEvents
    <3>3. PICK i \in 1..n : Begun(k + Len(batch)) = Begun(i)
      BY <1>1, <3>2 DEF Stores
    <3>4. i \in Lines /\ k + Len(batch) \in Lines /\ Begun(i) # Torn
      BY <1>1, <3>2, <3>3 DEF Lines
    <3>5. k + Len(batch) = i
      BY <3>3, <3>4 DEF JournalInv, JournalLinks
    <3>6. k + Len(batch) <= n
      BY <1>1, <3>5
    <3> QED BY <1>1, <2>1, <2>3, <3>1, <3>6 DEF Answered
  <2>5. CASE batch \notin Batched
    <3>1. answer.kind = "mismatch" /\ answer.head = StreamHead
      BY <1>4, <2>5 DEF AnswerTo
    <3>2. answer.head = HeadOf(n)' /\ n \in 0..n
      BY <1>1, <1>2, <3>1 DEF Stores
    <3> QED BY <1>1, <2>1, <2>3, <3>1, <3>2 DEF Answered
  <2> QED BY <2>4, <2>5
<1> QED BY <1>3, <1>4

-----------------------------------------------------------------------------
(* Runs of the command                                                     *)

\* Sections, runs and the stored prefix stay what they are while the journal grows.
LEMMA SectionKept ==
    ASSUME JournalShape, BegunStay, NEW s, NEW k, Section(s, k)
    PROVE  Section(s, k)'
<1>1. /\ Len(s) \in Nat /\ k \in Nat
      /\ \A i \in 1..Len(s) : s[i] = Begun(k + i) /\ k + i \in Lines
  BY SectionEvents
<1>2. \A i \in 1..Len(s) : s[i] = Begun(k + i)'
  BY <1>1 DEF BegunStay
<1>3. k + Len(s) <= Len(lines')
  BY <1>1 DEF BegunStay, Section
<1> QED BY <1>2, <1>3 DEF Section

LEMMA HeadKept ==
    ASSUME BegunStay, NEW m \in 0..Len(lines)
    PROVE  HeadOf(m)' = HeadOf(m)
<1>1. m = 0 \/ m \in Lines
  BY DEF BegunStay, Lines
<1> QED BY <1>1 DEF BegunStay, HeadOf, EventHash

LEMMA RunKept ==
    ASSUME JournalShape, BegunStay, NEW r, NEW n \in 0..Len(lines), NEW m \in Nat, n <= m,
           RunInv(r, n)
    PROVE  RunInv(r, m)'
<1>0. Len(lines) \in Nat /\ n \in Nat
  BY DEF BegunStay
<1>1. CASE r = Over
  BY <1>1 DEF RunInv
<1>2. CASE r.pc = "reported" /\ Section(r.events, 0) /\ Len(r.events) <= n
  <2>1. Section(r.events, 0)' /\ Len(r.events) \in Nat
    BY <1>2, SectionKept, SectionEvents
  <2>2. Len(r.events) <= m
    BY <1>0, <1>2, <2>1
  <2> QED BY <1>2, <2>1, <2>2 DEF RunInv
<1>3. ASSUME NEW k \in Nat, Uploading(r, k, n) PROVE RunInv(r, m)'
  <2>1. Section(r.events, 0)' /\ Section(r.rest, k)' /\ Section(r.rest, k)
    BY <1>3, SectionKept DEF Uploading
  <2>2. k <= m /\ Len(r.rest) >= 1 /\ k + Len(r.rest) = Len(r.events)
    BY <1>0, <1>3 DEF Uploading
  <2>3. Len(NextChunk(r.rest)) \in Nat
    BY <2>1, <2>2, ChunkFacts
  <2>4. ASSUME r.pc = "answered"
        PROVE  \/ r.answer.kind = "verified" /\ k + Len(NextChunk(r.rest)) <= m
               \/ r.answer.kind = "mismatch" /\ \E j \in 0..m : r.answer.head = HeadOf(j)'
    <3>1. CASE r.answer.kind = "verified" /\ k + Len(NextChunk(r.rest)) <= n
      BY <1>0, <2>3, <3>1
    <3>2. ASSUME r.answer.kind = "mismatch", NEW j \in 0..n, r.answer.head = HeadOf(j)
          PROVE  r.answer.kind = "mismatch" /\ \E i \in 0..m : r.answer.head = HeadOf(i)'
      <4>1. j \in 0..Len(lines) /\ j \in 0..m
        BY <1>0
      <4> QED BY <3>2, <4>1, HeadKept
    <3> QED BY <1>3, <2>4, <3>1, <3>2 DEF Uploading
  <2>5. Uploading(r, k, m)'
    BY <1>3, <2>1, <2>2, <2>4 DEF Uploading, NextChunk
  <2> QED BY <2>5 DEF RunInv
<1> QED BY <1>1, <1>2, <1>3 DEF RunInv

LEMMA StoresKept ==
    ASSUME BegunStay, NEW n, Stores(n), UNCHANGED stream
    PROVE  Stores(n)'
<1>1. StoredEvents' = StoredEvents /\ StreamHead' = StreamHead
  BY DEF StoredEvents, Batched, StreamHead, EventHash
<1>2. n \in 0..Len(lines) /\ n \in 0..Len(lines') /\ \A i \in 1..n : i \in Lines /\ Begun(i)' = Begun(i)
  BY DEF BegunStay, Stores, Lines
<1>3. HeadOf(n)' = HeadOf(n)
  BY <1>2, HeadKept
<1>4. {Begun(i)' : i \in 1..n} = {Begun(i) : i \in 1..n}
  BY <1>2
<1> QED BY <1>1, <1>2, <1>3, <1>4 DEF Stores

\* A step after which m lines are stored, and which changes at most one run.
LEMMA StreamStep ==
    ASSUME JournalInv, StreamInv, BegunStay, NEW n \in Nat, Stores(n), RunsInv(n),
           NEW m \in Nat, n <= m, Stores(m)', stream' \in Seq(Seq(Event)), refused' = {},
           \A b \in delayed' : b \in delayed \/ InTransit(b),
           \/ UNCHANGED syncRuns
           \/ \E u \in Uploaders : \E r : syncRuns' = [syncRuns EXCEPT ![u] = r] /\ RunInv(r, m)'
    PROVE  StreamInv'
<1>1. JournalShape /\ n \in 0..Len(lines)
  BY DEF JournalInv, Stores
<1>2. \A b \in delayed' : InTransit(b)'
  <2> SUFFICES ASSUME NEW b, InTransit(b) PROVE InTransit(b)'
      BY DEF StreamInv
  <2> QED BY <1>1, SectionKept DEF InTransit
<1>3. ASSUME NEW u \in Uploaders PROVE RunInv(syncRuns[u], n) /\ \A r : r = syncRuns[u] => RunInv(r, m)'
  BY <1>1, RunKept DEF RunsInv
<1>4. /\ syncRuns' = [u \in Uploaders |-> syncRuns'[u]]
      /\ \A v \in Uploaders : \/ syncRuns'[v] = syncRuns[v]
                              \/ \E r : syncRuns'[v] = r /\ RunInv(r, m)'
  <2>1. CASE UNCHANGED syncRuns
    BY <2>1 DEF StreamInv
  <2>2. ASSUME NEW u \in Uploaders, NEW r, syncRuns' = [syncRuns EXCEPT ![u] = r], RunInv(r, m)'
        PROVE  /\ syncRuns' = [v \in Uploaders |-> syncRuns'[v]]
               /\ \A v \in Uploaders : \/ syncRuns'[v] = syncRuns[v]
                                       \/ \E q : syncRuns'[v] = q /\ RunInv(q, m)'
    BY <2>2 DEF StreamInv
  <2> QED BY <2>1, <2>2
<1>5. RunsInv(m)'
  <2> SUFFICES ASSUME NEW v \in Uploaders PROVE RunInv(syncRuns[v], m)'
      BY DEF RunsInv
  <2>1. PICK r : syncRuns'[v] = r /\ RunInv(r, m)'
    BY <1>3, <1>4
  <2> QED BY <2>1 DEF RunInv, Uploading
<1> QED BY <1>2, <1>4, <1>5 DEF StreamInv

\* The run a command goes on with.
LEMMA ContinueRun ==
    ASSUME JournalShape, NEW run, NEW k \in Nat, NEW n \in Nat, k <= n,
           run = [pc |-> run.pc, events |-> run.events, rest |-> run.rest,
                  resynced |-> run.resynced, continued |-> run.continued, answer |-> run.answer],
           Section(run.events, 0), Section(run.rest, k),
           k + Len(run.rest) = Len(run.events)
    PROVE  RunInv(IF run.rest = <<>> THEN [pc |-> "reported", events |-> run.events]
                  ELSE [run EXCEPT !.pc = "send"], n)
<1>1. run.rest \in Seq(Event) /\ Len(run.rest) \in Nat /\ Len(run.events) \in Nat
  BY DEF Section
<1>2. CASE run.rest = <<>>
  <2>1. Len(run.events) = k
    BY <1>1, <1>2
  <2> QED BY <1>2, <2>1 DEF RunInv
<1>3. CASE run.rest # <<>>
  <2>1. Len(run.rest) >= 1
    BY <1>1, <1>3
  <2>2. PICK q : q = [run EXCEPT !.pc = "send"]
    OBVIOUS
  <2>3. q = [pc |-> "send", events |-> run.events, rest |-> run.rest,
             resynced |-> run.resynced, continued |-> run.continued, answer |-> run.answer]
    BY <2>2
  <2>4. Uploading(q, k, n)
    BY <2>1, <2>3 DEF Uploading
  <2> QED BY <1>3, <2>2, <2>4 DEF RunInv
<1> QED BY <1>2, <1>3

\* A step of one run that leaves the journal, the stream and other runs alone.
LEMMA QuietRun ==
    ASSUME JournalInv, StreamInv, NEW n \in Nat, Stores(n), RunsInv(n),
           UNCHANGED <<journalVars, streamVars>>,
           \A b \in delayed' : b \in delayed \/ InTransit(b),
           NEW u \in Uploaders, NEW r, SetRun(u, r), RunInv(r, n)
    PROVE  StreamInv'
<1>1. BegunStay /\ n \in 0..Len(lines)
  BY DEF JournalInv, JournalShape, BegunStay, journalVars, Lines, Begun, Stores
<1>2. Stores(n)' /\ stream' \in Seq(Seq(Event)) /\ refused' = {}
  BY <1>1, StoresKept DEF StreamInv, streamVars
<1>3. RunInv(r, n)'
  BY <1>1, RunKept DEF JournalInv
<1>4. syncRuns' = [syncRuns EXCEPT ![u] = r]
  BY DEF SetRun
<1>5. n <= n
  OBVIOUS
<1> QED BY <1>1, <1>2, <1>3, <1>4, <1>5, StreamStep

LEMMA BeginStep ==
    ASSUME JournalInv, StreamInv, NEW u \in Uploaders, BeginUpload(u)
    PROVE  StreamInv'
<1>1. PICK n \in Nat : Stores(n) /\ RunsInv(n)
  BY DEF StreamInv
<1>2. PICK run : run = [pc |-> "send", events |-> Snapshot, rest |-> Snapshot,
                        resynced |-> FALSE, continued |-> FALSE, answer |-> NoAnswer]
  OBVIOUS
<1>3. JournalShape /\ Len(lines) \in Nat
  BY DEF JournalInv, JournalShape
<1>4. Section(Snapshot, 0)
  <2>1. \A i \in Lines : Begun(i) \in Event
    BY <1>3, BegunFacts DEF BeginUpload, JournalVerifies, Parses, Begun, Lines
  <2>2. PICK s : s = [i \in 1..Len(lines) |-> Begun(i)]
    OBVIOUS
  <2>3. s \in Seq(Event) /\ Len(s) = Len(lines) /\ \A i \in 1..Len(lines) : s[i] = Begun(i)
    BY <1>3, <2>1, <2>2 DEF Lines
  <2>4. \A i \in 1..Len(s) : s[i] = Begun(0 + i)
    BY <1>3, <2>3
  <2>5. Snapshot = s
    BY <2>2 DEF Snapshot, Begun
  <2> QED BY <1>3, <2>3, <2>4, <2>5 DEF Section
<1>5. Len(Snapshot) \in Nat /\ 0 + Len(Snapshot) = Len(Snapshot)
  BY <1>4 DEF Section
<1>6. PICK r : r = IF run.rest = <<>> THEN [pc |-> "reported", events |-> run.events]
                   ELSE [run EXCEPT !.pc = "send"]
  OBVIOUS
<1>7. RunInv(r, n)
  <2>1. /\ run.events = Snapshot /\ run.rest = Snapshot
        /\ run = [pc |-> run.pc, events |-> run.events, rest |-> run.rest,
                  resynced |-> run.resynced, continued |-> run.continued, answer |-> run.answer]
    BY <1>2
  <2>2. 0 <= n
    BY <1>1
  <2> QED BY <1>3, <1>4, <1>5, <1>6, <2>1, <2>2, ContinueRun
<1>8. SetRun(u, r) /\ UNCHANGED <<journalVars, streamVars, delayed>>
  BY <1>2, <1>6 DEF BeginUpload, Continue
<1> QED BY <1>1, <1>7, <1>8, QuietRun

\* What a run that waits for an answer or a batch to send is.
LEMMA RunningFacts ==
    ASSUME NEW r, NEW n, RunInv(r, n), r.pc \in {"send", "answered"}
    PROVE  \E k \in Nat : Uploading(r, k, n)
  BY DEF RunInv, Over

LEMMA AcceptedStep ==
    ASSUME JournalInv, StreamInv, NEW u \in Uploaders, BatchAccepted(u)
    PROVE  StreamInv'
<1>1. PICK n \in Nat : Stores(n) /\ RunsInv(n)
  BY DEF StreamInv
<1>2. PICK q : q = syncRuns[u]
  OBVIOUS
<1>3. RunInv(q, n) /\ q.pc = "answered" /\ q.answer.kind = "verified"
  BY <1>1, <1>2 DEF RunsInv, BatchAccepted
<1>4. PICK k \in Nat : Uploading(q, k, n)
  BY <1>3, RunningFacts
<1>5. PICK c : c = Len(NextChunk(q.rest))
  OBVIOUS
<1>6. JournalShape /\ Section(q.rest, k) /\ Len(q.rest) >= 1 /\ Len(q.rest) \in Nat
  BY <1>4 DEF JournalInv, Uploading, Section
<1>7. c \in Nat /\ 1 <= c /\ c <= Len(q.rest)
  BY <1>5, <1>6, ChunkFacts
<1>8. PICK rest : rest = SubSeq(q.rest, c + 1, Len(q.rest))
  OBVIOUS
<1>9. Section(rest, k + c) /\ Len(rest) = Len(q.rest) - c
  <2>1. c + 1 \in Nat /\ 1 <= c + 1 /\ c + 1 <= Len(q.rest) + 1 /\ Len(q.rest) <= Len(q.rest)
    BY <1>6, <1>7
  <2>2. /\ Section(SubSeq(q.rest, c + 1, Len(q.rest)), k + ((c + 1) - 1))
        /\ Len(SubSeq(q.rest, c + 1, Len(q.rest))) = (Len(q.rest) + 1) - (c + 1)
    BY <1>6, <2>1, SubSection
  <2>3. k + ((c + 1) - 1) = k + c /\ (Len(q.rest) + 1) - (c + 1) = Len(q.rest) - c
    BY <1>6, <1>7
  <2> QED BY <1>8, <2>2, <2>3
<1>10. PICK run : run = [q EXCEPT !.rest = rest, !.continued = TRUE, !.answer = NoAnswer]
  OBVIOUS
<1>11. /\ run = [pc |-> q.pc, events |-> q.events, rest |-> rest,
                 resynced |-> q.resynced, continued |-> TRUE, answer |-> NoAnswer]
  BY <1>4, <1>10 DEF Uploading
<1>12. PICK r : r = IF run.rest = <<>> THEN [pc |-> "reported", events |-> run.events]
                    ELSE [run EXCEPT !.pc = "send"]
  OBVIOUS
<1>13. k + c \in Nat /\ k + c <= n
  BY <1>3, <1>4, <1>5, <1>7 DEF Uploading
<1>14. Section(q.events, 0) /\ (k + c) + Len(rest) = Len(q.events)
  BY <1>4, <1>6, <1>7, <1>9 DEF Uploading
<1>15. RunInv(r, n)
  <2>1. /\ run.events = q.events /\ run.rest = rest
        /\ run = [pc |-> run.pc, events |-> run.events, rest |-> run.rest,
                  resynced |-> run.resynced, continued |-> run.continued, answer |-> run.answer]
    BY <1>11
  <2> QED BY <1>6, <1>9, <1>12, <1>13, <1>14, <2>1, ContinueRun
<1>16. SetRun(u, r) /\ UNCHANGED <<journalVars, streamVars, delayed>>
  BY <1>2, <1>5, <1>8, <1>10, <1>12 DEF BatchAccepted, Continue
<1> QED BY <1>1, <1>15, <1>16, QuietRun

\* The stored head is the event of a stored line: what follows it is not stored yet.
LEMMA ResyncStep ==
    ASSUME JournalInv, StreamInv, NEW u \in Uploaders, Resync(u)
    PROVE  StreamInv'
<1>1. PICK n \in Nat : Stores(n) /\ RunsInv(n)
  BY DEF StreamInv
<1>2. PICK q : q = syncRuns[u]
  OBVIOUS
<1>3. RunInv(q, n) /\ q.pc = "answered" /\ Resumable(q) /\ q.answer.kind = "mismatch"
  BY <1>1, <1>2 DEF RunsInv, Resync, Resumable
<1>4. PICK k \in Nat : Uploading(q, k, n)
  BY <1>3, RunningFacts
<1>5. /\ JournalShape /\ Section(q.events, 0) /\ Len(q.events) \in Nat /\ Len(lines) \in Nat
      /\ n \in 0..Len(lines)
  BY <1>1, <1>4 DEF JournalInv, JournalShape, Uploading, Section, Stores
<1>6. PICK m \in 0..n : q.answer.head = HeadOf(m)
  BY <1>3, <1>4 DEF Uploading
<1>7. PICK i : i = CHOOSE j \in 1..Len(q.events) : EventHash(q.events[j]) = q.answer.head
  OBVIOUS
<1>8. i \in 1..Len(q.events) /\ EventHash(q.events[i]) = q.answer.head
  BY <1>3, <1>7 DEF Resumable
<1>9. i \in Nat /\ i <= n
  <2>1. /\ q.events[i] = Begun(0 + i) /\ 0 + i \in Lines /\ Begun(0 + i) # Torn /\ 0 + i = i
    BY <1>5, <1>8, SectionEvents
  <2>2. i \in 0..Len(lines) /\ i # 0 /\ HeadOf(i) = HeadOf(m)
    <3>1. i \in 1..Len(lines) /\ q.events[i] = Begun(i)
      BY <2>1 DEF Lines
    <3>2. i \in 0..Len(lines) /\ i # 0
      BY <1>5, <3>1
    <3>3. HeadOf(i) = EventHash(Begun(i))
      BY <3>2 DEF HeadOf
    <3> QED BY <1>6, <1>8, <3>1, <3>2, <3>3
  <2>3. m \in 0..Len(lines) /\ (m # 0 => Begun(m) # Torn)
    BY <1>1, <1>5, <1>6 DEF Stores
  <2>4. i = m
    BY <2>1, <2>2, <2>3, HeadInjective
  <2> QED BY <1>6, <2>4
<1>10. PICK rest : rest = SubSeq(q.events, i + 1, Len(q.events))
  OBVIOUS
<1>11. Section(rest, i) /\ i + Len(rest) = Len(q.events)
  <2>1. i + 1 \in Nat /\ 1 <= i + 1 /\ i + 1 <= Len(q.events) + 1 /\ Len(q.events) <= Len(q.events)
    BY <1>5, <1>8
  <2>2. /\ Section(SubSeq(q.events, i + 1, Len(q.events)), 0 + ((i + 1) - 1))
        /\ Len(SubSeq(q.events, i + 1, Len(q.events))) = (Len(q.events) + 1) - (i + 1)
    BY <1>5, <2>1, SubSection
  <2>3. 0 + ((i + 1) - 1) = i /\ i + ((Len(q.events) + 1) - (i + 1)) = Len(q.events)
    BY <1>5, <1>8
  <2> QED BY <1>10, <2>2, <2>3
<1>12. PICK run : run = [q EXCEPT !.rest = rest, !.resynced = TRUE, !.answer = NoAnswer]
  OBVIOUS
<1>13. run = [pc |-> q.pc, events |-> q.events, rest |-> rest,
              resynced |-> TRUE, continued |-> q.continued, answer |-> NoAnswer]
  BY <1>4, <1>12 DEF Uploading
<1>14. PICK r : r = IF run.rest = <<>> THEN [pc |-> "reported", events |-> run.events]
                    ELSE [run EXCEPT !.pc = "send"]
  OBVIOUS
<1>15. RunInv(r, n)
  <2>1. /\ run.events = q.events /\ run.rest = rest
        /\ run = [pc |-> run.pc, events |-> run.events, rest |-> run.rest,
                  resynced |-> run.resynced, continued |-> run.continued, answer |-> run.answer]
    BY <1>13
  <2> QED BY <1>5, <1>9, <1>11, <1>14, <2>1, ContinueRun
<1>16. SetRun(u, r) /\ UNCHANGED <<journalVars, streamVars, delayed>>
  BY <1>2, <1>7, <1>10, <1>12, <1>14 DEF Resync, ResumeAfterHead, Continue
<1> QED BY <1>1, <1>15, <1>16, QuietRun

\* The run ends, and a batch it gave up may still be on its way.
LEMMA OverStep ==
    ASSUME JournalInv, StreamInv, NEW u \in Uploaders, SyncFails(u) \/ TransportFails(u)
    PROVE  StreamInv'
<1>1. PICK n \in Nat : Stores(n) /\ RunsInv(n)
  BY DEF StreamInv
<1>2. SetRun(u, Over) /\ UNCHANGED <<journalVars, streamVars>>
  BY DEF SyncFails, TransportFails
<1>3. ASSUME NEW b \in delayed' PROVE b \in delayed \/ InTransit(b)
  <2>1. CASE b \in delayed
    BY <2>1
  <2>2. CASE b \notin delayed
    <3>1. syncRuns[u].pc = "send" /\ b = NextChunk(syncRuns[u].rest)
      BY <1>3, <2>2 DEF SyncFails, TransportFails
    <3>2. PICK q : q = syncRuns[u]
      OBVIOUS
    <3>3. PICK k \in Nat : Uploading(q, k, n)
      BY <1>1, <3>1, <3>2, RunningFacts DEF RunsInv
    <3>4. JournalShape /\ Section(q.rest, k) /\ Len(q.rest) >= 1 /\ Len(q.rest) \in Nat
      BY <3>3 DEF JournalInv, Uploading, Section
    <3>5. Section(b, k) /\ Len(b) \in 1..Len(q.rest)
      BY <3>1, <3>2, <3>4, ChunkFacts
    <3> QED BY <3>4, <3>5 DEF InTransit
  <2> QED BY <2>1, <2>2
<1>4. RunInv(Over, n)
  BY DEF RunInv
<1> QED BY <1>1, <1>2, <1>3, <1>4, QuietRun

LEMMA PostStep ==
    ASSUME JournalInv, StreamInv, NEW u \in Uploaders, PostBatch(u)
    PROVE  StreamInv'
<1>1. PICK n \in Nat : Stores(n) /\ RunsInv(n)
  BY DEF StreamInv
<1>2. PICK q : q = syncRuns[u]
  OBVIOUS
<1>3. PICK k \in Nat : Uploading(q, k, n)
  BY <1>1, <1>2, RunningFacts DEF RunsInv, PostBatch
<1>4. JournalShape /\ Section(q.rest, k) /\ Len(q.rest) >= 1 /\ Len(q.rest) \in Nat
  BY <1>3 DEF JournalInv, Uploading, Section
<1>5. PICK b : b = NextChunk(q.rest)
  OBVIOUS
<1>6. Section(b, k) /\ Len(b) >= 1
  BY <1>4, <1>5, ChunkFacts
<1>7. PICK answer : answer = AnswerTo(b)
  OBVIOUS
<1>8. HandleBatch(b) /\ UNCHANGED <<journalVars, delayed>>
  BY <1>2, <1>5 DEF PostBatch
<1>9. PICK r : r = [q EXCEPT !.pc = "answered", !.answer = answer]
  OBVIOUS
<1>10. syncRuns' = [syncRuns EXCEPT ![u] = r]
  BY <1>2, <1>5, <1>7, <1>9 DEF PostBatch, SetRun
<1>11. BegunStay /\ UNCHANGED lines /\ n \in 0..Len(lines)
  BY <1>1, <1>8 DEF JournalInv, JournalShape, BegunStay, journalVars, Lines, Begun, Stores
<1>12. stream \in Seq(Seq(Event)) /\ refused = {}
  BY DEF StreamInv
<1>13. /\ stream' \in Seq(Seq(Event)) /\ refused' = {}
       /\ \E m \in Nat : n <= m /\ Stores(m)' /\ Answered(b, k, m, answer)'
  BY <1>1, <1>6, <1>7, <1>8, <1>11, <1>12, HandleStep
<1>14. PICK m \in Nat : n <= m /\ Stores(m)' /\ Answered(b, k, m, answer)'
  BY <1>13
<1>15. RunInv(r, m)'
  <2>1. r = [pc |-> "answered", events |-> q.events, rest |-> q.rest,
             resynced |-> q.resynced, continued |-> q.continued, answer |-> answer]
    BY <1>3, <1>9 DEF Uploading
  <2>2. Section(q.events, 0)' /\ Section(q.rest, k)'
    BY <1>3, <1>4, <1>11, SectionKept DEF Uploading
  <2>3. k <= m /\ k + Len(q.rest) = Len(q.events)
    BY <1>3, <1>14 DEF Uploading
  <2>4. \/ answer.kind = "verified" /\ k + Len(NextChunk(q.rest)) <= m
        \/ answer.kind = "mismatch" /\ \E j \in 0..m : answer.head = HeadOf(j)'
    BY <1>5, <1>14 DEF Answered
  <2>5. Uploading(r, k, m)'
    BY <1>4, <2>1, <2>2, <2>3, <2>4 DEF Uploading, NextChunk
  <2> QED BY <2>5 DEF RunInv
<1>16. \A d \in delayed' : d \in delayed \/ InTransit(d)
  BY <1>8
<1> QED BY <1>1, <1>10, <1>11, <1>13, <1>14, <1>15, <1>16, StreamStep

LEMMA DelayedStep ==
    ASSUME JournalInv, StreamInv, NEW b \in delayed, DelayedBatchArrives(b)
    PROVE  StreamInv'
<1>1. PICK n \in Nat : Stores(n) /\ RunsInv(n)
  BY DEF StreamInv
<1>2. PICK k \in Nat : Section(b, k) /\ Len(b) >= 1
  BY DEF StreamInv, InTransit
<1>3. HandleBatch(b) /\ UNCHANGED <<journalVars, syncRuns>> /\ \A d \in delayed' : d \in delayed
  BY DEF DelayedBatchArrives
<1>4. BegunStay /\ UNCHANGED lines /\ n \in 0..Len(lines)
  BY <1>1, <1>3 DEF JournalInv, JournalShape, BegunStay, journalVars, Lines, Begun, Stores
<1>5. stream \in Seq(Seq(Event)) /\ refused = {}
  BY DEF StreamInv
<1>6. PICK answer : answer = AnswerTo(b)
  OBVIOUS
<1>7. /\ stream' \in Seq(Seq(Event)) /\ refused' = {}
      /\ \E m \in Nat : n <= m /\ Stores(m)' /\ Answered(b, k, m, answer)'
  BY <1>1, <1>2, <1>3, <1>4, <1>5, <1>6, HandleStep
<1> QED BY <1>1, <1>3, <1>4, <1>7, StreamStep

-----------------------------------------------------------------------------

LEMMA UploadInvInit == UploadInit => JournalInv /\ StreamInv
<1> SUFFICES ASSUME UploadInit PROVE JournalInv /\ StreamInv
    OBVIOUS
<1>1. lines = <<>> /\ Len(lines) = 0 /\ Lines = {} /\ newline = TRUE
  BY DEF UploadInit, JournalInit, Lines
<1>2. JournalShape
  BY <1>1 DEF UploadInit, JournalInit, JournalShape
<1>3. JournalInv
  BY <1>1, <1>2 DEF UploadInit, JournalInit, JournalInv, JournalLinks, CallsAhead, CallsDecided, Ran,
                    OutcomesAnswer
<1>4. Stores(0)
  <2>1. StoredEvents = {} /\ StreamHead = GENESIS_PREVIOUS_HASH
    BY DEF UploadInit, StoredEvents, Batched, StreamHead
  <2> QED BY <1>1, <2>1 DEF Stores, HeadOf
<1>5. RunsInv(0)
  BY DEF UploadInit, RunsInv, RunInv
<1> QED BY <1>3, <1>4, <1>5 DEF UploadInit, StreamInv

LEMMA UploadInvStep == JournalInv /\ StreamInv /\ [UploadNext]_uploadVars => JournalInv' /\ StreamInv'
<1> SUFFICES ASSUME JournalInv, StreamInv, [UploadNext]_uploadVars PROVE JournalInv' /\ StreamInv'
    OBVIOUS
<1>1. ASSUME UNCHANGED journalVars PROVE JournalInv'
  <2>1. /\ UNCHANGED <<lines, newline, calls, executions>>
        /\ Lines' = Lines /\ \A i : Begun(i)' = Begun(i)
    BY <1>1 DEF journalVars, Lines, Begun
  <2>2. JournalShape'
    BY <2>1 DEF JournalInv, JournalShape
  <2>3. JournalLinks' /\ OutcomesAnswer' /\ CallsAhead'
    BY <2>1 DEF JournalInv, JournalLinks, OutcomesAnswer, CallsAhead, HeadOf, EventHash, Allows
  <2>4. CallsDecided'
    BY <2>1 DEF JournalInv, CallsDecided, Ran, Settled, Spoiled, Allows
  <2> QED BY <2>2, <2>3, <2>4 DEF JournalInv
<1>2. ASSUME BegunStay, UNCHANGED <<streamVars, syncRuns, delayed>> PROVE StreamInv'
  <2>1. PICK n \in Nat : Stores(n) /\ RunsInv(n)
    BY DEF StreamInv
  <2>2. Stores(n)' /\ stream' \in Seq(Seq(Event)) /\ refused' = {} /\ n <= n
    BY <1>2, <2>1, StoresKept DEF StreamInv, streamVars
  <2> QED BY <1>2, <2>1, <2>2, StreamStep
<1>3. CASE GuardNext /\ UNCHANGED <<streamVars, syncRuns, delayed, lost>>
  BY <1>2, <1>3, GuardStep
<1>4. ASSUME NEW u \in Uploaders, UploadStep(u) \/ TransportFails(u) PROVE JournalInv' /\ StreamInv'
  <2>1. UNCHANGED journalVars
    BY <1>4 DEF UploadStep, BeginUpload, PostBatch, BatchAccepted, Resync, SyncFails, TransportFails
  <2> QED BY <1>1, <1>4, <2>1, BeginStep, PostStep, AcceptedStep, ResyncStep, OverStep DEF UploadStep
<1>5. ASSUME NEW b \in delayed, DelayedBatchArrives(b) PROVE JournalInv' /\ StreamInv'
  BY <1>1, <1>5, DelayedStep DEF DelayedBatchArrives
<1>6. CASE UNCHANGED uploadVars
  <2>1. BegunStay
    BY <1>6 DEF uploadVars, journalVars, JournalInv, JournalShape, BegunStay, Lines, Begun
  <2> QED BY <1>1, <1>2, <1>6, <2>1 DEF uploadVars
<1> QED BY <1>3, <1>4, <1>5, <1>6 DEF UploadNext

(* A guarded function runs at most once and after its decision is written,  *)
(* and the tail that one unreadable decision leaves stops every later call, *)
(* for every number of calls and wherever appends fail (append_event).      *)
THEOREM GuardSafety == UploadSpec => []UnreadableDecisionStopsGuard
<1> QED BY UploadInvInit, UploadInvStep, GuardStops, PTL DEF UploadSpec

(* The endpoint rejects no batch of a journal that verifies locally, for    *)
(* every number of calls, of concurrent runs and of lost or delayed batches *)
(* and every batch size (verifyEvidenceEvents, sync_journal).               *)
THEOREM JournalAccepted == UploadSpec => []VerifiedJournalNeverRejected
<1>1. StreamInv => VerifiedJournalNeverRejected
  BY DEF StreamInv, VerifiedJournalNeverRejected
<1> QED BY <1>1, UploadInvInit, UploadInvStep, PTL DEF UploadSpec

(* A run of the command that reports success has left every event of its    *)
(* snapshot verified on the server (sync_journal).                          *)
THEOREM ReportIsTrue == UploadSpec => []ReportedMeansStored
<1>1. JournalInv /\ StreamInv => ReportedMeansStored
  <2> SUFFICES ASSUME JournalInv, StreamInv, NEW u \in Uploaders, syncRuns[u].pc = "reported",
                      NEW i \in 1..Len(syncRuns[u].events)
               PROVE  syncRuns[u].events[i] \in StoredEvents
      BY DEF ReportedMeansStored
  <2>1. PICK n \in Nat : Stores(n) /\ RunsInv(n)
    BY DEF StreamInv
  <2>2. PICK q : q = syncRuns[u]
    OBVIOUS
  <2>3. RunInv(q, n) /\ q.pc = "reported" /\ i \in 1..Len(q.events)
    BY <2>1, <2>2 DEF RunsInv
  <2>4. Section(q.events, 0) /\ Len(q.events) <= n
    BY <2>3 DEF RunInv, Uploading, Over
  <2>5. Len(q.events) \in Nat /\ q.events[i] = Begun(0 + i) /\ 0 + i = i
    BY <2>3, <2>4 DEF Section
  <2>6. i \in 1..n
    BY <2>3, <2>4, <2>5
  <2> QED BY <2>1, <2>2, <2>5, <2>6 DEF Stores
<1> QED BY <1>1, UploadInvInit, UploadInvStep, PTL DEF UploadSpec
=============================================================================
