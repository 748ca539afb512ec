------------------------- MODULE AgentSessionProofs -------------------------
(***************************************************************************)
(* Proofs about AgentSession, for every turn limit and every               *)
(* max_resume_attempts.                                                    *)
(***************************************************************************)
EXTENDS AgentSession, TLAPS

\* How the three counters of run_agent go together at each of its steps:
\* the attempt is counted when it has failed, the resume when it is decided,
\* the CLI process when it is started.
Counters ==
  /\ at \in Steps /\ attempt \in Nat /\ starts \in Nat /\ resumeCount \in Nat
  /\ at = "spawn"  => starts = attempt /\ resumeCount = attempt /\ attempt <= MaxResume
  /\ at = "stream" => starts = attempt + 1 /\ resumeCount = attempt /\ attempt <= MaxResume
  /\ at = "failed" => /\ starts = attempt /\ attempt = resumeCount + 1
                      /\ attempt <= MaxResume + 1
  /\ at = "sleep"  => starts = attempt /\ resumeCount = attempt /\ attempt <= MaxResume
  /\ at \in {"ended", "returned"} => starts = resumeCount + 1 /\ starts <= MaxResume + 1
  /\ at = "raised" => starts = resumeCount /\ starts <= MaxResume

\* A step of the CLI or of the container touches no counter.
LEMMA EnvironmentCounters == Counters /\ Environment => Counters'
<1> SUFFICES ASSUME Counters, Environment PROVE Counters'
  OBVIOUS
<1>1. UNCHANGED program /\ UNCHANGED starts
  BY DEF Environment, CliTurn, CliResult, CliDies, ContainerDies
<1> QED  BY <1>1 DEF Counters, program

\* A step of run_agent or run_find keeps the counters together.
LEMMA ProgramCounters == Counters /\ Program => Counters'
<1> SUFFICES ASSUME Counters, Program PROVE Counters'
  OBVIOUS
<1> USE LimitsAssumption DEF Counters, Steps
<1>1. CASE StartCli
  BY <1>1 DEF StartCli
<1>2. CASE SpawnRaises
  BY <1>2 DEF SpawnRaises
<1>3. CASE ReadLine
  <2> DEFINE m == Head(stdout)
  <2>1. at = "stream" /\ UNCHANGED <<resumeCount, starts>>
    BY <1>3 DEF ReadLine
  <2>2. \/ UNCHANGED <<at, attempt>>
        \/ at' = "failed" /\ attempt' = attempt + 1
        \/ at' = "ended" /\ UNCHANGED attempt
    BY <1>3 DEF ReadLine, Fail
  <2> QED  BY <2>1, <2>2
<1>4. CASE StreamEnds
  BY <1>4 DEF StreamEnds, Fail
<1>5. CASE FoundDead
  BY <1>5 DEF FoundDead, UnchangedRead
<1>6. CASE GiveUp
  BY <1>6 DEF GiveUp, UnchangedRead
<1>7. CASE BackOff
  BY <1>7 DEF BackOff, LastAttempt, UnchangedRead
<1>8. CASE Wake
  BY <1>8 DEF Wake, UnchangedRead
<1>9. CASE ReadPoc
  BY <1>9 DEF ReadPoc
<1> QED  BY <1>1, <1>2, <1>3, <1>4, <1>5, <1>6, <1>7, <1>8, <1>9 DEF Program

\* Whatever the CLI and the container do, the counters stay together.
THEOREM CountersAlways == Spec => []Counters
<1>1. Init => Counters
  BY LimitsAssumption DEF Init, Counters, Steps
<1>2. Counters /\ [Next]_vars => Counters'
  <2>1. Counters /\ UNCHANGED vars => Counters'
    BY DEF Counters, vars, program
  <2> QED  BY <2>1, EnvironmentCounters, ProgramCounters DEF Next
<1> QED  BY <1>1, <1>2, PTL DEF Spec

\* For every max_resume_attempts N: at most N + 1 CLI processes are started, and
\* the resume count in the result is the number of those after the first.
THEOREM ResumesCountedAlways == Spec => []ResumesCounted
<1>1. Counters => ResumesCounted
  BY LimitsAssumption DEF Counters, ResumesCounted, Steps
<1> QED  BY <1>1, CountersAlways, PTL

-----------------------------------------------------------------------------
(* The conversation                                                        *)

TurnsOf(ms) == {i \in DOMAIN ms : ms[i].kind \in Turn}

\* A CLI process is there while its stream is read, it works on the session of
\* the result, once that is known, and it opens with its init message.
Stream ==
  /\ at = "stream" <=> cli # "none"
  /\ cli = "none" => stdout = <<>>
  /\ session \in 0 .. Len(saved)
  /\ at = "stream" => current \in 1 .. Len(saved) /\ (session # 0 => current = session)
  /\ \A i \in DOMAIN stdout : stdout[i].session = current
  /\ session = 0 => messages = <<>> /\ (stdout # <<>> => Head(stdout).kind = "init")
  /\ at = "stream" /\ session = 0 /\ stdout = <<>> => cli = "dead"
  /\ at \in {"spawn", "sleep"} => (session = 0 <=> attempt = 0)

\* What was read and what is still to be read are, in this order, turns of the
\* saved conversation.
Order ==
  /\ \A i \in TurnsOf(messages) : messages[i].no <= saved[session]
  /\ \A i \in TurnsOf(stdout) : stdout[i].no <= saved[current]
  /\ \A i, j \in TurnsOf(stdout) : i < j => stdout[i].no < stdout[j].no
  /\ \A i \in TurnsOf(messages), j \in TurnsOf(stdout) : messages[i].no < stdout[j].no

Conversation == TypeOK /\ Stream /\ Order /\ OneConversation

\* Sequences that grow at their end and are read from their front.
LEMMA AppendFacts ==
  ASSUME NEW S, NEW s \in Seq(S), NEW e \in S
  PROVE  /\ Append(s, e) \in Seq(S) /\ Append(s, e) # <<>>
         /\ DOMAIN Append(s, e) = 1 .. (Len(s) + 1) /\ DOMAIN s = 1 .. Len(s) /\ Len(s) \in Nat
         /\ Len(Append(s, e)) = Len(s) + 1
         /\ \A i \in 1 .. Len(s) : Append(s, e)[i] = s[i]
         /\ Append(s, e)[Len(s) + 1] = e
         /\ s # <<>> => Head(Append(s, e)) = Head(s)
         /\ s = <<>> => Head(Append(s, e)) = e
OBVIOUS

LEMMA TailFacts ==
  ASSUME NEW S, NEW s \in Seq(S), s # <<>>
  PROVE  /\ Tail(s) \in Seq(S) /\ Head(s) \in S /\ Head(s) = s[1] /\ 1 \in DOMAIN s
         /\ \A i \in DOMAIN Tail(s) : i \in Nat /\ i + 1 \in DOMAIN s /\ Tail(s)[i] = s[i + 1]
OBVIOUS
LEMMA TurnFacts ==
  ASSUME NEW ms \in Seq(Message)
  PROVE  \A i \in TurnsOf(ms) : /\ i \in DOMAIN ms /\ i \in 1 .. Len(ms) /\ ms # <<>>
                                /\ ms[i].kind \in Turn /\ ms[i].no \in Nat
<1> SUFFICES ASSUME NEW i \in TurnsOf(ms)
             PROVE  /\ i \in DOMAIN ms /\ i \in 1 .. Len(ms) /\ ms # <<>>
                    /\ ms[i].kind \in Turn /\ ms[i].no \in Nat
  OBVIOUS
<1>1. i \in DOMAIN ms /\ ms[i].kind \in Turn
  BY DEF TurnsOf
<1>2. i \in 1 .. Len(ms) /\ ms[i] \in Message /\ ms # <<>>
  BY <1>1
<1> QED  BY <1>1, <1>2 DEF Message

\* The CLI adds a turn to the saved conversation and prints it.
LEMMA CliTurnConversation == Counters /\ Conversation /\ CliTurn => Conversation'
<1> SUFFICES ASSUME Counters, Conversation, CliTurn PROVE Conversation'
  OBVIOUS
<1> USE LimitsAssumption
<1>1. PICK kind \in Turn : stdout' = Append(stdout, Line(kind, saved[current] + 1))
  BY DEF CliTurn
<1> DEFINE e == Line(kind, saved[current] + 1)
<1>2. /\ cli = "running" /\ turns < MaxTurns /\ turns' = turns + 1
      /\ saved' = [saved EXCEPT ![current] = @ + 1]
      /\ UNCHANGED <<at, attempt, messages, session, error, resumeCount, crash, cli, current,
                      container, starts, submitted>>
  BY DEF CliTurn, program
<1>3. /\ at = "stream" /\ current \in 1 .. Len(saved) /\ (session # 0 => current = session)
      /\ saved \in Seq(Nat) /\ stdout \in Seq(Message) /\ messages \in Seq(Message)
  BY <1>2 DEF Conversation, Stream, TypeOK
<1>4. /\ e \in Message /\ e.kind = kind /\ e.session = current /\ e.no = saved[current] + 1
      /\ kind \in Turn /\ saved[current] \in Nat
  BY <1>3 DEF Line, Message, Kinds, Turn, Conversation, TypeOK
<1>5. /\ saved' \in Seq(Nat) /\ Len(saved') = Len(saved) /\ saved'[current] = saved[current] + 1
      /\ session # 0 => saved'[session] = saved[session] + 1
  BY <1>2, <1>3
<1> HIDE DEF e
<1>6. /\ stdout' \in Seq(Message) /\ stdout' # <<>> /\ Len(stdout) \in Nat
      /\ DOMAIN stdout' = 1 .. (Len(stdout) + 1) /\ DOMAIN stdout = 1 .. Len(stdout)
      /\ \A i \in 1 .. Len(stdout) : stdout'[i] = stdout[i]
      /\ stdout'[Len(stdout) + 1] = e
      /\ stdout # <<>> => Head(stdout') = Head(stdout)
  BY <1>1, <1>3, <1>4, AppendFacts DEF e
<1>7. TypeOK'
  BY <1>2, <1>5, <1>6 DEF Conversation, TypeOK
<1>8. Stream'
  <2>1. session = 0 => stdout # <<>>
    BY <1>2 DEF Conversation, Stream
  <2>2. \A i \in DOMAIN stdout' : stdout'[i].session = current'
    BY <1>2, <1>4, <1>6 DEF Conversation, Stream
  <2>3. session' = 0 => messages' = <<>> /\ (stdout' # <<>> => Head(stdout').kind = "init")
    BY <1>2, <1>6, <2>1 DEF Conversation, Stream
  <2>4. session' \in 0 .. Len(saved') /\ current' \in 1 .. Len(saved')
    BY <1>2, <1>3, <1>5 DEF Conversation, Stream
  <2> QED  BY <1>2, <1>3, <1>6, <2>2, <2>3, <2>4 DEF Conversation, Stream
<1>9. Order'
  <2>1. TurnsOf(stdout') = TurnsOf(stdout) \cup {Len(stdout) + 1}
    <3>1. \A i \in 1 .. Len(stdout) : stdout'[i].kind \in Turn <=> stdout[i].kind \in Turn
      BY <1>6
    <3>2. DOMAIN stdout' = DOMAIN stdout \cup {Len(stdout) + 1} /\ stdout'[Len(stdout) + 1].kind \in Turn
      BY <1>4, <1>6
    <3> QED  BY <1>6, <3>1, <3>2 DEF TurnsOf
  <2>2. \A i \in TurnsOf(stdout) : /\ i \in 1 .. Len(stdout) /\ stdout'[i] = stdout[i]
                                   /\ stdout[i].no \in Nat /\ stdout[i].no <= saved[current]
    BY <1>3, <1>6, TurnFacts DEF Conversation, Order
  <2>3. \A i \in TurnsOf(messages) : /\ messages[i].no \in Nat /\ messages[i].no <= saved[session]
                                     /\ session = current
    <3>1. messages # <<>> => session # 0
      BY DEF Conversation, Stream
    <3> QED  BY <1>3, <3>1, TurnFacts DEF Conversation, Order
  <2>4. \A i \in TurnsOf(messages') : messages'[i].no <= saved'[session']
    BY <1>2, <1>4, <1>5, <2>3
  <2>5. \A i \in TurnsOf(stdout') : stdout'[i].no <= saved'[current']
    BY <1>2, <1>4, <1>5, <1>6, <2>1, <2>2
  <2>6. \A i, j \in TurnsOf(stdout') : i < j => stdout'[i].no < stdout'[j].no
    BY <1>4, <1>6, <2>1, <2>2 DEF Conversation, Order
  <2>7. \A i \in TurnsOf(messages'), j \in TurnsOf(stdout') : messages'[i].no < stdout'[j].no
    BY <1>2, <1>4, <1>6, <2>1, <2>2, <2>3 DEF Conversation, Order
  <2> QED  BY <2>4, <2>5, <2>6, <2>7 DEF Order
<1>10. OneConversation'
  BY <1>2 DEF Conversation, OneConversation, Turns
<1> QED  BY <1>7, <1>8, <1>9, <1>10 DEF Conversation

\* A result, of whatever kind, is no turn.
LEMMA CliResultConversation == Counters /\ Conversation /\ CliResult => Conversation'
<1> SUFFICES ASSUME Counters, Conversation, CliResult PROVE Conversation'
  OBVIOUS
<1>1. PICK kind \in {"success", "error", "error_max_turns"} :
        stdout' = Append(stdout, Line(kind, 0))
  BY DEF CliResult
<1> DEFINE e == Line(kind, 0)
<1>2. /\ cli = "running" /\ cli' = "idle"
      /\ UNCHANGED <<at, attempt, messages, session, error, resumeCount, crash, current, turns,
                      saved, container, starts, submitted>>
  BY DEF CliResult, program
<1>3. /\ at = "stream" /\ stdout \in Seq(Message) /\ current \in Nat
      /\ session = 0 => stdout # <<>>
  BY <1>2 DEF Conversation, Stream, TypeOK
<1>4. e \in Message /\ e.kind \notin Turn /\ e.session = current
  BY <1>3 DEF Line, Message, Kinds, Turn
<1> HIDE DEF e
<1>6. /\ stdout' \in Seq(Message) /\ stdout' # <<>> /\ Len(stdout) \in Nat
      /\ DOMAIN stdout' = 1 .. (Len(stdout) + 1) /\ DOMAIN stdout = 1 .. Len(stdout)
      /\ \A i \in 1 .. Len(stdout) : stdout'[i] = stdout[i]
      /\ stdout'[Len(stdout) + 1] = e
      /\ stdout # <<>> => Head(stdout') = Head(stdout)
  BY <1>1, <1>3, <1>4, AppendFacts DEF e
<1>7. TypeOK'
  BY <1>2, <1>6 DEF Conversation, TypeOK
<1>8. Stream'
  BY <1>2, <1>3, <1>4, <1>6 DEF Conversation, Stream
<1>9. Order'
  <2>1. /\ TurnsOf(stdout') = TurnsOf(stdout)
        /\ \A i \in TurnsOf(stdout) : stdout'[i] = stdout[i]
    BY <1>4, <1>6 DEF TurnsOf
  <2> QED  BY <1>2, <2>1 DEF Conversation, Order
<1>10. OneConversation'
  BY <1>2 DEF Conversation, OneConversation, Turns
<1> QED  BY <1>7, <1>8, <1>9, <1>10 DEF Conversation

\* A new process works on the session of the result, or on a new one.
LEMMA StartConversation == Counters /\ Conversation /\ StartCli => Conversation'
<1> SUFFICES ASSUME Counters, Conversation, StartCli PROVE Conversation'
  OBVIOUS
<1> USE LimitsAssumption
<1>1. /\ at = "spawn" /\ at' = "stream" /\ starts' = starts + 1 /\ turns' = 0
      /\ UNCHANGED <<attempt, messages, session, error, resumeCount, crash, container, submitted>>
      /\ session = 0 <=> attempt = 0
  BY DEF StartCli, Conversation, Stream
<1>2. /\ saved \in Seq(Nat) /\ Len(saved) \in Nat /\ session \in 0 .. Len(saved) /\ attempt \in Nat
      /\ messages \in Seq(Message)
  BY DEF Conversation, TypeOK, Stream, Counters
<1>3. /\ saved' \in Seq(Nat) /\ current' \in 1 .. Len(saved') /\ Len(saved) <= Len(saved')
      /\ Len(saved') \in Nat
      /\ session # 0 => current' = session /\ saved'[session] = saved[session]
      /\ \A k \in 1 .. Len(saved) : saved'[k] = saved[k]
  <2>1. CASE Resumes
    BY <1>1, <1>2, <2>1 DEF StartCli, Resumes
  <2>2. CASE ~Resumes
    <3>1. session = 0 /\ current' = Len(saved) + 1 /\ saved' = Append(saved, 0)
      BY <1>1, <1>2, <2>2 DEF StartCli, Resumes
    <3> QED  BY <1>2, <3>1, AppendFacts
  <2> QED  BY <2>1, <2>2
<1> DEFINE e == [kind |-> "init", session |-> current', no |-> 0]
<1>4. e \in Message /\ e.kind = "init" /\ e.kind \notin Turn /\ e.session = current'
  BY <1>3 DEF Message, Kinds, Turn
<1>5. \/ cli' = "running" /\ stdout' = <<e>>
      \/ cli' = "dead" /\ stdout' = <<>>
  BY DEF StartCli
<1> HIDE DEF e
<1>6. stdout' \in Seq(Message) /\ (stdout' # <<>> => Head(stdout') = e)
  <2>1. <<e>> \in Seq(Message) /\ Head(<<e>>) = e /\ <<>> \in Seq(Message)
    BY <1>4
  <2> QED  BY <1>5, <2>1
<1>7. /\ \A i \in DOMAIN stdout' : stdout'[i] = e
      /\ TurnsOf(stdout') = {}
  BY <1>4, <1>5 DEF TurnsOf
<1>8. starts' \in Nat /\ current' \in Nat /\ cli' \in {"none", "running", "idle", "dead"}
  BY <1>1, <1>3, <1>5 DEF Counters
<1>9. TypeOK'
  BY <1>1, <1>3, <1>6, <1>8 DEF Conversation, TypeOK, Steps
<1>10. Stream'
  <2>1. session' \in 0 .. Len(saved')
    BY <1>1, <1>2, <1>3
  <2>2. session' = 0 => messages' = <<>> /\ (stdout' # <<>> => Head(stdout').kind = "init")
    BY <1>1, <1>4, <1>6 DEF Conversation, Stream
  <2>3. \A i \in DOMAIN stdout' : stdout'[i].session = current'
    BY <1>4, <1>7
  <2>4. cli' # "none" /\ (stdout' = <<>> => cli' = "dead")
    BY <1>5
  <2>5. at' \in {"spawn", "sleep"} => (session' = 0 <=> attempt' = 0)
    BY <1>1
  <2> QED  BY <1>1, <1>3, <2>1, <2>2, <2>3, <2>4, <2>5 DEF Stream
<1>11. Order'
  <2>1. \A i \in TurnsOf(messages') : messages'[i].no <= saved'[session']
    <3>1. messages # <<>> => session # 0
      BY DEF Conversation, Stream
    <3> QED  BY <1>1, <1>2, <1>3, <3>1, TurnFacts DEF Conversation, Order
  <2> QED  BY <1>7, <2>1 DEF Order
<1>12. OneConversation'
  BY <1>1 DEF Conversation, OneConversation, Turns
<1> QED  BY <1>9, <1>10, <1>11, <1>12 DEF Conversation


\* The process ends, or its reading does: nothing is left to read.
LEMMA TerminatedConversation ==
  ASSUME Conversation, TypeOK', OneConversation', cli' = "none", stdout' = <<>>,
         at' \notin {"stream", "spawn", "sleep"}, UNCHANGED <<messages, session, saved>>
  PROVE  Conversation'
<1>1. TurnsOf(stdout') = {} /\ DOMAIN stdout' = {}
  BY DEF TurnsOf
<1>2. Stream'
  BY <1>1 DEF Conversation, Stream
<1>3. Order'
  BY <1>1 DEF Conversation, Order
<1> QED  BY <1>2, <1>3 DEF Conversation

\* One line of the stream is read.
LEMMA ReadConversation == Counters /\ Conversation /\ ReadLine => Conversation'
<1> SUFFICES ASSUME Counters, Conversation, ReadLine PROVE Conversation'
  OBVIOUS
<1> USE LimitsAssumption
<1> DEFINE m == Head(stdout)
<1>1. /\ at = "stream" /\ stdout # <<>> /\ messages' = Append(messages, m)
      /\ submitted' = IF m.kind = "submission" THEN m.no
                      ELSE IF m.kind = "claim" THEN 0 ELSE submitted
      /\ UNCHANGED <<resumeCount, crash, container, starts>>
  BY DEF ReadLine
<1>2. /\ stdout \in Seq(Message) /\ messages \in Seq(Message) /\ session \in Nat
      /\ cli # "none" /\ current \in 1 .. Len(saved) /\ (session # 0 => current = session)
      /\ session = 0 => messages = <<>> /\ m.kind = "init"
      /\ Len(saved) \in Nat
  BY <1>1 DEF Conversation, TypeOK, Stream
<1>3. /\ Tail(stdout) \in Seq(Message) /\ m \in Message /\ m = stdout[1] /\ 1 \in DOMAIN stdout
      /\ \A i \in DOMAIN Tail(stdout) : /\ i \in Nat /\ i + 1 \in DOMAIN stdout
                                       /\ Tail(stdout)[i] = stdout[i + 1]
  BY <1>1, <1>2, TailFacts
<1>4. m.session = current /\ m.no \in Nat /\ m.kind \in Kinds
  BY <1>3 DEF Conversation, Stream, Message
<1>5. /\ messages' \in Seq(Message) /\ messages' # <<>> /\ Len(messages) \in Nat
      /\ DOMAIN messages' = 1 .. (Len(messages) + 1) /\ DOMAIN messages = 1 .. Len(messages)
      /\ \A i \in 1 .. Len(messages) : messages'[i] = messages[i]
      /\ messages'[Len(messages) + 1] = m
  BY <1>1, <1>2, <1>3, AppendFacts
<1>6. session' = current /\ UNCHANGED <<current, turns, saved>>
  <2>1. m.kind = "init" => session' = IF session = 0 THEN m.session ELSE session
    BY DEF ReadLine, Turn
  <2>2. m.kind # "init" => session' = session
    BY DEF ReadLine, Fail
  <2>3. UNCHANGED <<current, turns, saved>>
    BY DEF ReadLine, Fail, Terminate
  <2> QED  BY <1>2, <1>4, <2>1, <2>2, <2>3
<1>12. \/ stdout' = Tail(stdout) /\ UNCHANGED <<at, attempt, error, cli>>
       \/ stdout' = <<>> /\ cli' = "none" /\ at' \in {"failed", "ended"}
  BY DEF ReadLine, Fail, Terminate
<1>13. /\ at' \in {at, "failed", "ended"} /\ error' \in {error, "turn budget"}
  BY DEF ReadLine, Fail
<1>14. attempt' = attempt \/ attempt' = attempt + 1
  BY DEF ReadLine, Fail
<1> HIDE DEF m
<1>7. stdout' \in Seq(Message)
  <2>1. <<>> \in Seq(Message)
    OBVIOUS
  <2> QED  BY <1>3, <1>12, <2>1
<1>8. TypeOK'
  <2>1. submitted' \in Nat
    BY <1>1, <1>4 DEF Conversation, TypeOK
  <2>2. at' \in Steps /\ error' \in Errors /\ cli' \in {"none", "running", "idle", "dead"}
    BY <1>1, <1>12, <1>13 DEF Conversation, TypeOK, Steps, Errors
  <2>4. attempt' \in 0 .. MaxResume + 1
    <3>1. attempt \in Nat /\ attempt <= MaxResume
      BY <1>1 DEF Counters
    <3> QED  BY <1>14, <3>1
  <2>3. session' \in Nat
    BY <1>2, <1>6
  <2> QED  BY <1>1, <1>5, <1>6, <1>7, <2>1, <2>2, <2>3, <2>4 DEF Conversation, TypeOK
<1>9. OneConversation'
  <2>1. \A i \in DOMAIN messages' : messages'[i].session = session'
    BY <1>2, <1>4, <1>5, <1>6 DEF Conversation, OneConversation
  <2>2. ASSUME NEW i \in Turns', NEW j \in Turns', i < j
        PROVE  messages'[i].no < messages'[j].no
    <3>1. /\ i \in 1 .. Len(messages) /\ i \in Turns /\ messages'[i] = messages[i]
          /\ j \in 1 .. (Len(messages) + 1)
      BY <1>5, <2>2 DEF Turns
    <3>2. CASE j = Len(messages) + 1
      <4>1. 1 \in TurnsOf(stdout) /\ i \in TurnsOf(messages)
        BY <1>3, <1>5, <3>1, <3>2 DEF Turns, TurnsOf
      <4> QED  BY <1>3, <1>5, <3>1, <3>2, <4>1 DEF Conversation, Order
    <3>3. CASE j # Len(messages) + 1
      <4>1. j \in Turns /\ messages'[j] = messages[j]
        BY <1>5, <3>1, <3>3 DEF Turns
      <4> QED  BY <2>2, <3>1, <4>1 DEF Conversation, OneConversation
    <3> QED  BY <3>2, <3>3
  <2> QED  BY <2>1, <2>2 DEF OneConversation
<1>10. Stream'
  <2>1. session' # 0 /\ session' \in 0 .. Len(saved')
    BY <1>2, <1>6
  <2>2. CASE stdout' = Tail(stdout) /\ UNCHANGED <<at, attempt, error, cli>>
    <3>1. \A i \in DOMAIN stdout' : stdout'[i].session = current'
      BY <1>3, <1>6, <2>2 DEF Conversation, Stream
    <3> QED  BY <1>1, <1>2, <1>6, <2>1, <2>2, <3>1 DEF Stream
  <2>3. CASE stdout' = <<>> /\ cli' = "none" /\ at' \in {"failed", "ended"}
    BY <2>1, <2>3 DEF Stream
  <2> QED  BY <1>12, <2>2, <2>3
<1>11. Order'
  <2>1. \A i \in TurnsOf(stdout') : /\ i \in Nat /\ i + 1 \in TurnsOf(stdout)
                                    /\ stdout'[i] = stdout[i + 1]
    <3>1. CASE stdout' = <<>>
      BY <3>1 DEF TurnsOf
    <3>2. CASE stdout' = Tail(stdout)
      BY <1>3, <3>2 DEF TurnsOf
    <3> QED  BY <1>12, <3>1, <3>2
  <2>2. ASSUME NEW i \in TurnsOf(messages')
        PROVE  \/ i \in TurnsOf(messages) /\ messages'[i] = messages[i] /\ session = current
               \/ messages'[i] = m /\ 1 \in TurnsOf(stdout)
    <3>1. i \in 1 .. (Len(messages) + 1) /\ messages'[i].kind \in Turn
      BY <1>5 DEF TurnsOf
    <3>2. CASE i = Len(messages) + 1
      BY <1>3, <1>5, <3>1, <3>2 DEF TurnsOf
    <3>3. CASE i # Len(messages) + 1
      <4>1. i \in 1 .. Len(messages)
        BY <1>5, <3>1, <3>3
      <4> QED  BY <1>2, <1>5, <3>1, <4>1 DEF TurnsOf
    <3> QED  BY <3>2, <3>3
  <2>3. \A i \in TurnsOf(messages') : messages'[i].no <= saved'[session']
    BY <1>3, <1>6, <2>2 DEF Conversation, Order
  <2>4. \A i \in TurnsOf(stdout') : stdout'[i].no <= saved'[current']
    BY <1>6, <2>1 DEF Conversation, Order
  <2>5. \A i, j \in TurnsOf(stdout') : i < j => stdout'[i].no < stdout'[j].no
    BY <2>1 DEF Conversation, Order
  <2>6. ASSUME NEW i \in TurnsOf(messages'), NEW j \in TurnsOf(stdout')
        PROVE  messages'[i].no < stdout'[j].no
    <3>1. j \in Nat /\ j + 1 \in TurnsOf(stdout) /\ stdout'[j] = stdout[j + 1] /\ j # 0
      <4>1. j \in DOMAIN stdout' /\ stdout' \in Seq(Message)
        BY <1>7 DEF TurnsOf
      <4> QED  BY <2>1, <4>1
    <3>2. 1 \in TurnsOf(stdout) => stdout[1].no < stdout[j + 1].no
      <4>1. 1 < j + 1
        BY <3>1
      <4> QED  BY <3>1, <4>1 DEF Conversation, Order
    <3> QED  BY <1>3, <2>2, <3>1, <3>2 DEF Conversation, Order
  <2> QED  BY <2>3, <2>4, <2>5, <2>6 DEF Order
<1> QED  BY <1>8, <1>9, <1>10, <1>11 DEF Conversation

\* The other steps read nothing, and leave the process as it is or end it.
LEMMA QuietConversation ==
  ASSUME Counters, Conversation,
         CliDies \/ ContainerDies \/ SpawnRaises \/ StreamEnds \/ FoundDead \/ GiveUp \/ BackOff
         \/ Wake \/ ReadPoc
  PROVE  Conversation'
<1> USE LimitsAssumption
<1>1. UNCHANGED <<messages, session, current, turns, saved, starts, submitted>>
  BY DEF CliDies, ContainerDies, SpawnRaises, StreamEnds, Fail, Terminate, FoundDead, GiveUp,
         BackOff, Wake, ReadPoc, UnchangedRead, program, process
<1>2. OneConversation'
  BY <1>1 DEF Conversation, OneConversation, Turns
<1>3. CASE StreamEnds
  <2>1. /\ at = "stream" /\ at' = "failed" /\ attempt' = attempt + 1 /\ cli' = "none"
        /\ stdout' = <<>> /\ UNCHANGED <<error, resumeCount, crash, container>>
    BY <1>3 DEF StreamEnds, Fail, Terminate
  <2>2. attempt' \in 0 .. MaxResume + 1 /\ <<>> \in Seq(Message)
    BY <2>1 DEF Counters
  <2>3. TypeOK'
    BY <1>1, <2>1, <2>2 DEF Conversation, TypeOK, Steps
  <2> QED  BY <1>1, <1>2, <2>1, <2>3, TerminatedConversation
<1>4. CASE ~StreamEnds
  <2>1. /\ UNCHANGED <<attempt, stdout>> /\ (cli' = "none" <=> cli = "none")
        /\ cli' \in {cli, "dead"} /\ (at' = "stream" <=> at = "stream")
        /\ at' \in {"spawn", "sleep"} => at \in {"spawn", "sleep"} \/ (at = "failed" /\ session # 0)
    <3>1. CASE CliDies \/ ContainerDies
      BY <3>1 DEF CliDies, ContainerDies, program
    <3>2. CASE SpawnRaises \/ FoundDead \/ GiveUp \/ BackOff \/ Wake
      BY <3>2 DEF SpawnRaises, FoundDead, GiveUp, BackOff, Wake, LastAttempt, UnchangedRead, process
    <3>3. CASE ReadPoc
      BY <3>3 DEF ReadPoc, process
    <3> QED  BY <1>4, <3>1, <3>2, <3>3
  <2>2. at' \in Steps /\ error' \in Errors /\ container' \in {"up", "dead"}
    BY <1>4 DEF CliDies, ContainerDies, SpawnRaises, FoundDead, GiveUp, BackOff, Wake, ReadPoc,
                UnchangedRead, program, process, Conversation, TypeOK, Steps, Errors
  <2>3. crash' \in Nat /\ resumeCount' \in 0 .. MaxResume
    <3>1. CASE ReadPoc
      <4>1. \A i \in DOMAIN messages : messages[i].no \in Nat
        <5>1. messages \in Seq(Message)
          BY DEF Conversation, TypeOK
        <5>2. \A i \in DOMAIN messages : messages[i] \in Message
          BY <5>1
        <5> QED  BY <5>2 DEF Message
      <4>2. crash' \in Nat /\ UNCHANGED resumeCount
        BY <3>1, <4>1 DEF ReadPoc
      <4> QED  BY <4>2 DEF Conversation, TypeOK
    <3>2. CASE ~ReadPoc
      <4>1. UNCHANGED crash /\ (UNCHANGED resumeCount \/ (resumeCount' = attempt /\ ~LastAttempt))
        <5>1. CASE CliDies \/ ContainerDies \/ SpawnRaises
          BY <5>1 DEF CliDies, ContainerDies, SpawnRaises, program
        <5>2. CASE FoundDead \/ GiveUp \/ BackOff \/ Wake
          BY <5>2 DEF FoundDead, GiveUp, BackOff, Wake, UnchangedRead
        <5> QED  BY <1>4, <3>2, <5>1, <5>2
      <4> QED  BY <4>1 DEF Conversation, TypeOK, LastAttempt
    <3> QED  BY <3>1, <3>2
  <2>4. TypeOK'
    BY <1>1, <2>1, <2>2, <2>3 DEF Conversation, TypeOK
  <2>5. Stream'
    <3>1. at' \in {"spawn", "sleep"} => (session' = 0 <=> attempt' = 0)
      <4>1. at = "failed" => attempt # 0
        BY DEF Counters
      <4> QED  BY <1>1, <2>1, <4>1 DEF Conversation, Stream
    <3>2. /\ at' = "stream" <=> cli' # "none"
          /\ cli' = "none" => stdout' = <<>>
          /\ at' = "stream" /\ session' = 0 /\ stdout' = <<>> => cli' = "dead"
      BY <1>1, <2>1 DEF Conversation, Stream
    <3> QED  BY <1>1, <2>1, <3>1, <3>2 DEF Conversation, Stream
  <2>6. Order'
    BY <1>1, <2>1 DEF Conversation, Order
  <2> QED  BY <1>2, <2>4, <2>5, <2>6 DEF Conversation
<1> QED  BY <1>3, <1>4


\* Whatever the CLI, its stream and the container do, the invariant holds.
THEOREM ConversationAlways == Spec => []Conversation
<1>1. Init => Conversation
  <2> SUFFICES ASSUME Init PROVE Conversation
    OBVIOUS
  <2>1. TypeOK
    BY LimitsAssumption DEF Init, TypeOK, Steps, Errors
  <2>2. Stream
    BY DEF Init, Stream
  <2>3. Order /\ OneConversation
    BY DEF Init, Order, OneConversation, Turns, TurnsOf
  <2> QED  BY <2>1, <2>2, <2>3 DEF Conversation
<1>2. Counters /\ Conversation /\ [Next]_vars => Conversation'
  <2>1. Conversation /\ UNCHANGED vars => Conversation'
    BY DEF Conversation, TypeOK, Stream, Order, OneConversation, Turns, vars, program, process
  <2>2. Counters /\ Conversation /\ Environment => Conversation'
    BY CliTurnConversation, CliResultConversation, QuietConversation DEF Environment
  <2>3. Counters /\ Conversation /\ Program => Conversation'
    BY StartConversation, ReadConversation, QuietConversation DEF Program
  <2> QED  BY <2>1, <2>2, <2>3 DEF Next
<1> QED  BY <1>1, <1>2, CountersAlways, PTL DEF Spec

\* Every variable of run_agent keeps its type: the attempts and the resumes stay
\* within max_resume_attempts.
THEOREM SessionTypeSafety == Spec => []TypeOK
<1>1. Conversation => TypeOK
  BY DEF Conversation
<1> QED  BY <1>1, ConversationAlways, PTL

\* However often a session is resumed, its result is one conversation, in order
\* and without repetitions.
THEOREM OneConversationAlways == Spec => []OneConversation
<1>1. Conversation => OneConversation
  BY DEF Conversation
<1> QED  BY <1>1, ConversationAlways, PTL

-----------------------------------------------------------------------------
(* The submission                                                          *)

IsLast(ms, n) == n \in Tagged(ms) \cup {0} /\ \A k \in Tagged(ms) : k <= n

PocIn(ms, n) == IF n \in DOMAIN ms /\ ms[n].kind = "submission" THEN ms[n].no ELSE 0

\* What the history calls submitted is what the last tagged message holds.
Submission ==
  /\ \E n \in 0 .. Len(messages) : IsLast(messages, n) /\ submitted = PocIn(messages, n)
  /\ SubmissionSalvaged

\* find_tagged_message returns the last tagged message.
LEMMA LastTaggedIsLast ==
  ASSUME NEW ms \in Seq(Message), NEW n \in 0 .. Len(ms), IsLast(ms, n)
  PROVE  LastTagged(ms) = n
<1> DEFINE S == Tagged(ms) \cup {0}
<1>1. /\ \A k \in S : k \in Nat
      /\ n \in S /\ \A k \in S : k <= n
  BY DEF IsLast, Tagged
<1>2. \A x \in S : (\A y \in S : x >= y) => x = n
  BY <1>1
<1>3. \E x \in S : \A y \in S : x >= y
  BY <1>1
<1> HIDE DEF S
<1>4. Max(S) = n
  BY <1>2, <1>3 DEF Max
<1> QED  BY <1>4 DEF LastTagged, S


\* A line with the tag becomes the last one, any other leaves it.
LEMMA ReadSubmission == Conversation /\ Submission /\ ReadLine => Submission'
<1> SUFFICES ASSUME Conversation, Submission, ReadLine PROVE Submission'
  OBVIOUS
<1> DEFINE m == Head(stdout)
<1>1. /\ at = "stream" /\ stdout # <<>> /\ messages' = Append(messages, m)
      /\ submitted' = IF m.kind = "submission" THEN m.no
                      ELSE IF m.kind = "claim" THEN 0 ELSE submitted
  BY DEF ReadLine
<1>2. at' # "returned"
  BY DEF ReadLine, Fail
<1>3. messages \in Seq(Message) /\ m \in Message
  BY <1>1, TailFacts DEF Conversation, TypeOK
<1> HIDE DEF m
<1>4. /\ messages' \in Seq(Message) /\ Len(messages) \in Nat /\ Len(messages') = Len(messages) + 1
      /\ DOMAIN messages' = 1 .. (Len(messages) + 1) /\ DOMAIN messages = 1 .. Len(messages)
      /\ \A i \in 1 .. Len(messages) : messages'[i] = messages[i]
      /\ messages'[Len(messages) + 1] = m
  BY <1>1, <1>3, AppendFacts
<1>5. PICK n \in 0 .. Len(messages) : IsLast(messages, n) /\ submitted = PocIn(messages, n)
  BY DEF Submission
<1>6. \A k \in 1 .. Len(messages) : k \in Tagged(messages') <=> k \in Tagged(messages)
  BY <1>4 DEF Tagged
<1>7. Tagged(messages') \subseteq 1 .. (Len(messages) + 1)
  BY <1>4 DEF Tagged
<1>8. CASE m.kind \in {"claim", "submission"}
  <2> DEFINE k == Len(messages) + 1
  <2>1. k \in Tagged(messages') /\ k \in DOMAIN messages' /\ k \in 0 .. Len(messages')
    BY <1>4, <1>8 DEF Tagged
  <2>2. IsLast(messages', k)
    BY <1>4, <1>7, <2>1 DEF IsLast
  <2>3. submitted' = PocIn(messages', k)
    BY <1>1, <1>4, <1>8, <2>1 DEF PocIn
  <2> QED  BY <1>2, <2>1, <2>2, <2>3 DEF Submission, SubmissionSalvaged
<1>9. CASE m.kind \notin {"claim", "submission"}
  <2>1. Tagged(messages') = Tagged(messages)
    <3>1. Len(messages) + 1 \notin Tagged(messages')
      BY <1>4, <1>9 DEF Tagged
    <3>2. \A k \in Tagged(messages') : k \in 1 .. Len(messages)
      BY <1>4, <1>7, <3>1
    <3>3. \A k \in Tagged(messages) : k \in 1 .. Len(messages)
      BY <1>4 DEF Tagged
    <3> QED  BY <1>6, <3>2, <3>3
  <2>2. IsLast(messages', n) /\ n \in 0 .. Len(messages')
    BY <1>4, <1>5, <2>1 DEF IsLast
  <2>3. submitted' = submitted /\ PocIn(messages', n) = PocIn(messages, n)
    <3>1. n \in DOMAIN messages => n \in DOMAIN messages' /\ messages'[n] = messages[n]
      BY <1>4
    <3>2. n \notin DOMAIN messages => n \notin DOMAIN messages'
      BY <1>4, <1>5
    <3> QED  BY <1>1, <1>9, <3>1, <3>2 DEF PocIn
  <2> QED  BY <1>2, <1>5, <2>2, <2>3 DEF Submission, SubmissionSalvaged
<1> QED  BY <1>8, <1>9

\* The PoC is taken from the last tagged message.
LEMMA ReadPocSubmission == Conversation /\ Submission /\ ReadPoc => Submission'
<1> SUFFICES ASSUME Conversation, Submission, ReadPoc PROVE Submission'
  OBVIOUS
<1>1. PICK n \in 0 .. Len(messages) : IsLast(messages, n) /\ submitted = PocIn(messages, n)
  BY DEF Submission
<1>2. LastTagged(messages) = n
  BY <1>1, LastTaggedIsLast DEF Conversation, TypeOK
<1>3. UNCHANGED <<messages, container, submitted>>
  BY DEF ReadPoc
<1>4. container = "up" => crash' = PocIn(messages, n)
  BY <1>2 DEF ReadPoc, PocIn
<1> QED  BY <1>1, <1>3, <1>4 DEF Submission, SubmissionSalvaged

\* No other step reads a message, or returns.
LEMMA QuietSubmission ==
  ASSUME Submission, [Next]_vars, ~ReadLine, ~ReadPoc
  PROVE  Submission'
<1>1. /\ UNCHANGED <<messages, submitted, crash>>
      /\ container' = "up" => container = "up"
      /\ at' = "returned" => at = "returned"
  <2>1. CASE Environment
    BY <2>1 DEF Environment, CliTurn, CliResult, CliDies, ContainerDies, program
  <2>2. CASE StartCli \/ SpawnRaises \/ StreamEnds
    BY <2>2 DEF StartCli, SpawnRaises, StreamEnds, Fail
  <2>3. CASE FoundDead \/ GiveUp \/ BackOff \/ Wake
    BY <2>3 DEF FoundDead, GiveUp, BackOff, Wake, UnchangedRead
  <2>4. CASE UNCHANGED vars
    BY <2>4 DEF vars, program
  <2> QED  BY <2>1, <2>2, <2>3, <2>4 DEF Next, Program
<1>2. SubmissionSalvaged'
  BY <1>1 DEF Submission, SubmissionSalvaged
<1>3. PICK n \in 0 .. Len(messages) : IsLast(messages, n) /\ submitted = PocIn(messages, n)
  BY DEF Submission
<1>4. n \in 0 .. Len(messages') /\ IsLast(messages', n) /\ submitted' = PocIn(messages', n)
  BY <1>1, <1>3
<1> QED  BY <1>2, <1>4 DEF Submission

\* Whatever error ended the session: if the container lived, the last submission
\* that any attempt printed is returned, unless a later claim replaced it.
THEOREM SubmissionSalvagedAlways == Spec => []SubmissionSalvaged
<1>1. Init => Submission
  <2> SUFFICES ASSUME Init PROVE Submission
    OBVIOUS
  <2>1. messages = <<>> /\ submitted = 0 /\ at = "spawn" /\ Tagged(<<>>) = {} /\ Len(<<>>) = 0
    BY DEF Init, Tagged
  <2>2. IsLast(messages, 0) /\ PocIn(messages, 0) = 0 /\ 0 \in 0 .. Len(messages)
    BY <2>1 DEF IsLast, PocIn
  <2> QED  BY <2>1, <2>2 DEF Submission, SubmissionSalvaged
<1>2. Conversation /\ Submission /\ [Next]_vars => Submission'
  BY ReadSubmission, ReadPocSubmission, QuietSubmission
<1>3. Submission => SubmissionSalvaged
  BY DEF Submission
<1> QED  BY <1>1, <1>2, <1>3, ConversationAlways, PTL DEF Spec

-----------------------------------------------------------------------------
(* The turn budget                                                         *)

\* Why the budget holds: every turn of the conversation was taken by one of the
\* processes started so far, the running one has taken `turns` of them, and only
\* the last line read can be that a limit was reached.
Spent ==
  /\ \A s \in DOMAIN saved : saved[s] <= MaxTurns * starts
  /\ at = "stream" => saved[current] <= MaxTurns * (starts - 1) + turns
  /\ \A i \in DOMAIN messages :
       messages[i].kind = "error_max_turns" => at \in {"ended", "returned"} /\ error = "turn budget"

\* One process more is one budget more.
LEMMA OneBudgetMore ==
  ASSUME NEW n \in Nat
  PROVE  /\ MaxTurns * n \in Nat /\ MaxTurns * (n + 1) = MaxTurns * n + MaxTurns
         /\ (n + 1) - 1 = n
BY LimitsAssumption

\* A larger count of processes is a larger budget.
LEMMA BudgetGrows ==
  ASSUME NEW n \in Nat, NEW m \in Nat, n <= m
  PROVE  MaxTurns * n <= MaxTurns * m
<1>1. PICK d \in Nat : m = n + d
  <2>1. m - n \in Nat /\ m = n + (m - n)
    OBVIOUS
  <2> QED  BY <2>1
<1>2. MaxTurns * n \in Nat /\ MaxTurns * d \in Nat /\ MaxTurns * (n + d) = MaxTurns * n + MaxTurns * d
  BY LimitsAssumption
<1> QED  BY <1>1, <1>2

\* The running process takes a turn out of its own budget.
LEMMA TurnSpent == Counters /\ Conversation /\ Spent /\ CliTurn => Spent'
<1> SUFFICES ASSUME Counters, Conversation, Spent, CliTurn PROVE Spent'
  OBVIOUS
<1>1. /\ cli = "running" /\ turns < MaxTurns /\ turns' = turns + 1
      /\ saved' = [saved EXCEPT ![current] = @ + 1]
      /\ UNCHANGED <<at, messages, error, current, starts>>
  BY DEF CliTurn, program
<1>2. at = "stream" /\ current \in 1 .. Len(saved) /\ saved \in Seq(Nat) /\ turns \in Nat
  BY <1>1, LimitsAssumption DEF Conversation, Stream, TypeOK
<1>3. PICK n \in Nat : starts = n + 1
  BY <1>2 DEF Counters
<1>4. /\ DOMAIN saved' = DOMAIN saved /\ current \in DOMAIN saved
      /\ saved'[current] = saved[current] + 1 /\ saved[current] \in Nat
      /\ \A s \in DOMAIN saved : s # current => saved'[s] = saved[s]
  BY <1>1, <1>2
<1>5. /\ MaxTurns * n \in Nat /\ MaxTurns * starts = MaxTurns * n + MaxTurns
      /\ starts - 1 = n
  BY <1>3, OneBudgetMore
<1>6. saved[current] <= MaxTurns * n + turns
  BY <1>2, <1>5 DEF Spent
<1>7. saved'[current] <= MaxTurns * n + turns' /\ saved'[current] <= MaxTurns * n + MaxTurns
  BY <1>1, <1>2, <1>4, <1>5, <1>6, LimitsAssumption
<1>8. \A s \in DOMAIN saved' : saved'[s] <= MaxTurns * starts'
  BY <1>1, <1>4, <1>5, <1>7 DEF Spent
<1>9. saved'[current'] <= MaxTurns * (starts' - 1) + turns'
  BY <1>1, <1>5, <1>7
<1> QED  BY <1>1, <1>8, <1>9 DEF Spent

\* A new process has its whole budget ahead of it.
LEMMA StartSpent == Counters /\ Conversation /\ Spent /\ StartCli => Spent'
<1> SUFFICES ASSUME Counters, Conversation, Spent, StartCli PROVE Spent'
  OBVIOUS
<1>1. /\ at = "spawn" /\ starts' = starts + 1 /\ turns' = 0 /\ starts \in Nat
      /\ UNCHANGED <<messages, error>>
      /\ saved \in Seq(Nat) /\ Len(saved) \in Nat
  BY DEF StartCli, Counters, Conversation, TypeOK
<1>2. /\ MaxTurns * starts \in Nat /\ MaxTurns * starts' = MaxTurns * starts + MaxTurns
      /\ starts' - 1 = starts
  BY <1>1, OneBudgetMore
<1>3. /\ \A s \in DOMAIN saved' : saved'[s] \in Nat /\ saved'[s] <= MaxTurns * starts
      /\ current' \in DOMAIN saved'
  <2>1. CASE Resumes
    <3>1. saved' = saved /\ current' = session /\ session \in 1 .. Len(saved)
      BY <1>1, <2>1 DEF StartCli, Resumes, Conversation, Stream
    <3> QED  BY <1>1, <3>1 DEF Spent
  <2>2. CASE ~Resumes
    <3>1. saved' = Append(saved, 0) /\ current' = Len(saved) + 1
      BY <2>2 DEF StartCli
    <3>2. /\ DOMAIN saved' = 1 .. (Len(saved) + 1) /\ DOMAIN saved = 1 .. Len(saved)
          /\ \A s \in 1 .. Len(saved) : saved'[s] = saved[s] /\ saved[s] \in Nat
          /\ saved'[Len(saved) + 1] = 0
      BY <1>1, <3>1, AppendFacts
    <3> QED  BY <1>1, <1>2, <3>1, <3>2 DEF Spent
  <2> QED  BY <2>1, <2>2
<1>4. \A s \in DOMAIN saved' : saved'[s] <= MaxTurns * starts'
  BY <1>2, <1>3, LimitsAssumption
<1>5. saved'[current'] <= MaxTurns * (starts' - 1) + turns'
  BY <1>1, <1>2, <1>3
<1>6. \A i \in DOMAIN messages' : messages'[i].kind # "error_max_turns"
  BY <1>1 DEF Spent
<1> QED  BY <1>4, <1>5, <1>6 DEF Spent

\* That a limit was reached is the last line that is read.
LEMMA ReadSpent == Conversation /\ Spent /\ ReadLine => Spent'
<1> SUFFICES ASSUME Conversation, Spent, ReadLine PROVE Spent'
  OBVIOUS
<1> DEFINE m == Head(stdout)
<1>1. /\ at = "stream" /\ stdout # <<>> /\ messages' = Append(messages, m)
      /\ UNCHANGED <<saved, current, turns, starts>>
  BY DEF ReadLine, Fail, Terminate
<1>2. \/ at' = "stream" /\ m.kind # "error_max_turns"
      \/ at' = "failed" /\ m.kind # "error_max_turns"
      \/ at' = "ended" /\ (m.kind = "error_max_turns" => error' = "turn budget")
  BY <1>1 DEF ReadLine, Fail, Turn
<1>3. messages \in Seq(Message) /\ m \in Message
  BY <1>1 DEF Conversation, TypeOK
<1> HIDE DEF m
<1>4. /\ DOMAIN messages' = 1 .. (Len(messages) + 1) /\ DOMAIN messages = 1 .. Len(messages)
      /\ Len(messages) \in Nat
      /\ \A i \in 1 .. Len(messages) : messages'[i] = messages[i]
      /\ messages'[Len(messages) + 1] = m
  BY <1>1, <1>3, AppendFacts
<1>5. \A i \in 1 .. Len(messages) : messages'[i].kind # "error_max_turns"
  BY <1>1, <1>4 DEF Spent
<1>6. \A i \in DOMAIN messages' : messages'[i].kind = "error_max_turns" =>
        m.kind = "error_max_turns"
  BY <1>4, <1>5
<1>7. \A i \in DOMAIN messages' : messages'[i].kind = "error_max_turns" =>
        at' \in {"ended", "returned"} /\ error' = "turn budget"
  BY <1>2, <1>6
<1> QED  BY <1>1, <1>7 DEF Spent

\* No other step takes a turn, starts a process or reads a line.
LEMMA QuietSpent ==
  ASSUME Counters, Spent, [Next]_vars, ~CliTurn, ~StartCli, ~ReadLine
  PROVE  Spent'
<1>1. /\ UNCHANGED <<saved, current, turns, starts, messages>>
      /\ at' = "stream" => at = "stream"
      /\ at \in {"ended", "returned"} => at' \in {"ended", "returned"} /\ UNCHANGED error
  <2>1. CASE CliResult \/ CliDies \/ ContainerDies
    BY <2>1 DEF CliResult, CliDies, ContainerDies, program
  <2>2. CASE SpawnRaises \/ StreamEnds
    BY <2>2 DEF SpawnRaises, StreamEnds, Fail, Terminate, process
  <2>3. CASE FoundDead \/ GiveUp \/ BackOff \/ Wake
    BY <2>3 DEF FoundDead, GiveUp, BackOff, Wake, UnchangedRead, process
  <2>4. CASE ReadPoc
    BY <2>4 DEF ReadPoc, process
  <2>5. CASE UNCHANGED vars
    BY <2>5 DEF vars, program, process
  <2> QED  BY <2>1, <2>2, <2>3, <2>4, <2>5 DEF Next, Environment, Program
<1> QED  BY <1>1 DEF Spent

\* For every --max-turns and every max_resume_attempts: the turns of the
\* conversation are paid for by the processes that the result accounts for, and a
\* session that came to its limit is over, and says so.
THEOREM TurnBudgetAlways == Spec => []TurnBudget
<1>1. Init => Spent
  BY DEF Init, Spent
<1>2. Counters /\ Conversation /\ Spent /\ [Next]_vars => Spent'
  BY TurnSpent, StartSpent, ReadSpent, QuietSpent
<1>3. Counters /\ Conversation /\ Spent => TurnBudget
  <2> SUFFICES ASSUME Counters, Conversation, Spent PROVE TurnBudget
    OBVIOUS
  <2>1. starts \in Nat /\ resumeCount + 1 \in Nat /\ saved \in Seq(Nat)
    BY DEF Counters, Conversation, TypeOK
  <2>2. starts <= resumeCount + 1
    BY DEF Counters, Steps
  <2> DEFINE r == resumeCount + 1
  <2> HIDE DEF r
  <2>r. r \in Nat /\ starts \in Nat /\ starts <= r
    BY <2>1, <2>2 DEF r
  <2>s. MaxTurns * starts \in Nat /\ MaxTurns * r \in Nat
    BY <2>r, OneBudgetMore
  <2>t. MaxTurns * starts <= MaxTurns * r
    BY <2>r, BudgetGrows
  <2>3. \A s \in DOMAIN saved : saved[s] <= MaxTurns * r
    <3> SUFFICES ASSUME NEW s \in DOMAIN saved PROVE saved[s] <= MaxTurns * r
      OBVIOUS
    <3>a. saved[s] \in Nat
      BY <2>1
    <3>b. saved[s] <= MaxTurns * starts
      BY DEF Spent
    <3>1. saved[s] \in Nat /\ saved[s] <= MaxTurns * starts
      BY <3>a, <3>b
    <3> DEFINE x == saved[s]  y == MaxTurns * starts  z == MaxTurns * r
    <3>2. x \in Nat /\ y \in Nat /\ z \in Nat /\ x <= y /\ y <= z
      BY <2>s, <2>t, <3>1
    <3> HIDE DEF x, y, z
    <3>3. x <= z
      BY <3>2
    <3> QED  BY <3>3 DEF x, z
  <2>4. \A s \in DOMAIN saved : saved[s] <= MaxTurns * (resumeCount + 1)
    BY <2>3 DEF r
  <2> QED  BY <2>4 DEF Spent, TurnBudget
<1> QED  BY <1>1, <1>2, <1>3, CountersAlways, ConversationAlways, PTL DEF Spec

=============================================================================
