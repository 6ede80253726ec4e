--------------------------- MODULE ChatStoreProofs ---------------------------
(***************************************************************************)
(* Proofs about ChatStore, for any conversations and any number of sends.  *)
(***************************************************************************)
EXTENDS ChatStore, SequenceTheorems, TLAPS

-----------------------------------------------------------------------------
(* The messages after a step are messages again.                           *)

LEMMA PairIsLog ==
  ASSUME NEW s \in Sends
  PROVE  << [role |-> "user", send |-> s, status |-> "done"],
            [role |-> "assistant", send |-> s, status |-> "streaming"] >> \in Seq(Message)
  BY DEF Message

LEMMA PrefixIsLog ==
  ASSUME NEW log \in Seq(Message), NEW i \in DOMAIN log
  PROVE  SubSeq(log, 1, i) \in Seq(Message)
  BY SubSeqProperties, LenProperties

LEMMA StartedTypes ==
  ASSUME TypeOK, NEW s \in Sends, NEW c \in Conversations,
         NEW before \in Seq(Message), Started(s, c, before)
  PROVE  /\ messages' \in [Conversations -> Seq(Message)]
         /\ streaming' \in Conversations
         /\ controllers' \in [Conversations -> Sends \cup {Null}]
         /\ phase' = [phase EXCEPT ![s] = "fetch"]
         /\ conv' \in [Sends -> Conversations \cup {Null}]
         /\ \A t \in Live' : conv'[t] \in Conversations
         /\ aborted' = aborted
         /\ elsewhere' \in BOOLEAN
<1>1. before \o << [role |-> "user", send |-> s, status |-> "done"],
                   [role |-> "assistant", send |-> s, status |-> "streaming"] >>
        \in Seq(Message)
  BY PairIsLog, ConcatProperties
<1>2. messages' \in [Conversations -> Seq(Message)]
  BY <1>1 DEF Started, TypeOK
<1> QED
  BY <1>2 DEF Started, TypeOK, Live

(* setAssistant keeps the length of every log, and of every message all    *)
(* but the status; what it settles is settled.                             *)
LEMMA SetAssistantLogs ==
  ASSUME TypeOK, NEW s \in Live, SetAssistant(s, "error") \/ SetAssistant(s, "done")
  PROVE  /\ messages' \in [Conversations -> Seq(Message)]
         /\ \A c \in Conversations :
              /\ Len(messages'[c]) = Len(messages[c])
              /\ \A i \in DOMAIN messages[c] :
                   /\ messages'[c][i].role = messages[c][i].role
                   /\ messages'[c][i].send = messages[c][i].send
                   /\ messages'[c][i].status = "streaming" =>
                        /\ messages[c][i].status = "streaming"
                        /\ ~(c = conv[s] /\ messages[c][i].role = "assistant"
                                         /\ messages[c][i].send = s)
                   /\ messages[c][i].status = "done" /\ messages[c][i].role = "user" =>
                        messages'[c][i].status = "done"
<1> DEFINE log == messages[conv[s]]
           Mine(m) == m.role = "assistant" /\ m.send = s
           New(new) == /\ messages' = [messages EXCEPT ![conv[s]] = new]
                       /\ new \in [1 .. Len(log) -> Message]
                       /\ \A i \in 1 .. Len(log) :
                            IF Mine(log[i])
                            THEN \/ new[i] = Settled(log[i], "error")
                                 \/ new[i] = Settled(log[i], "done")
                            ELSE new[i] = log[i]
<1>1. log \in Seq(Message) /\ DOMAIN log = 1 .. Len(log) /\ Len(log) \in Nat
  BY LenProperties DEF TypeOK
<1>2. \A i \in DOMAIN log : log[i] \in Message
  BY <1>1, ElementOfSeq
<1>3. \A m \in Message : Settled(m, "error") \in Message /\ Settled(m, "done") \in Message
  BY DEF Settled, Message
<1>4. \E new : New(new)
  <2>1. PICK status \in {"error", "done"} : SetAssistant(s, status)
    OBVIOUS
  <2> DEFINE new == [i \in DOMAIN log |-> IF Mine(log[i]) THEN Settled(log[i], status)
                                         ELSE log[i]]
  <2>2. messages' = [messages EXCEPT ![conv[s]] = new]
    BY <2>1 DEF SetAssistant
  <2>3. new \in [1 .. Len(log) -> Message]
    BY <1>1, <1>2, <1>3
  <2>4. \A i \in 1 .. Len(log) :
          new[i] = IF Mine(log[i]) THEN Settled(log[i], status) ELSE log[i]
    BY <1>1
  <2>5. New(new)
    <3> HIDE DEF new, log, Mine
    <3> QED  BY <2>2, <2>3, <2>4
  <2> QED
    BY <2>5
<1>5. PICK new : New(new)
  BY <1>4
<1>6. new \in Seq(Message) /\ Len(new) = Len(log)
  BY <1>1, <1>5, IsASeq, LenProperties
<1>7. messages' \in [Conversations -> Seq(Message)]
  BY <1>5, <1>6 DEF TypeOK
<1>8. ASSUME NEW m \in Message, NEW status \in {"error", "done"}
      PROVE  /\ Settled(m, status).role = m.role
             /\ Settled(m, status).send = m.send
             /\ Settled(m, status).status # "streaming"
  BY DEF Settled, Message
<1>9. ASSUME NEW i \in 1 .. Len(log)
      PROVE  /\ new[i].role = log[i].role
             /\ new[i].send = log[i].send
             /\ new[i].status = "streaming" => log[i].status = "streaming" /\ ~Mine(log[i])
             /\ log[i].status = "done" /\ log[i].role = "user" => new[i].status = "done"
  <2>1. log[i] \in Message
    BY <1>1, <1>2
  <2>2. CASE Mine(log[i])
    BY <1>5, <1>8, <2>1, <2>2
  <2>3. CASE ~Mine(log[i])
    BY <1>5, <2>3
  <2> QED  BY <2>2, <2>3
<1>10. ASSUME NEW c \in Conversations, c # conv[s] PROVE messages'[c] = messages[c]
  BY <1>5, <1>10 DEF TypeOK
<1>11. conv[s] \in Conversations => messages'[conv[s]] = new
  BY <1>5 DEF TypeOK
<1> HIDE DEF New
<1>12. ASSUME NEW c \in Conversations, c # conv[s],
              NEW i \in DOMAIN messages[c]
       PROVE  /\ messages'[c][i].role = messages[c][i].role
              /\ messages'[c][i].send = messages[c][i].send
              /\ messages'[c][i].status = messages[c][i].status
  BY <1>10, <1>12
<1>13. ASSUME NEW c \in Conversations, c = conv[s]
       PROVE  Len(messages'[c]) = Len(messages[c]) /\ messages'[c] = new
              /\ DOMAIN messages[c] = 1 .. Len(log) /\ messages[c] = log
  BY <1>1, <1>6, <1>11, <1>13
<1> HIDE DEF log
<1> QED
  BY <1>7, <1>9, <1>10, <1>12, <1>13

-----------------------------------------------------------------------------
LEMMA InitTypeOK == Init => TypeOK
<1>1. <<>> \in Seq(Message)
  OBVIOUS
<1>2. ASSUME Init PROVE \A s \in Live : conv[s] \in Conversations
  BY <1>2 DEF Init, Live
<1>3. ASSUME Init PROVE messages \in [Conversations -> Seq(Message)]
  BY <1>1, <1>3 DEF Init
<1> QED
  BY <1>2, <1>3, ChatAssumption DEF Init, TypeOK

LEMMA StepTypeOK == TypeOK /\ [Next]_vars => TypeOK'
<1> SUFFICES ASSUME TypeOK, [Next]_vars PROVE TypeOK'
  OBVIOUS
<1> USE ChatAssumption
<1>1. ASSUME NEW c \in Conversations, CreateConversation(c) \/ SelectConversation(c)
      PROVE  TypeOK'
  BY <1>1 DEF TypeOK, CreateConversation, SelectConversation, Kept, Live
<1>2. ASSUME NEW c \in Conversations, DeleteConversation(c)
      PROVE  TypeOK'
  <2>1. messages' \in [Conversations -> Seq(Message)]
    BY <1>2, EmptySeq DEF TypeOK, DeleteConversation
  <2>2. active' \in Kept' \cup {Null}
    BY <1>2 DEF TypeOK, DeleteConversation, LeavesActive, Kept
  <2>3. aborted' \in SUBSET Sends /\ controllers' \in [Conversations -> Sends \cup {Null}]
    BY <1>2 DEF TypeOK, DeleteConversation, Abort
  <2> QED
    BY <1>2, <2>1, <2>2, <2>3 DEF TypeOK, DeleteConversation, NoLongerShown, Live
<1>3. ASSUME NEW s \in Sends, SendMessage(s)
      PROVE  TypeOK'
  <2>1. CASE active # Null /\ Started(s, active, messages[active]) /\ UNCHANGED list
    <3>1. active \in Conversations /\ messages[active] \in Seq(Message)
      BY <2>1 DEF TypeOK, Kept
    <3> QED
      BY <2>1, <3>1, StartedTypes DEF TypeOK, list, Kept
  <2>2. ASSUME NEW c \in Conversations, life[c] = "unused",
               life' = [life EXCEPT ![c] = "kept"], active' = c, Started(s, c, <<>>)
        PROVE  TypeOK'
    BY <2>2, StartedTypes, EmptySeq DEF TypeOK, Kept
  <2> QED
    BY <1>3, <2>1, <2>2 DEF SendMessage
<1>4. ASSUME NEW s \in Sends, RegenerateLast(s)
      PROVE  TypeOK'
  <2>1. PICK i \in DOMAIN messages[active] : Started(s, active, SubSeq(messages[active], 1, i))
    BY <1>4 DEF RegenerateLast
  <2>2. active \in Conversations /\ messages[active] \in Seq(Message)
    BY <1>4 DEF RegenerateLast, TypeOK, Kept
  <2>3. SubSeq(messages[active], 1, i) \in Seq(Message)
    BY <2>2, PrefixIsLog
  <2> QED
    BY <1>4, <2>1, <2>2, <2>3, StartedTypes DEF RegenerateLast, TypeOK, list, Kept
<1>5. CASE StopStreaming
  BY <1>5 DEF TypeOK, StopStreaming, Abort, list, Kept, Live
<1>6. ASSUME NEW s \in Sends, Response(s) \/ Rejects(s)
      PROVE  TypeOK'
  BY <1>6 DEF TypeOK, Response, Rejects, CutOff, Finally, NoLongerShown, list, Kept, Live
<1>7. ASSUME NEW s \in Sends, FetchFails(s) \/ Event(s) \/ StreamEnds(s)
      PROVE  TypeOK'
  <2>1. s \in Live /\ (SetAssistant(s, "error") \/ SetAssistant(s, "done"))
    BY <1>7 DEF FetchFails, Event, StreamEnds, Live
  <2>2. messages' \in [Conversations -> Seq(Message)]
    BY <2>1, SetAssistantLogs
  <2>3. CASE Event(s)
    BY <2>2, <2>3 DEF TypeOK, Event, list, Kept, Live
  <2>4. CASE FetchFails(s) \/ StreamEnds(s)
    <3>1. /\ Finally(s) /\ conv[s] \in Conversations
          /\ \E x \in {"refused", "ended"} : phase' = [phase EXCEPT ![s] = x]
      BY <2>1, <2>4 DEF TypeOK, FetchFails, StreamEnds
    <3>2. streaming' \in Conversations \cup {Null} /\ UNCHANGED <<life, active, conv>>
      BY <3>1 DEF TypeOK, Finally, NoLongerShown, list
    <3>3. Live' \subseteq Live
      BY <3>1 DEF TypeOK, Live
    <3> QED
      BY <2>2, <3>1, <3>2, <3>3 DEF TypeOK, Finally, Kept
  <2> QED
    BY <1>7, <2>3, <2>4
<1>8. CASE Reload
  BY <1>8 DEF TypeOK, Reload, CutOff, list, Kept, Live
<1>9. CASE UNCHANGED vars
  BY <1>9 DEF TypeOK, vars, list, Kept, Live
<1> QED
  BY <1>1, <1>2, <1>3, <1>4, <1>5, <1>6, <1>7, <1>8, <1>9 DEF Next, Stream

(* The chat store stays well-typed: in particular the active conversation  *)
(* is always one of the list, or none.                                     *)
THEOREM TypeCorrect == Spec => []TypeOK
  BY InitTypeOK, StepTypeOK, PTL DEF Spec

-----------------------------------------------------------------------------
(* The stop button is never shown in vain.                                 *)

LEMMA StepShown == TypeOK /\ ShownIsStoppable /\ [Next]_vars => ShownIsStoppable'
<1> SUFFICES ASSUME TypeOK, ShownIsStoppable, [Next]_vars, streaming' # Null
             PROVE  \E s \in Live' : /\ conv'[s] = streaming'
                                     /\ controllers'[streaming'] = s \/ s \in aborted'
  BY DEF ShownIsStoppable
<1> DEFINE Goal == \E s \in Live' : /\ conv'[s] = streaming'
                                    /\ controllers'[streaming'] = s \/ s \in aborted'
<1> USE ChatAssumption DEF TypeOK, ShownIsStoppable, Live
<1>1. ASSUME NEW c \in Conversations, CreateConversation(c) \/ SelectConversation(c)
      PROVE  Goal
  BY <1>1 DEF CreateConversation, SelectConversation
<1>2. ASSUME NEW c \in Conversations, DeleteConversation(c)
      PROVE  Goal
  BY <1>2 DEF DeleteConversation, Abort, NoLongerShown
<1>3. ASSUME NEW s \in Sends, NEW c \in Conversations, NEW before, Started(s, c, before)
      PROVE  Goal
  BY <1>3 DEF Started
<1>4. ASSUME NEW s \in Sends, SendMessage(s) \/ RegenerateLast(s)
      PROVE  Goal
  BY <1>3, <1>4 DEF SendMessage, RegenerateLast, Kept
<1>5. CASE StopStreaming
  BY <1>5 DEF StopStreaming, Abort
<1>6. ASSUME NEW s \in Sends, Response(s) \/ Event(s)
      PROVE  Goal
  BY <1>6 DEF Response, Event
<1>7. ASSUME NEW s \in Sends, FetchFails(s) \/ StreamEnds(s) \/ Rejects(s)
      PROVE  Goal
  BY <1>7 DEF FetchFails, StreamEnds, Rejects, Finally, NoLongerShown
<1>8. CASE Reload
  BY <1>8 DEF Reload
<1>9. CASE UNCHANGED vars
  BY <1>9 DEF vars
<1> QED
  BY <1>1, <1>2, <1>4, <1>5, <1>6, <1>7, <1>8, <1>9 DEF Next, Stream

(* Whenever a conversation is shown as streaming, a stream of it is under  *)
(* way that stop aborts or has aborted.                                    *)
THEOREM ShownCanBeStopped == Spec => []ShownIsStoppable
<1>1. Init => ShownIsStoppable
  BY DEF Init, ShownIsStoppable
<1> QED
  BY <1>1, InitTypeOK, StepTypeOK, StepShown, PTL DEF Spec

-----------------------------------------------------------------------------
(* What the logs hold: each begins with a turn, and each message belongs   *)
(* to a call that was made for this conversation.  A call's conversation   *)
(* was created.                                                            *)
Belongs(c, m) ==
  /\ conv[m.send] = c
  /\ phase[m.send] # "unsent"
  /\ m.role = "user" => m.status = "done"
  /\ m.status = "streaming" => phase[m.send] \notin {"refused", "ended"}

LogInv == \A c \in Conversations : \A i \in DOMAIN messages[c] : Belongs(c, messages[c][i])

CreatedInv ==
  \A s \in Sends : conv[s] \in Conversations => life[conv[s]] # "unused"

(* As long as no send was made elsewhere, one stream of a kept             *)
(* conversation is under way at most, and it is as AloneIsShown says.      *)
OneInv ==
  ~elsewhere => \A s, t \in Live : conv[s] \in Kept /\ conv[t] \in Kept => s = t

IInv == TypeOK /\ LogInv /\ CreatedInv /\ OneInv /\ AloneIsShown

LEMMA InitIInv == Init => IInv
<1>1. ASSUME Init, NEW c \in Conversations PROVE DOMAIN messages[c] = {}
  BY <1>1, EmptySeq DEF Init
<1> QED
  BY <1>1, InitTypeOK, ChatAssumption
  DEF IInv, LogInv, CreatedInv, OneInv, AloneIsShown, Init, Live

(* A call begins in a kept conversation, that it may have created, with    *)
(* all or the first of its messages.                                       *)
Begins(s, c, before) ==
  /\ Started(s, c, before)
  /\ \A i \in 1 .. Len(before) : i \in DOMAIN messages[c] /\ before[i] = messages[c][i]
  /\ \/ life[c] = "kept" /\ life' = life
     \/ life[c] = "unused" /\ life' = [life EXCEPT ![c] = "kept"]

LEMMA SendsBegin ==
  ASSUME TypeOK, NEW s \in Sends, SendMessage(s) \/ RegenerateLast(s)
  PROVE  \E c \in Conversations, before \in Seq(Message) : Begins(s, c, before)
<1>1. CASE active # Null /\ SendMessage(s)
  <2>1. active \in Conversations /\ life[active] = "kept" /\ messages[active] \in Seq(Message)
    BY <1>1 DEF TypeOK, Kept
  <2>2. DOMAIN messages[active] = 1 .. Len(messages[active])
    BY <2>1, LenProperties
  <2>3. Begins(s, active, messages[active])
    BY <1>1, <2>1, <2>2 DEF SendMessage, list, Begins
  <2> QED
    BY <2>1, <2>3
<1>2. CASE active = Null /\ SendMessage(s)
  <2>1. <<>> \in Seq(Message) /\ Len(<<>>) = 0
    OBVIOUS
  <2>2. PICK c \in Conversations :
          life[c] = "unused" /\ life' = [life EXCEPT ![c] = "kept"] /\ Started(s, c, <<>>)
    BY <1>2 DEF SendMessage
  <2>3. Begins(s, c, <<>>)
    BY <2>1, <2>2 DEF Begins
  <2> QED
    BY <2>1, <2>3
<1>3. CASE RegenerateLast(s)
  <2>1. active \in Conversations /\ life[active] = "kept" /\ messages[active] \in Seq(Message)
    BY <1>3 DEF RegenerateLast, TypeOK, Kept
  <2> DEFINE log == messages[active]
  <2>2. PICK i \in DOMAIN log : Started(s, active, SubSeq(log, 1, i))
    BY <1>3 DEF RegenerateLast
  <2>3. /\ DOMAIN log = 1 .. Len(log) /\ Len(log) \in Nat
        /\ \A j \in DOMAIN log : log[j] \in Message
    BY <2>1, LenProperties, ElementOfSeq
  <2>4. /\ SubSeq(log, 1, i) \in Seq(Message)
        /\ Len(SubSeq(log, 1, i)) = i
        /\ \A j \in 1 .. i : j \in DOMAIN log /\ SubSeq(log, 1, i)[j] = log[j]
    <3>1. i \in Int /\ 1 <= i /\ \A j \in 1 .. i : log[j] \in Message /\ j \in DOMAIN log
      BY <2>2, <2>3
    <3> HIDE DEF log
    <3> QED
      BY <3>1, SubSeqProperties
  <2>5. Begins(s, active, SubSeq(log, 1, i))
    BY <1>3, <2>1, <2>2, <2>4 DEF RegenerateLast, Begins, list
  <2> QED
    BY <2>1, <2>4, <2>5
<1> QED
  BY <1>1, <1>2, <1>3

LEMMA StepCreated == TypeOK /\ CreatedInv /\ [Next]_vars => CreatedInv'
<1> SUFFICES ASSUME TypeOK, CreatedInv, [Next]_vars PROVE CreatedInv'
  OBVIOUS
<1> USE ChatAssumption DEF TypeOK, CreatedInv, Kept, list
<1>1. ASSUME NEW c \in Conversations,
             CreateConversation(c) \/ SelectConversation(c) \/ DeleteConversation(c)
      PROVE  CreatedInv'
  BY <1>1 DEF CreateConversation, SelectConversation, DeleteConversation
<1>2. ASSUME NEW s \in Sends, SendMessage(s) \/ RegenerateLast(s)
      PROVE  CreatedInv'
  <2>1. PICK c \in Conversations, before \in Seq(Message) : Begins(s, c, before)
    BY <1>2, SendsBegin
  <2> QED
    BY <2>1 DEF Begins, Started
<1>3. ASSUME NEW s \in Sends, Stream(s)
      PROVE  CreatedInv'
  BY <1>3 DEF Stream, Response, Event, FetchFails, StreamEnds, Rejects, Finally
<1>4. CASE StopStreaming \/ Reload
  BY <1>4 DEF StopStreaming, Reload
<1>5. CASE UNCHANGED vars
  BY <1>5 DEF vars
<1> QED
  BY <1>1, <1>2, <1>3, <1>4, <1>5 DEF Next

(* The log of a conversation after a call began.                           *)
LEMMA StartedLog ==
  ASSUME TypeOK, NEW s \in Sends, NEW c \in Conversations,
         NEW before \in Seq(Message), Started(s, c, before)
  PROVE  /\ \A d \in Conversations \ {c} : messages'[d] = messages[d]
         /\ Len(messages'[c]) = Len(before) + 2
         /\ DOMAIN messages'[c] = 1 .. Len(before) + 2
         /\ \A i \in 1 .. Len(before) : messages'[c][i] = before[i]
         /\ messages'[c][Len(before) + 1] =
              [role |-> "user", send |-> s, status |-> "done"]
         /\ messages'[c][Len(before) + 2] =
              [role |-> "assistant", send |-> s, status |-> "streaming"]
<1> DEFINE pair == << [role |-> "user", send |-> s, status |-> "done"],
                      [role |-> "assistant", send |-> s, status |-> "streaming"] >>
<1>1. pair \in Seq(Message) /\ Len(pair) = 2
  BY PairIsLog
<1>2. messages'[c] = before \o pair
  BY DEF Started, TypeOK
<1>3. \A d \in Conversations \ {c} : messages'[d] = messages[d]
  BY DEF Started, TypeOK
<1>4. /\ Len(before \o pair) = Len(before) + 2
      /\ \A i \in 1 .. Len(before) + 2 :
           (before \o pair)[i] = IF i <= Len(before) THEN before[i]
                                 ELSE pair[i - Len(before)]
      /\ before \o pair \in Seq(Message)
      /\ Len(before) \in Nat
  BY <1>1, ConcatProperties, LenProperties
<1>5. DOMAIN (before \o pair) = 1 .. Len(before) + 2
  BY <1>4, LenProperties
<1>6. /\ \A i \in 1 .. Len(before) : (before \o pair)[i] = before[i]
      /\ (before \o pair)[Len(before) + 1] = pair[1]
      /\ (before \o pair)[Len(before) + 2] = pair[2]
  <2> HIDE DEF pair
  <2> QED  BY <1>4
<1> QED
  BY <1>2, <1>3, <1>4, <1>5, <1>6

(* ... keeps what the logs hold.                                           *)
LEMMA StartedKeepsLogs ==
  ASSUME TypeOK, LogInv, NEW s \in Sends, NEW c \in Conversations,
         NEW before \in Seq(Message), Started(s, c, before),
         \A i \in 1 .. Len(before) : Belongs(c, before[i])
  PROVE  LogInv'
<1> SUFFICES ASSUME NEW d \in Conversations, NEW i \in DOMAIN messages'[d]
             PROVE  Belongs(d, messages[d][i])'
  BY DEF LogInv
<1>1. ASSUME NEW m, m.send # s, Belongs(d, m) PROVE Belongs(d, m)'
  BY <1>1 DEF Belongs, Started, TypeOK
<1>2. ASSUME NEW m, Belongs(d, m) PROVE m.send # s
  BY <1>2 DEF Belongs, Started
<1>3. CASE d # c
  <2>1. messages'[d] = messages[d]
    BY <1>3, StartedLog
  <2>2. Belongs(d, messages[d][i])
    BY <2>1 DEF LogInv
  <2> QED
    BY <1>1, <1>2, <2>1, <2>2 DEF Belongs
<1>4. CASE d = c
  <2>1. CASE i \in 1 .. Len(before)
    <3>1. messages'[c][i] = before[i] /\ Belongs(c, before[i])
      BY <2>1, StartedLog
    <3> QED
      BY <1>1, <1>2, <1>4, <3>1 DEF Belongs
  <2>2. CASE i \notin 1 .. Len(before)
    <3>0. Len(before) \in Nat
      BY LenProperties
    <3>1. i = Len(before) + 1 \/ i = Len(before) + 2
      <4>1. DOMAIN messages'[c] = 1 .. Len(before) + 2
        BY StartedLog
      <4> QED
        BY <1>4, <2>2, <3>0, <4>1
    <3>a. \/ messages'[d][i] = [role |-> "user", send |-> s, status |-> "done"]
          \/ messages'[d][i] = [role |-> "assistant", send |-> s, status |-> "streaming"]
      <4>1. CASE i = Len(before) + 1
        BY <1>4, <4>1, StartedLog
      <4>2. CASE i = Len(before) + 2
        BY <1>4, <4>2, StartedLog
      <4> QED
        BY <3>1, <4>1, <4>2
    <3>2. /\ messages'[d][i].send = s
          /\ messages'[d][i].role = "user" => messages'[d][i].status = "done"
      BY <3>a
    <3> QED
      BY <1>4, <3>2 DEF Belongs, Started, TypeOK
  <2> QED
    BY <2>1, <2>2
<1> QED
  BY <1>3, <1>4

LEMMA StepLog == TypeOK /\ LogInv /\ [Next]_vars => LogInv'
<1> SUFFICES ASSUME TypeOK, LogInv, [Next]_vars PROVE LogInv'
  OBVIOUS
<1>0. \A c \in Conversations : \A i \in DOMAIN messages[c] : messages[c][i] \in Message
  BY ElementOfSeq, LenProperties DEF TypeOK
<1>1. ASSUME NEW c \in Conversations, CreateConversation(c) \/ SelectConversation(c)
      PROVE  LogInv'
  BY <1>1 DEF CreateConversation, SelectConversation, LogInv, Belongs
<1>2. ASSUME NEW c \in Conversations, DeleteConversation(c)
      PROVE  LogInv'
  <2>1. DOMAIN <<>> = {}
    OBVIOUS
  <2> QED
    BY <1>2, <2>1 DEF DeleteConversation, LogInv, Belongs, TypeOK
<1>3. ASSUME NEW s \in Sends, SendMessage(s) \/ RegenerateLast(s)
      PROVE  LogInv'
  <2>1. PICK c \in Conversations, before \in Seq(Message) : Begins(s, c, before)
    BY <1>3, SendsBegin
  <2>2. \A i \in 1 .. Len(before) : Belongs(c, before[i])
    BY <2>1 DEF Begins, LogInv
  <2> QED
    BY <2>1, <2>2, StartedKeepsLogs DEF Begins
<1>4. CASE StopStreaming
  BY <1>4 DEF StopStreaming, LogInv, Belongs
<1>5. ASSUME NEW s \in Sends, Response(s) \/ Rejects(s)
      PROVE  LogInv'
  BY <1>0, <1>5 DEF Response, Rejects, CutOff, Live, Finally, LogInv, Belongs, TypeOK, Message
<1>6. ASSUME NEW s \in Sends, FetchFails(s) \/ Event(s) \/ StreamEnds(s)
      PROVE  LogInv'
  <2>1. s \in Live /\ (SetAssistant(s, "error") \/ SetAssistant(s, "done"))
    BY <1>6 DEF FetchFails, Event, StreamEnds, Live
  <2> SUFFICES ASSUME NEW c \in Conversations, NEW i \in DOMAIN messages'[c]
               PROVE  Belongs(c, messages[c][i])'
    BY DEF LogInv
  <2>2. Len(messages'[c]) = Len(messages[c]) /\ messages'[c] \in Seq(Message)
    BY <2>1, SetAssistantLogs
  <2>3. i \in DOMAIN messages[c]
    BY <2>2, LenProperties DEF TypeOK
  <2> DEFINE old == messages[c][i]
             new == messages'[c][i]
  <2>4. old \in Message /\ Belongs(c, old)
    BY <1>0, <2>3 DEF LogInv
  <2>5. /\ new.role = old.role /\ new.send = old.send
        /\ new.status = "streaming" =>
             /\ old.status = "streaming"
             /\ ~(c = conv[s] /\ old.role = "assistant" /\ old.send = s)
        /\ old.status = "done" /\ old.role = "user" => new.status = "done"
    BY <2>1, <2>3, SetAssistantLogs
  <2>6. conv' = conv /\ \A t \in Sends : t # s => phase'[t] = phase[t]
    BY <1>6 DEF FetchFails, Event, StreamEnds, Finally, TypeOK
  <2>7. phase'[s] # "unsent"
    BY <1>6 DEF FetchFails, Event, StreamEnds, TypeOK
  <2>8. new.status = "streaming" => old.send # s
    BY <2>4, <2>5 DEF Belongs, Message
  <2>9. old.send \in Sends
    BY <2>4 DEF Message
  <2> HIDE DEF old, new
  <2>10. /\ conv'[new.send] = c
         /\ phase'[new.send] # "unsent"
         /\ new.role = "user" => new.status = "done"
         /\ new.status = "streaming" => phase'[new.send] \notin {"refused", "ended"}
    BY <2>4, <2>5, <2>6, <2>7, <2>8, <2>9 DEF Belongs
  <2> QED
    BY <2>10 DEF Belongs, new
<1>7. CASE Reload
  BY <1>0, <1>7 DEF Reload, CutOff, LogInv, Belongs, TypeOK, Message
<1>8. CASE UNCHANGED vars
  BY <1>8 DEF vars, LogInv, Belongs
<1> QED
  BY <1>1, <1>2, <1>3, <1>4, <1>5, <1>6, <1>7, <1>8 DEF Next, Stream

(* An answer is left as streaming only by a stream that is under way or    *)
(* broke off.                                                              *)
THEOREM EndsSettle == Spec => []UnsettledIsUnfinished
<1>1. TypeOK /\ LogInv => UnsettledIsUnfinished
  BY DEF LogInv, Belongs, UnsettledIsUnfinished
<1> QED
  BY <1>1, InitIInv, InitTypeOK, StepTypeOK, StepLog, PTL DEF Spec, IInv

-----------------------------------------------------------------------------
(* A step that keeps what OneInv and AloneIsShown say of the calls that    *)
(* are still alive, and lets none begin, keeps both.                       *)
StillShown(s) ==
  /\ s \in Live /\ conv[s] \in Kept /\ conv'[s] = conv[s]
  /\ streaming' = streaming
  /\ controllers'[conv[s]] = controllers[conv[s]] \/ s \in aborted'
  /\ aborted \subseteq aborted'
  /\ LastIsAnswer(messages[conv[s]], s) => LastIsAnswer(messages'[conv[s]], s)

LEMMA NoneBegins ==
  ASSUME OneInv, AloneIsShown, elsewhere' = elsewhere,
         \A s \in Live' : conv'[s] \in Kept' => StillShown(s)
  PROVE  OneInv' /\ AloneIsShown'
<1> SUFFICES ASSUME ~elsewhere PROVE OneInv' /\ AloneIsShown'
  BY DEF OneInv, AloneIsShown
<1>1. OneInv'
  BY DEF OneInv, StillShown
<1>2. ASSUME NEW s \in Live', conv'[s] \in Kept'
      PROVE  /\ streaming' = conv'[s]
             /\ controllers'[conv'[s]] = s \/ s \in aborted'
             /\ LastIsAnswer(messages'[conv'[s]], s)
  BY <1>2 DEF AloneIsShown, StillShown
<1> QED
  BY <1>1, <1>2 DEF AloneIsShown

LEMMA StepAlone == IInv /\ [Next]_vars => OneInv' /\ AloneIsShown'
<1> SUFFICES ASSUME IInv, [Next]_vars PROVE OneInv' /\ AloneIsShown'
  OBVIOUS
<1> USE ChatAssumption DEF IInv
<1>1. ASSUME NEW c \in Conversations, CreateConversation(c)
      PROVE  OneInv' /\ AloneIsShown'
  <2>1. \A s \in Live' : conv'[s] \in Kept' => StillShown(s)
    BY <1>1 DEF CreateConversation, StillShown, CreatedInv, TypeOK, Live, Kept
  <2> QED
    BY <1>1, <2>1, NoneBegins DEF CreateConversation
<1>2. ASSUME NEW c \in Conversations, SelectConversation(c)
      PROVE  OneInv' /\ AloneIsShown'
  <2>1. \A s \in Live' : conv'[s] \in Kept' => StillShown(s)
    BY <1>2 DEF SelectConversation, StillShown, Live, Kept
  <2> QED
    BY <1>2, <2>1, NoneBegins DEF SelectConversation
<1>3. ASSUME NEW c \in Conversations, DeleteConversation(c)
      PROVE  OneInv' /\ AloneIsShown'
  <2>1. CASE elsewhere
    BY <1>3, <2>1 DEF DeleteConversation, OneInv, AloneIsShown
  <2>2. ASSUME ~elsewhere, NEW s \in Live', conv'[s] \in Kept'
        PROVE  StillShown(s)
    <3>1. s \in Live /\ conv'[s] = conv[s] /\ conv[s] \in Kept /\ conv[s] # c
      BY <1>3, <2>2 DEF DeleteConversation, TypeOK, Live, Kept
    <3>2. streaming = conv[s]
      BY <2>2, <3>1 DEF AloneIsShown
    <3> QED
      BY <1>3, <3>1, <3>2
      DEF DeleteConversation, Abort, NoLongerShown, StillShown, TypeOK, Kept
  <2> QED
    BY <1>3, <2>1, <2>2, NoneBegins DEF DeleteConversation
<1>4. ASSUME NEW s \in Sends, SendMessage(s) \/ RegenerateLast(s)
      PROVE  OneInv' /\ AloneIsShown'
  <2>1. PICK c \in Conversations, before \in Seq(Message) : Begins(s, c, before)
    BY <1>4, SendsBegin
  <2> SUFFICES ASSUME ~elsewhere' PROVE OneInv' /\ AloneIsShown'
    BY DEF OneInv, AloneIsShown
  <2>2. streaming = Null /\ ~elsewhere
    BY <2>1 DEF Begins, Started, TypeOK
  <2>3. \A t \in Live : conv[t] \notin Kept
    BY <2>2 DEF AloneIsShown, Kept
  <2>4. \A t \in Live' : conv'[t] \in Kept' => t = s
    BY <2>1, <2>3 DEF Begins, Started, CreatedInv, TypeOK, Live, Kept
  <2>5. conv'[s] = c /\ streaming' = c /\ controllers'[c] = s
    BY <2>1 DEF Begins, Started, TypeOK
  <2>6. LastIsAnswer(messages'[c], s)
    <3> DEFINE answer == [role |-> "assistant", send |-> s, status |-> "streaming"]
    <3>0. Started(s, c, before)
      BY <2>1 DEF Begins
    <3>1. Len(messages'[c]) = Len(before) + 2
      BY <3>0, StartedLog
    <3>2. messages'[c][Len(before) + 2] = answer
      BY <3>0, StartedLog
    <3> QED
      BY <3>1, <3>2 DEF LastIsAnswer
  <2> QED
    BY <2>4, <2>5, <2>6 DEF OneInv, AloneIsShown
<1>5. CASE StopStreaming
  <2>1. \A s \in Live' : conv'[s] \in Kept' => s \in Live /\ conv'[s] = conv[s] /\ conv[s] \in Kept
    BY <1>5 DEF StopStreaming, Live, Kept, list
  <2>2. \A s \in Live' : conv'[s] \in Kept' /\ ~elsewhere => StillShown(s)
    BY <1>5, <2>1 DEF StopStreaming, Abort, AloneIsShown, StillShown, TypeOK
  <2>3. CASE elsewhere
    BY <1>5, <2>3 DEF StopStreaming, OneInv, AloneIsShown
  <2> QED
    BY <1>5, <2>2, <2>3, NoneBegins DEF StopStreaming
<1>6. ASSUME NEW s \in Sends, Response(s)
      PROVE  OneInv' /\ AloneIsShown'
  <2>1. \A t \in Live' : conv'[t] \in Kept' => StillShown(t)
    BY <1>6 DEF Response, StillShown, Live, Kept, list, TypeOK
  <2> QED
    BY <1>6, <2>1, NoneBegins DEF Response
<1>7. ASSUME NEW s \in Live, SetAssistant(s, "error") \/ SetAssistant(s, "done"),
             NEW t \in Live, LastIsAnswer(messages[conv[t]], t)
      PROVE  LastIsAnswer(messages'[conv[t]], t)
  <2> DEFINE c == conv[t]
  <2>1. c \in Conversations
    BY DEF TypeOK
  <2>2. Len(messages'[c]) = Len(messages[c])
    BY <1>7, <2>1, SetAssistantLogs
  <2>3. CASE messages[c] # <<>>
    <3>1. Len(messages[c]) \in DOMAIN messages[c]
      <4>1. messages[c] \in Seq(Message)
        BY <2>1 DEF TypeOK
      <4> QED
        BY <2>3, <4>1, EmptySeq, LenProperties
    <3> QED
      BY <1>7, <2>1, <2>2, <3>1, SetAssistantLogs DEF LastIsAnswer
  <2>4. CASE messages[c] = <<>>
    <3>1. messages'[c] = <<>>
      <4>1. messages'[c] \in Seq(Message) /\ Len(messages'[c]) = 0
        BY <1>7, <2>1, <2>2, <2>4, SetAssistantLogs
      <4> QED
        BY <4>1, EmptySeq
    <3> QED
      BY <1>7, <2>4, <3>1
  <2> QED
    BY <2>3, <2>4
<1>8. ASSUME NEW s \in Sends, Event(s)
      PROVE  OneInv' /\ AloneIsShown'
  <2>1. s \in Live /\ (SetAssistant(s, "error") \/ SetAssistant(s, "done"))
    BY <1>8 DEF Event, Live
  <2>2. \A t \in Live' : conv'[t] \in Kept' => t \in Live /\ conv[t] \in Kept /\ conv'[t] = conv[t]
    BY <1>8 DEF Event, Live, Kept, list
  <2>3. \A t \in Live' : conv'[t] \in Kept' => StillShown(t)
    BY <1>7, <1>8, <2>1, <2>2 DEF Event, StillShown
  <2> QED
    BY <1>8, <2>3, NoneBegins DEF Event
<1>9. ASSUME NEW s \in Sends, FetchFails(s) \/ StreamEnds(s) \/ Rejects(s)
      PROVE  OneInv' /\ AloneIsShown'
  <2>1. s \in Live /\ s \notin Live' /\ Finally(s)
    BY <1>9 DEF FetchFails, StreamEnds, Rejects, CutOff, Live, TypeOK
  <2>2. /\ \A t \in Live' : t \in Live /\ conv'[t] = conv[t] /\ t # s
        /\ Kept' = Kept /\ elsewhere' = elsewhere /\ aborted' = aborted
    BY <1>9, <2>1 DEF FetchFails, StreamEnds, Rejects, Finally, Live, TypeOK, Kept, list
  <2>3. CASE elsewhere
    BY <2>2, <2>3 DEF OneInv, AloneIsShown
  <2>4. ASSUME ~elsewhere, NEW t \in Live', conv'[t] \in Kept'
        PROVE  StillShown(t)
    <3>1. t \in Live /\ conv[t] \in Kept /\ t # s /\ conv'[t] = conv[t]
      BY <2>2, <2>4
    <3>2. conv[t] # conv[s]
      BY <2>1, <2>4, <3>1 DEF OneInv
    <3>3. streaming = conv[t]
      BY <2>4, <3>1 DEF AloneIsShown
    <3>4. streaming' = streaming /\ controllers'[conv[t]] = controllers[conv[t]]
      BY <2>1, <3>1, <3>2, <3>3 DEF Finally, NoLongerShown, TypeOK, Kept
    <3>5. LastIsAnswer(messages[conv[t]], t) => LastIsAnswer(messages'[conv[t]], t)
      <4>1. CASE Rejects(s)
        BY <4>1 DEF Rejects
      <4>2. CASE SetAssistant(s, "error") \/ SetAssistant(s, "done")
        BY <1>7, <2>1, <3>1, <4>2
      <4> QED
        BY <1>9, <4>1, <4>2 DEF FetchFails, StreamEnds
    <3> QED
      BY <2>2, <3>1, <3>4, <3>5 DEF StillShown
  <2> QED
    BY <2>2, <2>3, <2>4, NoneBegins
<1>10. CASE Reload
  BY <1>10 DEF Reload, CutOff, OneInv, AloneIsShown, Live, TypeOK
<1>11. CASE UNCHANGED vars
  BY <1>11 DEF vars, list, OneInv, AloneIsShown, Live, Kept
<1> QED
  BY <1>1, <1>2, <1>3, <1>4, <1>5, <1>6, <1>8, <1>9, <1>10, <1>11 DEF Next, Stream

(* As long as nobody sends while a conversation streams, a stream of a     *)
(* kept conversation is shown, can be stopped and fills the last message.  *)
THEOREM AloneStaysShown == Spec => []AloneIsShown
<1>1. IInv /\ [Next]_vars => IInv'
  BY StepTypeOK, StepLog, StepCreated, StepAlone DEF IInv
<1>2. IInv => AloneIsShown
  BY DEF IInv
<1> QED
  BY <1>1, <1>2, InitIInv, PTL DEF Spec
=============================================================================
