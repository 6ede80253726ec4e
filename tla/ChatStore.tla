----------------------------- MODULE ChatStore -----------------------------
(***************************************************************************)
(* The web client's chat store, web/src/lib/stores/chat-store.ts, and the  *)
(* streams it starts (streamChatEvents of lib/api/client.ts).  Everything  *)
(* runs on one JavaScript thread; what interleaves are the callbacks of    *)
(* the streams and the clicks of the user, of whom the page asks only      *)
(* that no message is sent in a conversation shown as streaming.           *)
(***************************************************************************)
EXTENDS Naturals, Sequences

CONSTANTS
  Conversations,  \* ids that uid() can give a conversation
  Sends,          \* calls of sendMessage, each made once at some time
  Null            \* no conversation, no send

ASSUME ChatAssumption == Null \notin Conversations \cup Sends

VARIABLES
  life,         \* of each conversation: unused, kept in the list, or deleted
  messages,     \* of each conversation
  active,       \* activeConversationId
  streaming,    \* streamingConversationId
  controllers,  \* activeStreams: the send whose controller is registered
  phase,        \* where the call and its stream are
  conv,         \* the conversation each call is for
  aborted,      \* the sends whose controller was aborted
  elsewhere     \* history: a send began while some conversation streamed

list   == <<life, active>>
vars   == <<list, messages, streaming, controllers, phase, conv, aborted, elsewhere>>

Message == [role : {"user", "assistant"}, send : Sends,
            status : {"streaming", "done", "error"}]

Live  == {s \in Sends : phase[s] \in {"fetch", "read"}}
Kept  == {c \in Conversations : life[c] = "kept"}

TypeOK ==
  /\ life \in [Conversations -> {"unused", "kept", "deleted"}]
  /\ messages \in [Conversations -> Seq(Message)]
  /\ active \in Kept \cup {Null}
  /\ streaming \in Conversations \cup {Null}
  /\ controllers \in [Conversations -> Sends \cup {Null}]
  /\ phase \in [Sends -> {"unsent", "fetch", "refused", "lost", "read", "ended", "broken"}]
  /\ conv \in [Sends -> Conversations \cup {Null}]
  /\ \A s \in Live : conv[s] \in Conversations
  /\ aborted \in SUBSET Sends
  /\ elsewhere \in BOOLEAN

(* partialize: a page begins with the conversations that were stored, and  *)
(* none at first.                                                          *)
Init ==
  /\ life = [c \in Conversations |-> "unused"]
  /\ messages = [c \in Conversations |-> <<>>]
  /\ active = Null
  /\ streaming = Null
  /\ controllers = [c \in Conversations |-> Null]
  /\ phase = [s \in Sends |-> "unsent"]
  /\ conv = [s \in Sends |-> Null]
  /\ aborted = {}
  /\ elsewhere = FALSE

-----------------------------------------------------------------------------
(* The list of conversations.                                              *)

CreateConversation(c) ==
  /\ life[c] = "unused"
  /\ life' = [life EXCEPT ![c] = "kept"]
  /\ active' = c
  /\ UNCHANGED <<messages, streaming, controllers, phase, conv, aborted, elsewhere>>

SelectConversation(c) ==
  /\ c \in Kept
  /\ active' = c
  /\ UNCHANGED <<life, messages, streaming, controllers, phase, conv, aborted, elsewhere>>

(* The controller registered for c, if any, is aborted and forgotten.      *)
Abort(c) ==
  /\ aborted' = aborted \cup ({controllers[c]} \ {Null})
  /\ controllers' = [controllers EXCEPT ![c] = Null]

(* Mutants: the flag is left, or is cleared whatever it shows.             *)
LeavesFlag(c) == streaming' = streaming
ClearsFlag(c) == streaming' = Null

NoLongerShown(c) == streaming' = IF streaming = c THEN Null ELSE streaming

(* Mutant: a deleted conversation stays the active one.                    *)
StaysActive(c) == active' = active

(* The first of the other conversations becomes the active one: which is   *)
(* first is left open.                                                     *)
LeavesActive(c) ==
  IF active # c THEN active' = active
  ELSE IF Kept = {c} THEN active' = Null
  ELSE active' \in Kept \ {c}

DeleteConversation(c) ==
  /\ c \in Kept
  /\ Abort(c)
  /\ life' = [life EXCEPT ![c] = "deleted"]
  /\ messages' = [messages EXCEPT ![c] = <<>>]
  /\ LeavesActive(c)
  /\ NoLongerShown(c)
  /\ UNCHANGED <<phase, conv, elsewhere>>

-----------------------------------------------------------------------------
(* sendMessage, up to its first await.                                     *)
Started(s, c, before) ==
  /\ phase[s] = "unsent"
  /\ phase' = [phase EXCEPT ![s] = "fetch"]
  /\ conv' = [conv EXCEPT ![s] = c]
  /\ messages' = [messages EXCEPT ![c] = before \o
                    << [role |-> "user", send |-> s, status |-> "done"],
                       [role |-> "assistant", send |-> s, status |-> "streaming"] >>]
  /\ streaming' = c
  /\ controllers' = [controllers EXCEPT ![c] = s]
  /\ elsewhere' = (elsewhere \/ streaming # Null)
  /\ UNCHANGED aborted

(* The input sends in the active conversation unless it is shown as        *)
(* streaming, and in a new one when there is none.                         *)
SendMessage(s) ==
  \/ /\ active # Null
     /\ streaming # active
     /\ Started(s, active, messages[active])
     /\ UNCHANGED list
  \/ /\ active = Null
     /\ \E c \in Conversations :
          /\ life[c] = "unused"
          /\ life' = [life EXCEPT ![c] = "kept"]
          /\ active' = c
          /\ Started(s, c, <<>>)

IsUser(m) == m.role = "user"

IsLastUser(log, i) ==
  IsUser(log[i]) /\ \A j \in DOMAIN log : IsUser(log[j]) => j <= i

(* The button is under an answer with content, the last message: one whose *)
(* stream began, and that it brought content is left open.  The messages   *)
(* up to the last of the user, that one included, are kept.                *)
RegenerateLast(s) ==
  /\ active # Null
  /\ streaming = Null
  /\ LET log == messages[active]
     IN  /\ log # <<>>
         /\ phase[log[Len(log)].send] \in {"read", "ended", "broken"}
         /\ \E i \in DOMAIN log :
              IsLastUser(log, i) /\ Started(s, active, SubSeq(log, 1, i))
  /\ UNCHANGED list

(* Mutant: the controller is forgotten and not aborted.                    *)
ForgetController ==
  /\ streaming # Null
  /\ controllers' = [controllers EXCEPT ![streaming] = Null]
  /\ UNCHANGED <<list, messages, streaming, phase, conv, aborted, elsewhere>>

StopStreaming ==
  /\ streaming # Null
  /\ Abort(streaming)
  /\ UNCHANGED <<list, messages, streaming, phase, conv, elsewhere>>

-----------------------------------------------------------------------------
(* The stream of one send.                                                 *)

Response(s) ==
  /\ phase[s] = "fetch"
  /\ s \notin aborted
  /\ phase' = [phase EXCEPT ![s] = "read"]
  /\ UNCHANGED <<list, messages, streaming, controllers, conv, aborted, elsewhere>>

(* The status events of a stream: an error stays one.                      *)
Settled(m, status) == [m EXCEPT !.status = IF @ = "error" THEN @ ELSE status]

(* setAssistant: the answer may have gone from the conversation, or gone   *)
(* with it.                                                                *)
SetAssistant(s, status) ==
  messages' = [messages EXCEPT ![conv[s]] =
    [i \in DOMAIN @ |-> IF @[i].role = "assistant" /\ @[i].send = s
                        THEN Settled(@[i], status) ELSE @[i]]]

(* The finally clause: it forgets the controller of the conversation,      *)
(* whosever that is by now.                                                *)
Finally(s) ==
  /\ controllers' = [controllers EXCEPT ![conv[s]] = Null]
  /\ NoLongerShown(conv[s])
  /\ UNCHANGED <<list, conv, aborted, elsewhere>>

(* The request fails, is refused or is aborted: an error event and the     *)
(* finally clause, with no other task in between.                          *)
FetchFails(s) ==
  /\ phase[s] = "fetch"
  /\ phase' = [phase EXCEPT ![s] = "refused"]
  /\ SetAssistant(s, "error")
  /\ Finally(s)

(* An error event or [DONE] before the end of the stream; events of        *)
(* content and of tools change no status.                                  *)
Event(s) ==
  /\ phase[s] = "read"
  /\ s \notin aborted
  /\ SetAssistant(s, "error") \/ SetAssistant(s, "done")
  /\ UNCHANGED <<list, streaming, controllers, phase, conv, aborted, elsewhere>>

(* Mutant: the end of the stream is no done event.                         *)
EndsUnsettled(s) ==
  /\ phase[s] = "read"
  /\ s \notin aborted
  /\ phase' = [phase EXCEPT ![s] = "ended"]
  /\ Finally(s)
  /\ UNCHANGED messages

StreamEnds(s) ==
  /\ phase[s] = "read"
  /\ s \notin aborted
  /\ phase' = [phase EXCEPT ![s] = "ended"]
  /\ SetAssistant(s, "done")
  /\ Finally(s)

(* Where a call is once it was cut off.                                    *)
CutOff(p) == CASE p = "fetch" -> "lost" [] p = "read" -> "broken" [] OTHER -> p

(* reader.read() rejects, because of an abort or a broken connection, or   *)
(* the headers cannot be built (signing needs a secure context): nothing   *)
(* catches it, and the answer keeps its status.                            *)
Rejects(s) ==
  /\ s \in Live
  /\ phase' = [phase EXCEPT ![s] = CutOff(@)]
  /\ Finally(s)
  /\ UNCHANGED messages

(* The page is loaded again: what is not persisted is gone, and no finally *)
(* clause runs.                                                            *)
Reload ==
  /\ streaming' = Null
  /\ controllers' = [c \in Conversations |-> Null]
  /\ phase' = [s \in Sends |-> CutOff(phase[s])]
  /\ UNCHANGED <<list, messages, conv, aborted, elsewhere>>

Stream(s) ==
  Response(s) \/ Event(s) \/ FetchFails(s) \/ StreamEnds(s) \/ Rejects(s)

Next ==
  \/ \E c \in Conversations :
       CreateConversation(c) \/ SelectConversation(c) \/ DeleteConversation(c)
  \/ \E s \in Sends : SendMessage(s) \/ RegenerateLast(s) \/ Stream(s)
  \/ StopStreaming
  \/ Reload

Spec == Init /\ [][Next]_vars

(* The browser rejects the promises of an aborted fetch.  Nothing bounds   *)
(* how long a gateway may take that is not aborted.                        *)
AbortArrives(s) == s \in aborted /\ (FetchFails(s) \/ Rejects(s))

FairSpec == Spec /\ \A s \in Sends : WF_vars(AbortArrives(s))

-----------------------------------------------------------------------------
(* Whenever a conversation is shown as streaming, one of its streams is    *)
(* under way and stop aborts it, or has: the stop button is never shown in *)
(* vain, whatever sends, deletes and reloads the callbacks come between.   *)
ShownIsStoppable ==
  streaming # Null =>
    \E s \in Live : conv[s] = streaming /\ (controllers[streaming] = s \/ s \in aborted)

LastIsAnswer(log, s) == log[Len(log)].role = "assistant" /\ log[Len(log)].send = s

(* As long as nobody sends while a conversation streams, every stream of a *)
(* kept conversation is shown, can be stopped, and fills the last message: *)
(* the one flag and the one controller per conversation are enough.        *)
AloneIsShown ==
  ~elsewhere => \A s \in Live :
    conv[s] \in Kept =>
      /\ streaming = conv[s]
      /\ controllers[conv[s]] = s \/ s \in aborted
      /\ LastIsAnswer(messages[conv[s]], s)

(* An answer is left as streaming only by a stream that is under way, or   *)
(* that broke off: every other end of a stream settles it.                 *)
UnsettledIsUnfinished ==
  \A c \in Conversations : \A i \in DOMAIN messages[c] :
    messages[c][i].status = "streaming" =>
      phase[messages[c][i].send] \notin {"refused", "ended"}

(* Once the shown stream is stopped, its conversation is not shown as      *)
(* streaming for ever.                                                     *)
StopTakesEffect ==
  \A c \in Conversations :
    (streaming = c /\ controllers[c] = Null) ~> (streaming # c)

=============================================================================
