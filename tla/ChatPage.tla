------------------------------ MODULE ChatPage ------------------------------
(***************************************************************************)
(* The chat page of the web client: the stream slots                       *)
(* (web/src/stores/streamStore.ts), the message queue                      *)
(* (components/Composer.tsx), the optimistic bubble (pages/Chat.tsx), the  *)
(* reconciliation after Stop (hooks/useStoppedStreamReconciliation.ts) and *)
(* the cached message lists, against the rows the server has.              *)
(*                                                                         *)
(* An event handler changes the page; React renders it and runs the        *)
(* effects whose dependencies changed, in the order of their declaration,  *)
(* children first, each with what was rendered; that repeats until nothing *)
(* changes, before the next event (every store notifies synchronously).    *)
(***************************************************************************)
EXTENDS Naturals, Sequences, FiniteSets, SequencesExt, TLC

CONSTANTS
  Chats,
  Messages,    \* what the user types, each sent at most once
  None,
  MaxDeltas,   \* bound: message.delta frames of a reply
  MaxPolls     \* POLL_DELAYS.length

ASSUME PageAssumption ==
  /\ Chats # {} /\ None \notin Chats \cup Messages
  /\ MaxDeltas \in Nat /\ MaxPolls \in Nat \ {0}

VARIABLES
  turns,   \* server: each message's chat, the state of its turn, its text
  page     \* client: everything a handler or an effect may change

pageVars == <<turns, page>>

Idle == [status |-> "idle", of |-> None, text |-> 0]
NoPending == [of |-> None, base |-> 0]
NoPoll == [at |-> "none", left |-> 0, of |-> None, text |-> 0]
NoGet == [at |-> "none", list |-> {}, then |-> {}]

(* A row of the list: the question of a message, or its reply.             *)
Rows == [of : Messages, text : {0}, by : {"user"}]
        \cup [of : Messages, text : 0 .. MaxDeltas, by : {"assistant"}]

PageTypeOK ==
  /\ turns \in [Messages ->
       [chat : Chats \cup {None}, text : 0 .. MaxDeltas,
        state : {"unsent", "sent", "draft", "ended", "settled", "refused"}]]
  /\ page.view \in Chats
  /\ page.slot \in [Chats -> [status : {"idle", "streaming", "complete", "error", "stopped"},
                              of : Messages \cup {None}, text : 0 .. MaxDeltas]]
  /\ page.conn \in [Chats -> Messages \cup {None}]
  /\ page.list \in [Chats -> SUBSET Rows]
  /\ page.get \in [Chats -> [at : {"none", "asked", "read"}, list : SUBSET Rows,
                             then : SUBSET {"clear", "poll"}]]
  /\ page.pending \in [of : Messages \cup {None}, base : 0 .. Cardinality(Rows)]
  /\ \A i \in DOMAIN page.queue : page.queue[i] \in [of : Messages, chat : Chats]
  /\ page.stopped \in Chats \cup {None}
  /\ page.poll \in [at : {"none", "wait", "fetch"}, left : 0 .. MaxPolls,
                    of : Messages \cup {None}, text : 0 .. MaxDeltas]

(* Both chats have been opened before: their lists are in the cache.       *)
PageInit ==
  /\ turns = [m \in Messages |-> [chat |-> None, state |-> "unsent", text |-> 0]]
  /\ page = [view    |-> CHOOSE c \in Chats : TRUE,
             slot    |-> [c \in Chats |-> Idle],
             conn    |-> [c \in Chats |-> None],
             list    |-> [c \in Chats |-> {}],
             get     |-> [c \in Chats |-> NoGet],
             pending |-> NoPending,
             queue   |-> <<>>,
             stopped |-> None,
             poll    |-> NoPoll]

Streaming(p) == p.slot[p.view].status = "streaming"
Shown(p) == p.list[p.view]

-----------------------------------------------------------------------------
(* What handlers and effects do to the page.                               *)

(* streamStore.start: the chat's own connection is replaced.               *)
Start(p, c, m) ==
  [p EXCEPT !.conn[c] = m, !.slot[c] = [Idle EXCEPT !.status = "streaming"]]

(* handleSubmit; the baseline is the list that was rendered.               *)
Submit(p, c, m, rendered) ==
  [Start(p, c, m) EXCEPT !.pending = [of |-> m, base |-> Cardinality(rendered)]]

(* streamStore.stop.                                                       *)
StopStream(p, c) ==
  [p EXCEPT !.conn[c] = None,
            !.slot[c].status = IF p.slot[c].text > 0 THEN "stopped" ELSE "idle"]

Reset(p, c) == [p EXCEPT !.slot[c] = Idle]

(* A refetch cancels the one in flight silently: whoever waited for that   *)
(* one is resolved by the new one.                                         *)
Refetch(p, c, then) ==
  [p EXCEPT !.get[c] = [at |-> "asked", list |-> {}, then |-> @.then \cup then]]

-----------------------------------------------------------------------------
(* The effects: what was rendered before and what is rendered now decide,  *)
(* p takes the changes.                                                    *)

(* Composer: onSubmit is a new function whenever the list is a new one.    *)
DrainDue(was, now) ==
  \/ Streaming(was) # Streaming(now) \/ was.queue # now.queue
  \/ was.view # now.view \/ Shown(was) # Shown(now)

(* Faulty: the head is sent whatever chat is on screen.                    *)
DrainAnyChat(was, now, p) ==
  LET head == Head(now.queue) IN
  IF Streaming(now) \/ now.queue = <<>> \/ ~DrainDue(was, now) THEN p
  ELSE IF p.stopped = head.chat THEN [p EXCEPT !.stopped = None]
  ELSE Submit([p EXCEPT !.queue = Tail(@)], head.chat, head.of, Shown(now))

Drain(was, now, p) ==
  LET head == Head(now.queue) IN
  IF Streaming(now) \/ now.queue = <<>> \/ ~DrainDue(was, now) THEN p
  ELSE IF head.chat # now.view THEN p
  ELSE IF p.stopped = head.chat THEN [p EXCEPT !.stopped = None]
  ELSE Submit([p EXCEPT !.queue = Tail(@)], head.chat, head.of, Shown(now))

SlotDue(was, now) == was.view # now.view \/ was.slot[was.view] # now.slot[now.view]

(* Chat: the reply has ended, the list is asked for and the bubble dropped *)
(* when it comes.                                                          *)
Complete(was, now, p) ==
  IF SlotDue(was, now) /\ now.slot[now.view].status = "complete"
  THEN Refetch(p, now.view, {"clear"})
  ELSE p

(* useStoppedStreamReconciliation: the poll of the last run is cancelled,  *)
(* a stopped stream starts one.                                            *)
Reconcile(was, now, p) ==
  LET slot == now.slot[now.view]
      cleaned == [p EXCEPT !.poll = NoPoll,
                           !.get = [c \in Chats |-> [p.get[c] EXCEPT !.then = @ \ {"poll"}]]] IN
  IF was.view = now.view /\ was.slot[was.view].status = slot.status THEN p
  ELSE IF slot.status # "stopped" THEN cleaned
  ELSE [cleaned EXCEPT !.poll = [at |-> "wait", left |-> MaxPolls,
                                 of |-> slot.of, text |-> slot.text]]

(* ... and a stopped slot does not outlive a chat switch.                  *)
Zombie(was, now, p) ==
  IF was.view # now.view /\ now.slot[now.view].status = "stopped"
  THEN Reset(p, now.view)
  ELSE p

(* Chat: the list has grown past the bubble's baseline; a chat switch      *)
(* drops the bubble.                                                       *)
Grown(was, now, p) ==
  IF /\ was.view # now.view \/ Shown(was) # Shown(now) \/ was.pending # now.pending
     /\ now.pending.of # None /\ Cardinality(Shown(now)) > now.pending.base
  THEN [p EXCEPT !.pending = NoPending]
  ELSE p

Forget(was, now, p) ==
  IF was.view # now.view THEN [p EXCEPT !.pending = NoPending] ELSE p

Effects(was, now) ==
  LET drained == Drain(was, now, now)
      asked   == Complete(was, now, drained)
      polled  == Reconcile(was, now, asked)
      awake   == Zombie(was, now, polled)
      grown   == Grown(was, now, awake)
  IN IF was = now THEN now ELSE Forget(was, now, grown)

(* An event, its rendering and the renderings its effects ask for: never   *)
(* more than four.                                                         *)
Event(p) ==
  \E first \in {p} : \E second \in {Effects(page, first)} :
    \E third \in {Effects(first, second)} : \E fourth \in {Effects(second, third)} :
      page' = fourth /\ Assert(Effects(third, fourth) = fourth, "more effects are due")

-----------------------------------------------------------------------------
(* The user.                                                               *)

(* Composer.handleSubmit: a message typed during a reply is queued.        *)
Send(m) ==
  /\ turns[m].state = "unsent"
  /\ turns' = [turns EXCEPT ![m].chat = page.view, ![m].state = "sent"]
  /\ Event(IF Streaming(page)
           THEN [page EXCEPT !.queue = Append(@, [of |-> m, chat |-> page.view])]
           ELSE Submit(page, page.view, m, Shown(page)))

(* The Stop button; a dismissed error banner stops too, without the mark.  *)
Stop ==
  /\ \/ /\ Streaming(page)
        /\ Event([StopStream(page, page.view) EXCEPT !.stopped = page.view])
     \/ /\ page.slot[page.view].status = "error"
        /\ Event(StopStream(page, page.view))
  /\ UNCHANGED turns

(* The queue's own buttons: Send now is there while nothing streams.       *)
SendNow(i) ==
  LET item == page.queue[i] IN
  /\ item.chat = page.view /\ ~Streaming(page)
  /\ Event(Submit([page EXCEPT !.queue = RemoveAt(@, i)], item.chat, item.of, Shown(page)))
  /\ UNCHANGED turns

Discard(i) ==
  /\ page.queue[i].chat = page.view
  /\ Event([page EXCEPT !.queue = RemoveAt(@, i)])
  /\ UNCHANGED turns

(* Neither the queue nor the Composer is remounted; a list that is younger *)
(* than five minutes is not asked for again.                               *)
Switch(c) ==
  /\ c # page.view
  /\ Event([page EXCEPT !.view = c])
  /\ UNCHANGED turns

-----------------------------------------------------------------------------
(* The stream of a chat, as far as the page sees it: admission, frames,    *)
(* the end. A turn whose connection is gone goes on at the server.         *)

Queued(m) == \E i \in DOMAIN page.queue : page.queue[i].of = m
Attended(m) == \E c \in Chats : page.conn[c] = m
Ends(c, status) == [page EXCEPT !.conn[c] = None, !.slot[c].status = status]

(* A draft refuses the next turn of its chat with 409; a request that was  *)
(* aborted is admitted, refused or never painted.                             *)
Admit(m) ==
  LET c == turns[m].chat
      busy == \E n \in Messages : turns[n].chat = c /\ turns[n].state \in {"draft", "ended"}
  IN
  /\ turns[m].state = "sent" /\ ~Queued(m)
  /\ \/ /\ ~busy
        /\ turns' = [turns EXCEPT ![m].state = "draft"]
        /\ Event(IF Attended(m) THEN [page EXCEPT !.slot[c].of = m] ELSE page)
     \/ /\ busy \/ ~Attended(m)
        /\ turns' = [turns EXCEPT ![m].state = "refused"]
        /\ Event(IF Attended(m) THEN Ends(c, "error") ELSE page)

Delta(m) ==
  LET c == turns[m].chat IN
  /\ turns[m].state = "draft" /\ Attended(m) /\ turns[m].text < MaxDeltas
  /\ turns' = [turns EXCEPT ![m].text = @ + 1]
  /\ Event([page EXCEPT !.slot[c].text = @ + 1])

(* chat.end is yielded before the row is finalized.                        *)
ChatEnd(m) ==
  LET c == turns[m].chat IN
  /\ turns[m].state = "draft" /\ Attended(m)
  /\ turns' = [turns EXCEPT ![m].state = "ended"]
  /\ Event(Ends(c, "complete"))

(* An error frame, a failed fetch, or a stream that ends without a         *)
(* terminal frame: whole enough to keep once it has text.                  *)
StreamBreaks(m) ==
  LET c == turns[m].chat IN
  /\ turns[m].state = "draft" /\ Attended(m)
  /\ \/ Event(Ends(c, "error"))
     \/ page.slot[c].text > 0 /\ Event(Ends(c, "complete"))
  /\ UNCHANGED turns

(* The row leaves draft: with the whole reply, or with what had been       *)
(* flushed where the connection was cut, after chat.end by the next start. *)
(* (Between its two commits a row is listed and still busy: left out.)     *)
SettleRow(m) ==
  LET cut == turns[m].state = "draft" \/ page.slot[turns[m].chat].of # m IN
  /\ turns[m].state = "ended" \/ (turns[m].state = "draft" /\ ~Attended(m))
  /\ \E text \in IF cut THEN 0 .. turns[m].text ELSE {turns[m].text} :
       turns' = [turns EXCEPT ![m].state = "settled", ![m].text = text]
  /\ UNCHANGED page

-----------------------------------------------------------------------------
(* The message list.                                                       *)

(* GET /api/chats/{id}: drafts are left out, their questions are not.      *)
Listing(c) ==
  LET of(states) == {m \in Messages : turns[m].chat = c /\ turns[m].state \in states} IN
  {[of |-> m, text |-> 0, by |-> "user"] : m \in of({"draft", "ended", "settled"})}
  \cup {[of |-> m, text |-> turns[m].text, by |-> "assistant"] : m \in of({"settled"})}

ReplyTo(m, list) == {row \in list : row.of = m /\ row.by = "assistant"}

Read(c) ==
  /\ page.get[c].at = "asked"
  /\ Event([page EXCEPT !.get[c].at = "read", !.get[c].list = Listing(c)])
  /\ UNCHANGED turns

(* resolveStoppedPartial.                                                  *)
Durable(list) ==
  \/ page.poll.of = None
  \/ \E row \in ReplyTo(page.poll.of, list) : row.text >= page.poll.text

(* Faulty: the cache is left as the server has it.                         *)
PatchedNot(list) == list

(* A row that never caught up is given the text that was on screen.        *)
Patched(list) ==
  LET short == {row \in ReplyTo(page.poll.of, list) : row.text < page.poll.text} IN
  (list \ short) \cup {[row EXCEPT !.text = page.poll.text] : row \in short}

(* Faulty: the last attempt goes on waiting.                               *)
PolledNever(p, list) ==
  IF Durable(list)
  THEN [Reset(p, p.view) EXCEPT !.list[p.view] = Patched(list)]
  ELSE [p EXCEPT !.poll.at = "wait"]

(* pollAttempt's callback: done, given up, or once more.                   *)
Polled(p, list) ==
  IF Durable(list) \/ p.poll.left = 1
  THEN [Reset(p, p.view) EXCEPT !.list[p.view] = Patched(list)]
  ELSE [p EXCEPT !.poll.at = "wait", !.poll.left = @ - 1]

(* The answer arrives: the cache is replaced, then whoever waited runs.    *)
Arrive(c) ==
  LET get == page.get[c]
      cached == [page EXCEPT !.list[c] = get.list, !.get[c] = NoGet]
      cleared == IF "clear" \in get.then THEN [cached EXCEPT !.pending = NoPending] ELSE cached
  IN
  /\ get.at = "read"
  /\ Event(IF "poll" \in get.then THEN Polled(cleared, get.list) ELSE cleared)
  /\ UNCHANGED turns

PollTimer ==
  /\ page.poll.at = "wait"
  /\ Event(Refetch([page EXCEPT !.poll.at = "fetch"], page.view, {"poll"}))
  /\ UNCHANGED turns

-----------------------------------------------------------------------------
UserActs ==
  \/ \E m \in Messages : Send(m)
  \/ \E i \in DOMAIN page.queue : SendNow(i) \/ Discard(i)
  \/ Stop
  \/ \E c \in Chats : Switch(c)

ServerActs == \E m \in Messages :
  Admit(m) \/ Delta(m) \/ ChatEnd(m) \/ StreamBreaks(m) \/ SettleRow(m)

ListActs == PollTimer \/ \E c \in Chats : Read(c) \/ Arrive(c)

PageNext == UserActs \/ ServerActs \/ ListActs

PageSpec == PageInit /\ [][PageNext]_pageVars

(* Requests are answered, a stream and a poll go on until they end (idle   *)
(* timeouts at the server, timers here); nothing is asked of the user.     *)
PageFairness ==
  /\ WF_pageVars(PollTimer)
  /\ \A c \in Chats : WF_pageVars(Read(c) \/ Arrive(c))
  /\ \A m \in Messages :
       WF_pageVars(Admit(m) \/ ChatEnd(m) \/ StreamBreaks(m) \/ SettleRow(m))
PageFairSpec == PageSpec /\ PageFairness

-----------------------------------------------------------------------------
(* No step cuts a reply that is still coming in a chat that is not on      *)
(* screen then: neither the queue nor a chat switch (streamStore: "opening *)
(* chat B while chat A was still generating silently killed A's request"). *)
OthersGoOn ==
  [][\A c \in Chats : c # page'.view /\ page.conn[c] # None
       => page'.conn[c] \in {page.conn[c], None}]_pageVars

(* When the reconciliation ends, a stopped reply that the list holds is    *)
(* not shorter than it was on screen, however little of it was flushed.    *)
StoppedTextKept ==
  [][LET slot == page.slot[page.view] IN
     page'.view = page.view /\ slot.status = "stopped" /\ page'.slot[page.view].status = "idle"
       => \A row \in ReplyTo(slot.of, Shown(page')) : row.text >= slot.text]_pageVars

(* A stopped chat on screen is released (its "zombie" state ends).         *)
OnScreen == page.slot[page.view].status
StopSettles == OnScreen = "stopped" ~> OnScreen # "stopped"

(* The first queued message of the chat on screen is sent once the reply   *)
(* it waits for has ended, unless the user stops that reply or leaves.     *)
HeadWaits(m) ==
  page.queue # <<>> /\ Head(page.queue) = [of |-> m, chat |-> page.view]
QueueDrains == \A m \in Messages :
  HeadWaits(m) /\ OnScreen = "streaming" /\ page.stopped = None
    ~> ~HeadWaits(m) \/ OnScreen \in {"idle", "stopped"}

(* Nothing on the page waits for ever.                                     *)
PageMovesOn == StopSettles /\ QueueDrains

(* While a response is in flight its chat shows it as streaming, on which  *)
(* Stop, the queue and the composer go (Composer: "A response is already   *)
(* in flight: enqueue instead of dropping the message").                   *)
InFlightIsShown ==
  \A c \in Chats : page.conn[c] # None => page.slot[c].status = "streaming"
=============================================================================
