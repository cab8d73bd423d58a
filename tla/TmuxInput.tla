------------------------------ MODULE TmuxInput -----------------------------
(***************************************************************************)
(* Input on its way to the panes of a tmux control client: the mailbox     *)
(* shared by the sessions of all panes and the tmux bar (nyaterm-transport *)
(* tmux/mailbox.rs), and the worker that batches what it takes from it     *)
(* into send-keys lines and sends them one at a time (tmux/session.rs).    *)
(*                                                                         *)
(* Callers hold the lock of the session registry from the lookup of the    *)
(* session to the end of the call, so one of them at a time is between     *)
(* reserve and enqueue, and the worker neither maps nor drops a pane then. *)
(* A permit counts against the limits from reserve until the last line     *)
(* made from its input has been sent.  Detach and the closing of panes     *)
(* bypass the queue.                                                       *)
(*                                                                         *)
(* A byte of input is the number of the permit it came with, permits in    *)
(* use having different numbers, and its place in that input.              *)
(***************************************************************************)
EXTENDS Naturals, FiniteSetsExt, SequencesExt

CONSTANTS
    Panes,        \* tmux pane ids
    Nobody,       \* no pane, no permit, no line
    ByteLimit,    \* BYTE_LIMIT
    ItemLimit,    \* ITEM_LIMIT
    BatchBytes,   \* INPUT_BATCH_BYTES
    KeyBytes,     \* the longest key sequence batch_len recognizes
    MaxQueued,    \* MAX_QUEUED_COMMANDS
    MaxExpected,  \* MAX_PENDING_RESPONSES
    Sizes,        \* lengths of the inputs
    MaxAttach     \* bound: attachments

ASSUME InputConstants ==
    /\ Nobody \notin Panes
    /\ ByteLimit \in Nat /\ ItemLimit \in Nat \ {0}
    /\ BatchBytes \in Nat \ {0} /\ KeyBytes \in Nat \ {0}
    /\ MaxQueued \in Nat /\ MaxExpected \in Nat \ {0}
    /\ Sizes \subseteq Nat /\ MaxAttach \in Nat

\* A batch of keys fits into the half of the queue that is kept free.
ASSUME BatchFits == BatchBytes <= MaxQueued - MaxQueued \div 2

VARIABLES
    mailbox,   \* State of tmux/mailbox.rs
    hand,      \* the command of a caller between reserve and enqueue
    channel,   \* the unbounded channel
    mode,      \* of the worker
    panes,     \* ControlSession::panes, and their sessions in the registry
    closing,   \* the panes whose session has close_requested
    dying,     \* the panes tmux has killed and not yet reported
    buf,       \* input_buf
    guards,    \* input_guards
    outgoing,  \* lines to send
    sending,   \* pending_send
    expected,  \* pending_responses
    fatal,     \* ControlSession::fatal
    log        \* of this attachment: input typed and not yet sent, panes that lost some

input == <<buf, guards>>
lines == <<outgoing, sending, expected, fatal>>
vars  == <<mailbox, hand, channel, mode, panes, closing, dying, input, lines, log>>

Permit == [id : Nat, bytes : Nat, gen : Nat]

Byte == Nat \X Nat

Command == [kind : {"input", "command", "resize"}, pane : Panes \cup {Nobody},
            permit : Permit]

Line == [kind : {"keys", "command", "kill", "detach", "other"},
         pane : Panes \cup {Nobody}, data : Seq(Byte), guards : SUBSET Permit]

\* None is neither a command nor a line.
ASSUME NobodyIsNone == Nobody \notin Command /\ Nobody \notin Line

\* The mailbox's end of the worker: a shell, the handshake with a tmux it has
\* detected, or a control session.  "detach" and "close" are the exit modes;
\* "toShell" and "toEnd" are the teardown of a session that returns to the shell
\* or ends, "discarding" and "stopping" the same once the mailbox is suspended.
Modes == {"shell", "handshake", "control", "detach", "close", "toShell", "toEnd",
          "discarding", "stopping", "ended"}

TypeOK ==
    /\ mailbox \in [bytes : Nat, items : Nat, gen : Nat, suspended : BOOLEAN,
                    stopped : BOOLEAN, detach : BOOLEAN, closes : SUBSET Panes]
    /\ hand \in Command \cup {Nobody}
    /\ channel \in Seq(Command)
    /\ mode \in Modes
    /\ panes \in SUBSET Panes /\ closing \in SUBSET Panes /\ dying \in SUBSET Panes
    /\ buf \in [Panes -> Seq(Byte)] /\ guards \in [Panes -> SUBSET Permit]
    /\ outgoing \in Seq(Line) /\ sending \in Line \cup {Nobody}
    /\ expected \in Seq(Panes \cup {Nobody}) /\ fatal \in BOOLEAN
    /\ log \in [owed : [Panes -> Seq(Byte)], lost : SUBSET Panes]

NoInput == [p \in Panes |-> <<>>]

NewLog == [owed |-> NoInput, lost |-> {}]

Init ==
    /\ mailbox = [bytes |-> 0, items |-> 0, gen |-> 0, suspended |-> FALSE,
                  stopped |-> FALSE, detach |-> FALSE, closes |-> {}]
    /\ hand = Nobody /\ channel = <<>> /\ mode = "shell"
    /\ panes = {} /\ closing = {} /\ dying = {}
    /\ buf = NoInput /\ guards = [p \in Panes |-> {}]
    /\ outgoing = <<>> /\ sending = Nobody /\ expected = <<>> /\ fatal = FALSE
    /\ log = NewLog

Lost(S) == [owed |-> [p \in Panes |-> IF p \in S THEN <<>> ELSE log.owed[p]],
            lost |-> log.lost \cup S]

-----------------------------------------------------------------------------
(* The mailbox.                                                            *)

GuardsIn(ls) == UNION {l.guards : l \in Range(ls)}

PermitsOf(c) == IF c = Nobody THEN {} ELSE {c.permit}

\* The permits in the hands of the worker.
Held ==
    {c.permit : c \in Range(channel)} \cup (UNION Range(guards)) \cup GuardsIn(outgoing)
    \cup (IF sending = Nobody THEN {} ELSE sending.guards)

Live == PermitsOf(hand) \cup Held

\* The least number no permit in use has.
Fresh(i) == /\ \A m \in Live : m.id # i
            /\ \A j \in 1..(i - 1) : \E m \in Live : m.id = j

BytesOf(S) == MapThenSumSet(LAMBDA m : m.bytes, S)

\* Permit::drop of every permit in S.
Release(m, S) == [m EXCEPT !.bytes = @ - BytesOf(S), !.items = @ - Cardinality(S)]

Refuses(m) == m.stopped \/ m.suspended

RoomFor(n) == n <= ByteLimit - mailbox.bytes /\ mailbox.items < ItemLimit

\* The permit counts its own item and bytes before the command is copied.
Reserve(kind, p, n) ==
    /\ hand = Nobody
    /\ ~Refuses(mailbox) /\ RoomFor(n)
    /\ \E i \in 1..(ItemLimit + 1) :
          /\ Fresh(i)
          /\ hand' = [kind |-> kind, pane |-> p,
                      permit |-> [id |-> i, bytes |-> n, gen |-> mailbox.gen]]
    /\ mailbox' = [mailbox EXCEPT !.bytes = @ + n, !.items = @ + 1]
    /\ UNCHANGED <<channel, mode, panes, closing, dying, input, lines, log>>

\* write and resize of a pane's session; tmux_send_command while tmux_active.
WritePane(p, n) == p \in panes /\ n > 0 /\ Reserve("input", p, n)

ResizePane(p) == p \in panes /\ Reserve("resize", p, 0)

TmuxSendCommand(n) == mode \notin {"shell", "ended"} /\ Reserve("command", Nobody, n)

Bytes(m) == [i \in 1..m.bytes |-> <<m.id, i>>]

\* A permit of an earlier epoch taken for one of this.
AcceptedInAnyEpoch(m) == ~Refuses(mailbox) /\ m.gen <= mailbox.gen

Accepted(m) == ~Refuses(mailbox) /\ m.gen = mailbox.gen

Enqueue ==
    /\ hand # Nobody
    /\ hand' = Nobody
    /\ IF Accepted(hand.permit)
       THEN /\ channel' = Append(channel, hand)
            /\ log' = IF hand.kind # "input" \/ hand.pane \in log.lost THEN log
                      ELSE [log EXCEPT !.owed[hand.pane] = @ \o Bytes(hand.permit)]
            /\ UNCHANGED mailbox
       ELSE /\ mailbox' = Release(mailbox, {hand.permit})
            /\ UNCHANGED <<channel, log>>
    /\ UNCHANGED <<mode, panes, closing, dying, input, lines>>

\* tmux_detach and tmux_close_pane: the latter keeps one request per pane.
SendDetach ==
    /\ hand = Nobody /\ mode \notin {"shell", "ended"} /\ ~Refuses(mailbox)
    /\ mailbox' = [mailbox EXCEPT !.detach = TRUE]
    /\ UNCHANGED <<hand, channel, mode, panes, closing, dying, input, lines, log>>

TmuxClosePane(p) ==
    /\ hand = Nobody /\ p \in panes \ closing /\ ~Refuses(mailbox)
    /\ mailbox' = [mailbox EXCEPT !.closes = @ \cup {p}]
    /\ closing' = closing \cup {p}
    /\ UNCHANGED <<hand, channel, mode, panes, dying, input, lines, log>>

-----------------------------------------------------------------------------
(* The worker.                                                             *)

\* tmux_active is set, and cleared again if tmux exits: what was queued stays.
Detect ==
    /\ mode = "shell" /\ mailbox.gen < MaxAttach
    /\ mode' = "handshake"
    /\ UNCHANGED <<mailbox, hand, channel, panes, closing, dying, input, lines, log>>

HandshakeExited ==
    /\ mode = "handshake"
    /\ mode' = "shell"
    /\ UNCHANGED <<mailbox, hand, channel, panes, closing, dying, input, lines, log>>

\* The shell is closed, or the handshake fails: the receiver is dropped.
EndShell ==
    /\ mode \in {"shell", "handshake"}
    /\ mode' = "ended"
    /\ mailbox' = [Release(mailbox, {c.permit : c \in Range(channel)}) EXCEPT !.stopped = TRUE]
    /\ channel' = <<>>
    /\ UNCHANGED <<hand, panes, closing, dying, input, lines, log>>

\* run_control_session begins.
Attach ==
    /\ mode = "handshake"
    /\ mode' = "control" /\ log' = NewLog
    /\ mailbox' = [mailbox EXCEPT !.suspended = FALSE]
    /\ UNCHANGED <<hand, channel, panes, closing, dying, input, lines>>

Running == mode \in {"control", "detach", "close"} /\ ~fatal

Idle == mode = "control" /\ ~fatal

Plain(kind, p) == [kind |-> kind, pane |-> p, data |-> <<>>, guards |-> {}]

Lesser(a, b) == IF a <= b THEN a ELSE b

\* queue_batch of several lines, and gs handed to the last line of the queue.
QueueLines(ls, gs) ==
    LET room == MaxQueued - Len(outgoing)
        q == outgoing \o SubSeq(ls, 1, Lesser(room, Len(ls)))
    IN /\ outgoing' = IF q = <<>> THEN q ELSE [q EXCEPT ![Len(q)].guards = @ \cup gs]
       /\ fatal' = (Len(ls) > room)
       /\ UNCHANGED <<sending, expected>>

\* No line kept in reserve.
QueueNotFull == Len(outgoing) < MaxQueued

\* Half of the queue is kept for the lines the worker cannot put off.
QueueHasRoom == Len(outgoing) < MaxQueued \div 2

Recv(kind) == Idle /\ QueueHasRoom /\ channel # <<>> /\ Head(channel).kind = kind
              /\ channel' = Tail(channel)

RecvInput ==
    /\ Recv("input")
    /\ LET m == Head(channel).permit
           p == Head(channel).pane
       IN IF p \in panes
          THEN /\ buf' = [buf EXCEPT ![p] = @ \o Bytes(m)]
               /\ guards' = [guards EXCEPT ![p] = @ \cup {m}]
               /\ UNCHANGED <<mailbox, log>>
          ELSE /\ mailbox' = Release(mailbox, {m})
               /\ log' = Lost({p})
               /\ UNCHANGED input
    /\ UNCHANGED <<hand, mode, panes, closing, dying, lines>>

\* A blank line is dropped; any other is sent with a barrier behind it.
RecvCommand ==
    /\ Recv("command")
    /\ LET m == Head(channel).permit
       IN \/ QueueLines(<<Plain("command", Nobody)>>, {m}) /\ UNCHANGED mailbox
          \/ mailbox' = Release(mailbox, {m}) /\ UNCHANGED lines
    /\ UNCHANGED <<hand, mode, panes, closing, dying, input, log>>

\* handle_pane_resize; the lines it queues later are OtherLine's.
RecvResize ==
    /\ Recv("resize")
    /\ mailbox' = Release(mailbox, {Head(channel).permit})
    /\ UNCHANGED <<hand, mode, panes, closing, dying, input, lines, log>>

Keys(p, data) == [kind |-> "keys", pane |-> p, data |-> data, guards |-> {}]

\* Variant of ReleasedWith: the permits are kept.
NeverReleased(p, rest) == {}

\* The permits that leave with the batch: all of them once nothing is left.
ReleasedWith(p, rest) == IF rest = <<>> THEN guards[p] ELSE {}

RestOf(p, n) == SubSeq(buf[p], n + 1, Len(buf[p]))

\* The lines of a batch of n bytes, cut at byte e: one if it is plain text, at
\* worst one per byte, the last of them with the rest of a key.
OneLine(p, n) == <<Keys(p, SubSeq(buf[p], 1, n))>>

\* The keys of a batch queued in the wrong order.
LastKeyFirst(p, e, n) ==
    Reverse([i \in 1..e |-> Keys(p, SubSeq(buf[p], i, IF i < e THEN i ELSE n))])

LinePerKey(p, e, n) ==
    [i \in 1..e |-> Keys(p, SubSeq(buf[p], i, IF i < e THEN i ELSE n))]

\* batch_len: a key that begins before the limit is taken whole.
FlushInput(p) ==
    /\ Idle /\ QueueHasRoom /\ buf[p] # <<>>
    /\ LET e == Lesser(BatchBytes, Len(buf[p]))
       IN \E n \in e..Lesser(e + KeyBytes - 1, Len(buf[p])) :
          LET rest == RestOf(p, n)
              gs == ReleasedWith(p, rest)
          IN /\ QueueLines(OneLine(p, n), gs) \/ QueueLines(LinePerKey(p, e, n), gs)
             /\ buf' = [buf EXCEPT ![p] = rest]
             /\ guards' = [guards EXCEPT ![p] = @ \ gs]
    /\ UNCHANGED <<mailbox, hand, channel, mode, panes, closing, dying, log>>

\* Refreshes, seeds, resizes, queries: queued without asking for room.
OtherLine ==
    /\ Running
    /\ QueueLines(<<Plain("other", Nobody)>>, {})
    /\ UNCHANGED <<mailbox, hand, channel, mode, panes, closing, dying, input, log>>

\* control.recv: a detach before the closes.
RecvClose(p) ==
    /\ Running /\ ~mailbox.detach /\ p \in mailbox.closes
    /\ mailbox' = [mailbox EXCEPT !.closes = @ \ {p}]
    /\ IF mode = "control" THEN QueueLines(<<Plain("kill", p)>>, {})
       ELSE UNCHANGED lines
    /\ UNCHANGED <<hand, channel, mode, panes, closing, dying, input, log>>

\* request_detach: everything queued is given up for the detach-client line.
RequestDetach(m, exitMode) ==
    /\ mode' = exitMode
    /\ mailbox' = Release(m, GuardsIn(outgoing) \cup (UNION Range(guards)))
    /\ outgoing' = <<Plain("detach", Nobody)>>
    /\ buf' = NoInput /\ guards' = [p \in Panes |-> {}]
    /\ log' = Lost(Panes)
    /\ UNCHANGED <<hand, channel, panes, closing, dying, sending, expected, fatal>>

RecvDetach ==
    /\ Running /\ mailbox.detach
    /\ LET m == [mailbox EXCEPT !.detach = FALSE]
       IN IF mode = "control" THEN RequestDetach(m, "detach")
          ELSE /\ mailbox' = m
               /\ UNCHANGED <<hand, channel, mode, panes, closing, dying, input, lines, log>>

HostClosed == Idle /\ RequestDetach(mailbox, "close")

StartSend ==
    /\ Running /\ sending = Nobody /\ outgoing # <<>> /\ Len(expected) < MaxExpected
    /\ sending' = Head(outgoing) /\ outgoing' = Tail(outgoing)
    /\ expected' = Append(expected, IF sending'.kind = "kill" THEN sending'.pane ELSE Nobody)
    /\ UNCHANGED <<mailbox, hand, channel, mode, panes, closing, dying, input, fatal, log>>

SendDone ==
    /\ Running /\ sending # Nobody
    /\ sending' = Nobody
    /\ mailbox' = Release(mailbox, sending.guards)
    /\ log' = IF sending.kind # "keys" THEN log
              ELSE [log EXCEPT !.owed[sending.pane] = SubSeq(@, Len(sending.data) + 1, Len(@))]
    /\ UNCHANGED <<hand, channel, mode, panes, closing, dying, input, outgoing, expected, fatal>>

\* A failure that is not noticed.
StillClosing(p, failed) == closing

\* A close may be asked for again if its kill-pane failed.
ClosingAfter(p, failed) == IF failed /\ p \in panes THEN closing \ {p} ELSE closing

\* The answer to a line that has been sent.
Answered(failed) ==
    /\ Running /\ Len(expected) > (IF sending = Nobody THEN 0 ELSE 1)
    /\ LET p == Head(expected)
       IN /\ closing' = ClosingAfter(p, failed)
          /\ dying' = IF ~failed /\ p \in panes THEN dying \cup {p} ELSE dying
    /\ expected' = Tail(expected)
    /\ UNCHANGED <<mailbox, hand, channel, mode, panes, input, outgoing, sending, fatal, log>>

-----------------------------------------------------------------------------
(* Panes come and go; TmuxPanes has the details.                           *)

SpawnPane(p) ==
    /\ Running /\ hand = Nobody /\ p \notin panes
    /\ panes' = panes \cup {p}
    /\ UNCHANGED <<mailbox, hand, channel, mode, closing, dying, input, lines, log>>

\* drop_pane, of a pane that is gone or by a teardown.
DropPane(p) ==
    /\ mode \notin {"shell", "handshake", "discarding", "stopping", "ended"}
    /\ hand = Nobody /\ p \in panes
    /\ panes' = panes \ {p} /\ closing' = closing \ {p} /\ dying' = dying \ {p}
    /\ mailbox' = Release(mailbox, guards[p])
    /\ buf' = [buf EXCEPT ![p] = <<>>] /\ guards' = [guards EXCEPT ![p] = {}]
    /\ log' = IF buf[p] = <<>> THEN log ELSE Lost({p})
    /\ UNCHANGED <<hand, channel, mode, lines>>

-----------------------------------------------------------------------------
(* The end of the control session.                                         *)

\* The loop ends: a send under way is dropped.
Leave(next) ==
    /\ mode' = next
    /\ sending' = Nobody
    /\ mailbox' = IF sending = Nobody THEN mailbox ELSE Release(mailbox, sending.guards)
    /\ log' = Lost(Panes)
    /\ UNCHANGED <<hand, channel, panes, closing, dying, input, outgoing, expected, fatal>>

Exit == Running /\ Leave(IF mode = "close" THEN "toEnd" ELSE "toShell")

Fatal == fatal /\ mode \in {"control", "detach", "close"} /\ Leave("toEnd")

\* A send that fails or takes too long, a detach that is not answered, or the
\* channel's end.
ChannelLost == Running /\ Leave("toEnd")

NoDeadline == FALSE

DetachDeadline == mode \in {"detach", "close"} /\ ChannelLost

\* discard_pending begins: the epoch ends and nothing more is accepted.
Suspend ==
    /\ mode \in {"toShell", "toEnd"} /\ panes = {}
    /\ mode' = IF mode = "toShell" THEN "discarding" ELSE "stopping"
    /\ mailbox' = [mailbox EXCEPT !.suspended = TRUE, !.gen = @ + 1, !.detach = FALSE,
                                  !.closes = {}]
    /\ UNCHANGED <<hand, channel, panes, closing, dying, input, lines, log>>

\* It empties the channel; the lines of the session go with it.
Discard ==
    /\ mode \in {"discarding", "stopping"}
    /\ mode' = IF mode = "discarding" THEN "shell" ELSE "ended"
    /\ mailbox' = [Release(mailbox, {c.permit : c \in Range(channel)} \cup GuardsIn(outgoing))
                     EXCEPT !.stopped = (mode' = "ended")]
    /\ channel' = <<>> /\ outgoing' = <<>> /\ expected' = <<>> /\ fatal' = FALSE
    /\ UNCHANGED <<hand, panes, closing, dying, input, sending, log>>

-----------------------------------------------------------------------------
Caller ==
    \/ Enqueue \/ SendDetach
    \/ \E n \in Sizes : TmuxSendCommand(n) \/ \E p \in Panes : WritePane(p, n)
    \/ \E p \in Panes : ResizePane(p) \/ TmuxClosePane(p)

Receive == RecvInput \/ RecvCommand \/ RecvResize

Worker ==
    \/ Detect \/ HandshakeExited \/ EndShell \/ Attach
    \/ Receive \/ OtherLine \/ RecvDetach \/ HostClosed \/ StartSend \/ SendDone
    \/ Exit \/ Fatal \/ ChannelLost \/ Suspend \/ Discard
    \/ \E p \in Panes : FlushInput(p) \/ RecvClose(p) \/ SpawnPane(p) \/ DropPane(p)
    \/ \E failed \in BOOLEAN : Answered(failed)

Next == Caller \/ Worker

Spec == Init /\ [][Next]_vars

TearDown(p) == (p \in dying \/ mode \in {"toShell", "toEnd"}) /\ DropPane(p)

\* Callers return, the worker runs, a send and a handshake end within their
\* time-outs, and tmux answers and reports the panes it has killed.  The select of the worker is
\* biased: it polls the mailbox and the timer of the input before the channel,
\* so what tmux sends cannot keep them waiting for ever.
FairSpec ==
    /\ Spec
    /\ WF_vars(Enqueue) /\ WF_vars(StartSend) /\ WF_vars(SendDone \/ ChannelLost)
    /\ WF_vars(\E failed \in BOOLEAN : Answered(failed))
    /\ WF_vars(RecvDetach) /\ WF_vars(DetachDeadline) /\ WF_vars(Fatal)
    /\ WF_vars(mode = "handshake" /\ (HandshakeExited \/ EndShell \/ Attach))
    /\ WF_vars(Suspend) /\ WF_vars(Discard)
    /\ SF_vars(Receive)
    /\ \A p \in Panes : SF_vars(FlushInput(p)) /\ WF_vars(RecvClose(p)) /\ SF_vars(TearDown(p))

-----------------------------------------------------------------------------
(* Properties.                                                             *)

\* No command of a detached epoch runs on a later attachment (the comment on
\* discard_pending), although a caller may hold its permit across a detach and
\* the next attach.
NoStaleInput == Running => \A m \in Held : m.gen = mailbox.gen

KeysFor(p, l) == l.kind = "keys" /\ l.pane = p

InputFor(p, c) == c.kind = "input" /\ c.pane = p

\* Input of p that is neither sent nor being sent.
Unsent(p) == \/ buf[p] # <<>>
             \/ \E l \in Range(outgoing) : KeysFor(p, l)
             \/ \E c \in Range(channel) : InputFor(p, c)

Sends(p) == sending # Nobody /\ KeysFor(p, sending)

\* What was typed into a pane reaches tmux in order, without a hole or a copy,
\* although it is batched, split into lines and queued with other lines, unless
\* the pane was dropped or the session left: the keys being sent are the next ones
\* owed to the pane, byte for byte, and none are owed when none are on their way.
InputIntact ==
    \A p \in Panes \ log.lost :
        Idle => /\ Sends(p) => IsPrefix(sending.data, log.owed[p])
                /\ log.owed[p] # <<>> => Unsent(p) \/ Sends(p)

\* Typing alone never overflows the queue of lines, which would end the session
\* (the comment on INPUT_BATCH_BYTES).
InputNeverFatal == [][(\E p \in Panes : FlushInput(p)) \/ RecvCommand => ~fatal']_vars

\* The close of a pane comes to an end: the pane goes, or the close may be
\* asked for again.
CloseResolved == \A p \in Panes : []<>(p \notin closing)

\* A mailbox that refuses the input of a pane for want of room does not stay full
\* for ever, neither in control mode nor in the teardown, unless lines of the
\* worker's own keep its queue half full for ever.
RoomReturns ==
    []<>(QueueHasRoom \/ mode # "control")
    => []<>(mailbox.items < ItemLimit \/ mode \in {"shell", "handshake", "ended"})

\* A detach ends control mode, with full queues and without an answer.
DetachEnds == mailbox.detach ~> mode \in {"shell", "ended"}
=============================================================================
