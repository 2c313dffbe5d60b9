--------------------------- MODULE WaylandTransfers ---------------------------
(***************************************************************************)
(* Data that other programs hand over through pipes: the selections (the    *)
(* clipboard and the primary selection) and the external drops of           *)
(* nk::WaylandInput (src/platform/linux/wayland_input.cpp), and the bounded *)
(* transfers of src/platform/linux/clipboard_transfer.cpp they run over.    *)
(*                                                                          *)
(* Everything runs on the UI thread; the compositor, the programs that own  *)
(* or want a selection and the clock go on beside it. The requests of the   *)
(* client reach the compositor at once, its events are queued. A handler    *)
(* that calls the application is a list of steps in `todo`, and the         *)
(* application's code runs after those that call it. An offer and its MIME  *)
(* types come as one event; text is counted in pieces of what one poll()    *)
(* reads (64 KiB).                                                          *)
(***************************************************************************)
EXTENDS Integers, Sequences, SequencesExt

CONSTANTS
  Kinds,         \* the selections
  MaxReads,      \* bound on the reads the application asks for
  MaxEvents,     \* bound on the events of the compositor and of the application
  MaxTransfers,  \* 8
  MaxPieces,     \* ClipboardTransfer::MaxBytes
  MaxSent        \* bound on what a source writes

ASSUME TransferAssumption ==
  {MaxReads, MaxEvents, MaxTransfers, MaxPieces, MaxSent} \subseteq Nat

Reads  == 1..MaxReads
Offers == 1..MaxEvents
None   == 0

VARIABLES
  selection,   \* kind -> what the client knows of it
  owner,       \* kind -> who has it: the client's source, Other or None
  inbox,       \* the compositor's events on their way
  offers,      \* the wl_data_offer objects that are not destroyed
  reads,       \* read -> what became of it
  transfers,   \* clipboard_transfers_
  drag,        \* the drag over the window, and the transfer of its drop
  hand,        \* the offer poll_drag_transfer() detached
  dragging,    \* the compositor's drag is over the window
  window,      \* the window exists
  inside,      \* history: the window was told of a drag and not yet of its end
  unpaired,    \* history: the window was told of one without the other
  todo,        \* the steps left of the handler
  events       \* counts the events, against the bound; gives offers and sources names

dragVars == <<drag, hand, dragging, window, inside, unpaired>>
vars == <<selection, owner, inbox, offers, reads, transfers, dragVars, todo, events>>

-----------------------------------------------------------------------------
Other == -1

\* A pipe, its writer's and its reader's side. late: the deadline has passed.
NewPipe == [sent |-> 0, closed |-> FALSE, got |-> 0, late |-> FALSE]

NoDrag == [offer |-> None, over |-> FALSE, typed |-> FALSE, dropped |-> FALSE,
           copy |-> FALSE, pipe |-> <<>>]

Nothing == [offer |-> None, over |-> FALSE, whole |-> FALSE]

NoRead == [at |-> "unused", kind |-> "none", offer |-> None, text |-> 0]

\* owns: owns_clipboard_; source, offer: the protocol objects; readable: the offer has
\* a text type; generation: clipboard_generation_.
Init ==
  /\ selection = [kind \in Kinds |-> [owns |-> FALSE, source |-> None, offer |-> None,
                                      readable |-> FALSE, generation |-> 0]]
  /\ owner = [kind \in Kinds |-> None]
  /\ inbox = <<>>
  /\ offers = {}
  /\ reads = [r \in Reads |-> NoRead]
  /\ transfers = <<>>
  /\ drag = NoDrag
  /\ hand = Nothing
  /\ dragging = FALSE
  /\ window = TRUE
  /\ inside = FALSE
  /\ unpaired = FALSE
  /\ todo = <<>>
  /\ events = 0

Event == events < MaxEvents /\ events' = events + 1

\* The offer or source an event brings.
Fresh == events + 1

-----------------------------------------------------------------------------
(***************************************************************************)
(* ClipboardTransfer.                                                       *)
(***************************************************************************)
\* One poll() of a read: it gives up at the deadline, whatever has come; it reads a
\* piece, too much of which is a failure; it succeeds at the end of the stream.
TooLong(pipe) == pipe.got < pipe.sent /\ pipe.got = MaxPieces
AtEnd(pipe)   == pipe.closed /\ pipe.got = pipe.sent

\* Mutant: the deadline is not looked at.
EndsByWriter(pipe) == TooLong(pipe) \/ AtEnd(pipe)

Ends(pipe)    == pipe.late \/ TooLong(pipe) \/ AtEnd(pipe)

Succeeds(pipe) == ~pipe.late /\ AtEnd(pipe)

Advance(pipe) == IF pipe.got < pipe.sent THEN [pipe EXCEPT !.got = @ + 1] ELSE pipe

\* Mutant: what had come by then.
TakePartialText(pipe) == pipe.got

\* take_text(): nothing of a transfer that did not succeed.
TakeText(pipe) == IF Succeeds(pipe) THEN pipe.got ELSE 0

-----------------------------------------------------------------------------
(***************************************************************************)
(* The application's code. It runs as an input handler, a task, a timer, or *)
(* in a call of a handler, which goes on with the step after it.            *)
(***************************************************************************)

InUserCode ==
  \A i \in DOMAIN todo : i = 1 => todo[i][1] \in {"reset", "destroy", "answer"}

\* receive_offer_fd() of a selection without a readable offer fails; the transfer then
\* fails when it is polled.
CanReceive(kind) == selection[kind].offer # None /\ selection[kind].readable

\* read_clipboard_text_async(): what the client owns, and a refusal, come at once.
ReadAsync(kind) ==
  /\ Event
  /\ \E r \in Reads :
    /\ reads[r].at = "unused"
    /\ \A other \in 1..(r - 1) : reads[other].at # "unused"
    /\ LET read == [at |-> "pending", kind |-> kind, offer |-> selection[kind].offer,
                    text |-> 0]
       IN IF selection[kind].owns \/ Len(transfers) >= MaxTransfers
          THEN /\ reads' = [reads EXCEPT ![r] = [read EXCEPT !.at = "answered"]]
               /\ UNCHANGED transfers
          ELSE /\ reads' = [reads EXCEPT ![r] = read]
               /\ transfers' = Append(transfers,
                    [read |-> r, kind |-> kind, generation |-> selection[kind].generation,
                     failed |-> ~CanReceive(kind), pipe |-> NewPipe])
  /\ UNCHANGED <<selection, owner, inbox, offers, dragVars, todo>>

\* set_clipboard_text(): the old source goes, and with it the selection it held. The
\* compositor may refuse the new one, or was never asked, for want of an input serial.
\* It announces a new selection to a client that has the keyboard focus.
SetText(kind, empty, accepted, announced) ==
  /\ Event
  /\ announced => accepted
  /\ selection' = [selection EXCEPT ![kind].owns = ~empty,
                                    ![kind].source = IF empty THEN None ELSE Fresh]
  /\ owner' = [owner EXCEPT ![kind] =
       IF accepted THEN IF empty THEN None ELSE Fresh
       ELSE IF @ # None /\ @ = selection[kind].source THEN None ELSE @]
  /\ inbox' = IF announced
              THEN Append(inbox, <<"selection", kind, IF empty THEN None ELSE Fresh, ~empty>>)
              ELSE inbox
  /\ UNCHANGED <<offers, reads, transfers, dragVars, todo>>

\* forget_surface(), as the window is destroyed.
CloseWindow ==
  /\ window
  /\ window' = FALSE
  /\ inside' = FALSE
  /\ IF drag.over THEN drag' = NoDrag /\ offers' = offers \ {drag.offer}
     ELSE UNCHANGED <<drag, offers>>
  /\ UNCHANGED <<selection, owner, inbox, reads, transfers, hand, dragging, unpaired, todo,
                 events>>

-----------------------------------------------------------------------------
(***************************************************************************)
(* The compositor and the other programs.                                   *)
(***************************************************************************)

\* Another program takes the selection: the client's source is cancelled, and a client
\* with the focus gets the new offer, in either order.
OtherTakes(kind, readable, announced, first) ==
  /\ Event
  /\ owner' = [owner EXCEPT ![kind] = Other]
  /\ LET cancelled == IF owner[kind] > 0 THEN << <<"cancelled", kind, owner[kind]>> >> ELSE <<>>
         offer == IF announced THEN << <<"selection", kind, Fresh, readable>> >> ELSE <<>>
     IN inbox' = inbox \o (IF first THEN offer \o cancelled ELSE cancelled \o offer)
  /\ UNCHANGED <<selection, offers, reads, transfers, dragVars, todo>>

\* The focus comes to the client: a fresh offer for whatever is selected, or none.
Announce(kind, readable) ==
  /\ Event
  /\ inbox' = Append(inbox, IF owner[kind] = None THEN <<"selection", kind, None, FALSE>>
                            ELSE <<"selection", kind, Fresh, readable>>)
  /\ UNCHANGED <<selection, owner, offers, reads, transfers, dragVars, todo>>

\* Another program pastes what the client selected.
RequestSend(kind) ==
  /\ owner[kind] > 0
  /\ Event
  /\ inbox' = Append(inbox, <<"send", kind, owner[kind]>>)
  /\ UNCHANGED <<selection, owner, offers, reads, transfers, dragVars, todo>>

\* A drag enters the window, with a type that is understood or not; the compositor
\* chooses the action that was asked for or none.
DragEnter(typed, copy) ==
  /\ ~dragging
  /\ Event
  /\ dragging' = TRUE
  /\ inbox' = inbox \o << <<"enter", Fresh, typed>>, <<"action", Fresh, copy>> >>
  /\ UNCHANGED <<selection, owner, offers, reads, transfers, drag, hand, window, inside,
                 unpaired, todo>>

DragMotion ==
  /\ dragging
  /\ Event
  /\ inbox' = Append(inbox, <<"motion">>)
  /\ UNCHANGED <<selection, owner, offers, reads, transfers, dragVars, todo>>

\* It leaves, or is dropped; a drop may be followed by a leave.
DragEnd(sequence) ==
  /\ dragging
  /\ Event
  /\ dragging' = FALSE
  /\ inbox' = inbox \o sequence
  /\ UNCHANGED <<selection, owner, offers, reads, transfers, drag, hand, window, inside,
                 unpaired, todo>>

\* The other end of a pipe writes, or closes its end. What it does after the deadline
\* makes no difference.
Moved(pipe) ==
  IF pipe.closed \/ pipe.late THEN {}
  ELSE {[pipe EXCEPT !.closed = TRUE]}
         \cup (IF pipe.sent < MaxSent THEN {[pipe EXCEPT !.sent = @ + 1]} ELSE {})

Expired(pipe) ==
  IF pipe.late THEN {} ELSE {[pipe EXCEPT !.late = TRUE, !.sent = pipe.got]}

After(pipe, cause) == IF cause = "peer" THEN Moved(pipe) ELSE Expired(pipe)

PipeMoves(cause) ==
  \/ /\ \E i \in DOMAIN transfers :
          /\ ~transfers[i].failed
          /\ \E pipe \in After(transfers[i].pipe, cause) :
               /\ transfers[i].read = None => pipe.sent = 0
               /\ transfers' = [transfers EXCEPT ![i].pipe = pipe]
     /\ UNCHANGED <<selection, owner, inbox, offers, reads, dragVars, todo, events>>
  \/ /\ drag.pipe # <<>>
     /\ \E pipe \in After(drag.pipe[1], cause) : drag' = [drag EXCEPT !.pipe = <<pipe>>]
     /\ UNCHANGED <<selection, owner, inbox, offers, reads, transfers, hand, dragging, window,
                    inside, unpaired, todo, events>>

PeerStep == PipeMoves("peer")

\* Two seconds pass.
Timeout == PipeMoves("clock")

-----------------------------------------------------------------------------
(***************************************************************************)
(* The compositor's events at the client.                                   *)
(***************************************************************************)

\* The next event; one for an object that was destroyed is not delivered.
Receive(name) ==
  /\ todo = <<>>
  /\ inbox # <<>>
  /\ Head(inbox)[1] = name
  /\ inbox' = Tail(inbox)

\* Mutant: reads of the old offer go on.
HandleSelectionSilently ==
  /\ Receive("selection")
  /\ LET kind == Head(inbox)[2]
         offer == Head(inbox)[3]
     IN /\ selection' = [selection EXCEPT ![kind].offer = offer,
                                          ![kind].readable = Head(inbox)[4]]
        /\ offers' = (offers \ {selection[kind].offer}) \cup ({offer} \ {None})
  /\ UNCHANGED <<owner, reads, transfers, dragVars, todo, events>>

\* clipboard_selection(): reads of the old offer are cancelled by its generation.
HandleSelection ==
  /\ Receive("selection")
  /\ LET kind == Head(inbox)[2]
         offer == Head(inbox)[3]
     IN /\ selection' = [selection EXCEPT ![kind].offer = offer,
                                          ![kind].readable = Head(inbox)[4],
                                          ![kind].generation = @ + 1]
        /\ offers' = (offers \ {selection[kind].offer}) \cup ({offer} \ {None})
  /\ UNCHANGED <<owner, reads, transfers, dragVars, todo, events>>

\* clipboard_source_cancelled()
HandleCancelled ==
  /\ Receive("cancelled")
  /\ LET kind == Head(inbox)[2] IN
     selection' = IF selection[kind].source = Head(inbox)[3]
                  THEN [selection EXCEPT ![kind].owns = FALSE, ![kind].source = None]
                  ELSE selection
  /\ UNCHANGED <<owner, offers, reads, transfers, dragVars, todo, events>>

\* clipboard_source_send(): the pipe is closed at once when there are too many.
HandleSend ==
  /\ Receive("send")
  /\ LET kind == Head(inbox)[2] IN
     transfers' = IF selection[kind].source = Head(inbox)[3] /\ Len(transfers) < MaxTransfers
                  THEN Append(transfers, [read |-> None, kind |-> kind, generation |-> 0,
                                          failed |-> FALSE, pipe |-> NewPipe])
                  ELSE transfers
  /\ UNCHANGED <<selection, owner, offers, reads, dragVars, todo, events>>

\* reset_drag_offer()
Reset(notify) == (IF notify THEN << <<"tell", "Leave">> >> ELSE <<>>) \o << <<"reset">> >>

\* clipboard_enter()
HandleEnter ==
  /\ Receive("enter")
  /\ todo' = Reset(TRUE)
               \o << <<"begin", Head(inbox)[2], Head(inbox)[3]>>, <<"tell", "Enter">> >>
  /\ offers' = offers \cup {Head(inbox)[2]}
  /\ UNCHANGED <<selection, owner, reads, transfers, dragVars, events>>

\* clipboard_offer_action()
HandleAction ==
  /\ Receive("action")
  /\ drag' = IF drag.offer = Head(inbox)[2] THEN [drag EXCEPT !.copy = Head(inbox)[3]] ELSE drag
  /\ UNCHANGED <<selection, owner, offers, reads, transfers, hand, dragging, window, inside,
                 unpaired, todo, events>>

HandleMotion ==
  /\ Receive("motion")
  /\ todo' = << <<"tell", "Motion">> >>
  /\ UNCHANGED <<selection, owner, offers, reads, transfers, dragVars, events>>

\* Mutant: the leave ends the drop.
HandleLeaveAlways ==
  /\ Receive("leave")
  /\ todo' = << <<"reset">> >>
  /\ UNCHANGED <<selection, owner, offers, reads, transfers, dragVars, events>>

\* clipboard_leave(): a drop outlives the leave that follows it.
HandleLeave ==
  /\ Receive("leave")
  /\ todo' = IF drag.dropped THEN <<>> ELSE Reset(TRUE)
  /\ UNCHANGED <<selection, owner, offers, reads, transfers, dragVars, events>>

\* clipboard_drop(): what cannot be taken is let go; the pipe may be refused.
HandleDrop(piped) ==
  /\ Receive("drop")
  /\ IF drag.over /\ drag.typed /\ drag.copy /\ piped
     THEN /\ drag' = [drag EXCEPT !.dropped = TRUE, !.pipe = <<NewPipe>>]
          /\ UNCHANGED todo
     ELSE /\ todo' = Reset(TRUE)
          /\ UNCHANGED drag
  /\ UNCHANGED <<selection, owner, offers, reads, transfers, hand, dragging, window, inside,
                 unpaired, events>>

-----------------------------------------------------------------------------
(***************************************************************************)
(* The steps of the handlers.                                               *)
(***************************************************************************)
Doing(step) == todo # <<>> /\ Head(todo)[1] = step

\* The window is told; history keeps the account.
Tell(type) ==
  /\ inside' = (type \in {"Enter", "Motion"})
  /\ unpaired' = (unpaired \/ (inside <=> type = "Enter"))

\* dispatch_drag_event()
TellDrag ==
  /\ Doing("tell")
  /\ IF drag.over /\ drag.typed THEN Tell(Head(todo)[2]) ELSE UNCHANGED <<inside, unpaired>>
  /\ todo' = Tail(todo)
  /\ UNCHANGED <<selection, owner, inbox, offers, reads, transfers, drag, hand, dragging,
                 window, events>>

ResetDrag ==
  /\ Doing("reset")
  /\ drag' = NoDrag
  /\ offers' = offers \ {drag.offer}
  /\ todo' = Tail(todo)
  /\ UNCHANGED <<selection, owner, inbox, reads, transfers, hand, dragging, window, inside,
                 unpaired, events>>

\* The surface of a window destroyed meanwhile is not found, and its types not looked at.
BeginDrag ==
  /\ Doing("begin")
  /\ drag' = [NoDrag EXCEPT !.offer = Head(todo)[2], !.over = window,
                            !.typed = window /\ Head(todo)[3]]
  /\ todo' = Tail(todo)
  /\ UNCHANGED <<selection, owner, inbox, offers, reads, transfers, hand, dragging, window,
                 inside, unpaired, events>>

\* poll_clipboard_transfers(), when there is something to poll.
Poll ==
  /\ todo = <<>>
  /\ transfers # <<>> \/ drag.pipe # <<>>
  /\ todo' = << <<"poll drag">>, <<"poll", 1>> >>
  /\ UNCHANGED <<selection, owner, inbox, offers, reads, transfers, dragVars, events>>

\* Mutant: the drag is let go after the application was told.
PollDragAttached(decodes) ==
  /\ Doing("poll drag")
  /\ IF drag.pipe # <<>> /\ Ends(drag.pipe[1])
     THEN /\ hand' = [offer |-> drag.offer, over |-> drag.over,
                      whole |-> Succeeds(drag.pipe[1]) /\ decodes]
          /\ drag' = [drag EXCEPT !.pipe = <<>>]
          /\ todo' = << <<"tell drop">> >> \o Tail(todo)
     ELSE /\ drag' = IF drag.pipe # <<>> THEN [drag EXCEPT !.pipe = <<Advance(@[1])>>] ELSE drag
          /\ todo' = Tail(todo)
          /\ UNCHANGED hand
  /\ UNCHANGED <<selection, owner, inbox, offers, reads, transfers, dragging, window, inside,
                 unpaired, events>>

\* poll_drag_transfer(): the offer is detached before the application is told; what
\* came may not decode.
PollDrag(decodes) ==
  /\ Doing("poll drag")
  /\ IF drag.pipe # <<>> /\ Ends(drag.pipe[1])
     THEN /\ hand' = [offer |-> drag.offer, over |-> drag.over,
                      whole |-> Succeeds(drag.pipe[1]) /\ decodes]
          /\ drag' = [NoDrag EXCEPT !.copy = drag.copy]
          /\ todo' = << <<"tell drop">> >> \o Tail(todo)
     ELSE /\ drag' = IF drag.pipe # <<>> THEN [drag EXCEPT !.pipe = <<Advance(@[1])>>] ELSE drag
          /\ todo' = Tail(todo)
          /\ UNCHANGED hand
  /\ UNCHANGED <<selection, owner, inbox, offers, reads, transfers, dragging, window, inside,
                 unpaired, events>>

\* Drop with the data, or Leave without.
TellDrop ==
  /\ Doing("tell drop")
  /\ IF hand.over THEN Tell(IF hand.whole THEN "Drop" ELSE "Leave")
     ELSE UNCHANGED <<inside, unpaired>>
  /\ todo' = << <<"destroy">> >> \o Tail(todo)
  /\ UNCHANGED <<selection, owner, inbox, offers, reads, transfers, drag, hand, dragging,
                 window, events>>

\* The offer is finished when the application took it, and destroyed.
DestroyHand ==
  /\ Doing("destroy")
  /\ offers' = offers \ {hand.offer}
  /\ hand' = Nothing
  /\ todo' = Tail(todo)
  /\ UNCHANGED <<selection, owner, inbox, reads, transfers, drag, dragging, window, inside,
                 unpaired, events>>

Cancelled(transfer) ==
  transfer.read # None /\ transfer.generation # selection[transfer.kind].generation

\* A write ends when its reader has it all or is gone, or at the deadline.
Completes(transfer) ==
  \/ Cancelled(transfer) \/ transfer.failed
  \/ IF transfer.read = None THEN transfer.pipe.closed \/ transfer.pipe.late
     ELSE Ends(transfer.pipe)

\* The transfer the loop of poll_clipboard_transfers() is at.
Current == Head(todo)[2]

Text(transfer) ==
  IF Cancelled(transfer) \/ transfer.failed THEN 0 ELSE TakeText(transfer.pipe)

\* A complete transfer goes; its callback is called after the loop, with the text.
EraseTransfer ==
  /\ Doing("poll")
  /\ Current \in DOMAIN transfers
  /\ LET transfer == transfers[Current] IN
     /\ Completes(transfer)
     /\ transfers' = RemoveAt(transfers, Current)
     /\ IF transfer.read = None THEN UNCHANGED <<reads, todo>>
        ELSE /\ reads' = [reads EXCEPT ![transfer.read].at = "complete",
                                       ![transfer.read].text = Text(transfer)]
             /\ todo' = Append(todo, <<"answer", transfer.read>>)
  /\ UNCHANGED <<selection, owner, inbox, offers, dragVars, events>>

KeepTransfer ==
  /\ Doing("poll")
  /\ Current \in DOMAIN transfers
  /\ ~Completes(transfers[Current])
  /\ transfers' = IF transfers[Current].read = None THEN transfers
                  ELSE [transfers EXCEPT ![Current].pipe = Advance(@)]
  /\ todo' = << <<"poll", Current + 1>> >> \o Tail(todo)
  /\ UNCHANGED <<selection, owner, inbox, offers, reads, dragVars, events>>

PollEnd ==
  /\ Doing("poll")
  /\ Current \notin DOMAIN transfers
  /\ todo' = Tail(todo)
  /\ UNCHANGED <<selection, owner, inbox, offers, reads, transfers, dragVars, events>>

\* callback(text)
Answer ==
  /\ Doing("answer")
  /\ reads' = [reads EXCEPT ![Head(todo)[2]].at = "answered"]
  /\ todo' = Tail(todo)
  /\ UNCHANGED <<selection, owner, inbox, offers, transfers, dragVars, events>>

-----------------------------------------------------------------------------
UserStep ==
  /\ InUserCode
  /\ \/ CloseWindow
     \/ \E kind \in Kinds :
          \/ ReadAsync(kind)
          \/ \E empty, accepted, announced \in BOOLEAN :
               SetText(kind, empty, accepted, announced)

DesktopStep ==
  \/ DragMotion
  \/ \E typed, copy \in BOOLEAN : DragEnter(typed, copy)
  \/ \E sequence \in {<< <<"leave">> >>, << <<"drop">> >>, << <<"drop">>, <<"leave">> >>} :
       DragEnd(sequence)
  \/ \E kind \in Kinds, readable \in BOOLEAN :
       \/ Announce(kind, readable)
       \/ \E announced, first \in BOOLEAN : OtherTakes(kind, readable, announced, first)
  \/ \E kind \in Kinds : RequestSend(kind)

HandlerStep ==
  \/ HandleSelection \/ HandleCancelled \/ HandleSend
  \/ HandleEnter \/ HandleAction \/ HandleMotion \/ HandleLeave
  \/ \E piped \in BOOLEAN : HandleDrop(piped)

LoopStep ==
  \/ TellDrag \/ ResetDrag \/ BeginDrag
  \/ \E decodes \in BOOLEAN : PollDrag(decodes)
  \/ TellDrop \/ DestroyHand
  \/ EraseTransfer \/ KeepTransfer \/ PollEnd \/ Answer

Next == UserStep \/ DesktopStep \/ PeerStep \/ Timeout \/ HandlerStep \/ Poll \/ LoopStep

\* A turn of the loop comes to the poll and finishes what it began; the clock goes on. A
\* source owes no data.
Spec == Init /\ [][Next]_vars /\ WF_vars(LoopStep) /\ WF_vars(Poll) /\ WF_vars(Timeout)

-----------------------------------------------------------------------------
Pipes == [sent : 0..MaxSent, closed : BOOLEAN, got : 0..MaxPieces, late : BOOLEAN]

\* The offer of the drag that clipboard_enter() is about to note.
Begun == {step[2] : step \in {s \in ToSet(todo) : s[1] = "begin"}}

HeldOffers ==
  {selection[kind].offer : kind \in Kinds} \cup {drag.offer, hand.offer} \cup Begun

\* The shape of the state. The offers that exist are those some part of the client
\* holds: none is leaked, none is held or destroyed once it is gone.
TypeOK ==
  /\ selection \in [Kinds -> [owns : BOOLEAN, source : 0..MaxEvents, offer : 0..MaxEvents,
                              readable : BOOLEAN, generation : Nat]]
  /\ owner \in [Kinds -> {Other} \cup 0..MaxEvents]
  /\ offers = HeldOffers \ {None}
  /\ reads \in [Reads -> [at : {"unused", "pending", "complete", "answered"},
                          kind : Kinds \cup {"none"}, offer : 0..MaxEvents, text : 0..MaxPieces]]
  /\ transfers \in Seq([read : 0..MaxReads, kind : Kinds, generation : Nat,
                        failed : BOOLEAN, pipe : Pipes])
  /\ Len(transfers) <= MaxTransfers
  /\ drag \in [offer : 0..MaxEvents, over : BOOLEAN, typed : BOOLEAN, dropped : BOOLEAN,
               copy : BOOLEAN, pipe : {<<>>} \cup [1..1 -> Pipes]]
  /\ drag.over => window
  /\ hand \in [offer : 0..MaxEvents, over : BOOLEAN, whole : BOOLEAN]
  /\ {dragging, window, inside, unpaired} \subseteq BOOLEAN
  /\ events \in 0..MaxEvents

TransferOf(r) == CHOOSE t \in ToSet(transfers) : t.read = r

\* A read that brings text brings all that the source of the offer it was asked of has
\* written and closed, and that offer is still the selection: a deadline, the size bound
\* or a newer selection never leaves a part of it, or an old text.
AnswersAreComplete ==
  [][\A r \in Reads :
       (reads[r].at = "pending" /\ reads'[r].at = "complete" /\ reads'[r].text # 0)
         => /\ TransferOf(r).pipe.closed
            /\ reads'[r].text = TransferOf(r).pipe.sent
            /\ reads[r].offer = selection[reads[r].kind].offer]_vars

\* The window hears of the end of every drag it was told of before it hears of the next,
\* and of no end without a drag: by a leave, a drop, a drop that could not be taken, or
\* a second drag over an unfinished drop.
DragEventsPair == ~unpaired /\ (inside => drag.over \/ hand.over)

\* Every read is answered and every drop ends, whatever the other program does.
TransfersEnd ==
  /\ \A r \in Reads : reads[r].at = "pending" ~> reads[r].at = "answered"
  /\ drag.dropped ~> (~drag.dropped /\ hand = Nothing)
=============================================================================
