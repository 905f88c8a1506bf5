----------------------------- MODULE SessionSpan -----------------------------
(***************************************************************************)
(* RejillaSessionSpan (rejilla-session-span.c): a session too large for a  *)
(* disc is burnt on several, a batch at a time.  With it the spanning of a *)
(* data project (rejilla-data-project.c), the tracks and the pile of the   *)
(* session, and the two windows and the dialog that drive it:              *)
(* rejilla-burn-options.c, rejilla-project.c and rejilla-burn-dialog.c.    *)
(*                                                                         *)
(* What is burnt are items: the songs of a session, or the files and       *)
(* folders at the top of a data project.                                   *)
(***************************************************************************)
EXTENDS Integers, Sequences, FiniteSets, FiniteSetsExt

CONSTANTS
  NumItems,      \* items of the session
  MaxSize,       \* bound: sectors of an item
  Spaces,        \* the room there may be on a disc, 0 for none
  Overhead,      \* sectors the file system of a data disc takes
  MaxCopies,     \* bound: priv->num_copies
  Inputs         \* what is known to go wrong and is allowed to happen

Allowed == {"small", "reoffer", "project", "copies"}

ASSUME SpanAssumption ==
  /\ NumItems \in Nat \ {0}
  /\ MaxSize \in Nat \ {0}
  /\ Spaces \subseteq Nat
  /\ Overhead \in Nat
  /\ MaxCopies \in Nat
  /\ Inputs \subseteq Allowed

Items == 1 .. NumItems

VARIABLES
  kind,          \* "stream": a track for each item, "data": a track for all
  size,          \* sectors of the items
  window,        \* where the session is edited: "options" or "main"
  session,       \* the RejillaSessionCfg
  space,         \* the room on the disc in the burner
  pc,            \* what the user sees
  num_copies,    \* priv->num_copies of the dialog
  burnt          \* ghost: the batches burnt for this copy

vars == << kind, size, window, session, space, pc, num_copies, burnt >>

Track(cfg, items) == [cfg |-> cfg, items |-> items]

(* The session as its owner made it. *)
Whole == IF kind = "stream" THEN [i \in Items |-> Track(FALSE, {i})]
                            ELSE << Track(TRUE, Items) >>

Sectors(items) == MapThenSumSet(LAMBDA i : size[i], items)

(* rejilla_burn_session_get_size *)
SessionSize(s) ==
  LET used == Sectors(UNION {s.tracks[k].items : k \in DOMAIN s.tracks}) IN
  IF kind = "data" THEN used + Overhead ELSE used

(***************************************************************************)
(* The session: RejillaBurnSession's tracks.                               *)
(***************************************************************************)
PushTracks(s) == [s EXCEPT !.tracks = <<>>, !.pile_tracks = << s.tracks >> \o @]

PopTracks(s) ==
  IF s.pile_tracks = <<>> THEN s
  ELSE [s EXCEPT !.tracks = Head(s.pile_tracks), !.pile_tracks = Tail(@)]

(* Fault: only the list on the top of the pile is given back. *)
PopOnce(s) == PopTracks(s)

(* The loop of rejilla_project_burn: pop until there is nothing on the pile. *)
PopAll(s) ==
  IF s.pile_tracks = <<>> THEN s
  ELSE [s EXCEPT !.tracks = s.pile_tracks[Len(s.pile_tracks)], !.pile_tracks = <<>>]

(***************************************************************************)
(* The data project, whose spanned top nodes are remembered.               *)
(***************************************************************************)
LeftOver(s) == Items \ s.spanned

DataMaxSpace(s) == IF LeftOver(s) = {} THEN 0 ELSE Max({size[i] : i \in LeftOver(s)})

DataPossible(s, max) ==
  CASE \E i \in LeftOver(s) : size[i] < max -> "RETRY"
    [] LeftOver(s) # {} /\ \A i \in LeftOver(s) : size[i] >= max -> "ERR"
    [] OTHER -> "OK"

DataAgain(s) == IF LeftOver(s) # {} THEN "RETRY" ELSE "OK"

(* The nodes in their order, each of them if there is still room for it. *)
DataBatch(s, max) ==
  LET taken[i \in 0 .. NumItems] ==
        IF i = 0 THEN {}
        ELSE IF i \in LeftOver(s) /\ Sectors(taken[i - 1]) + size[i] <= max
             THEN taken[i - 1] \cup {i}
             ELSE taken[i - 1]
  IN  taken[NumItems]

(***************************************************************************)
(* RejillaSessionSpan.  last_track is the position in track_list, 0 if it  *)
(* is NULL.                                                                *)
(***************************************************************************)
(* Where max_space and possible start. *)
Remaining(s) ==
  CASE s.last_track # 0      -> SubSeq(s.track_list, s.last_track + 1, Len(s.track_list))
    [] s.last_track = 0 /\ s.track_list # <<>> -> s.track_list
    [] OTHER                 -> s.tracks

MaxSpace(s) ==
  LET left == Remaining(s) IN
  CASE left = <<>>    -> 0
    [] left # <<>> /\ Head(left).cfg -> DataMaxSpace(s)
    [] OTHER          -> Max({Sectors(left[k].items) : k \in DOMAIN left})

SpanPossible(s, max) ==
  LET left == Remaining(s) IN
  CASE max = 0 -> "ERR"
    [] max # 0 /\ left = <<>> -> IF s.last_track # 0 THEN "OK" ELSE "ERR"
    [] max # 0 /\ left # <<>> /\ Head(left).cfg -> DataPossible(s, max)
    [] OTHER -> IF Sectors(Head(left).items) >= max THEN "ERR" ELSE "RETRY"

SpanAgain(s) ==
  CASE s.track_list = <<>> -> "OK"
    [] s.track_list # <<>> /\ s.last_track # 0 ->
         IF s.last_track = Len(s.track_list) THEN "OK" ELSE "RETRY"
    [] OTHER -> IF Head(s.track_list).cfg THEN DataAgain(s) ELSE "RETRY"

SpanStart(s) == [s EXCEPT !.track_list = s.tracks, !.last_track = 0]

(* Fault: the nodes of a batch are not remembered. *)
NextOfDataForgets(s, max) ==
  LET batch == DataBatch(s, max) IN
  IF batch = {} THEN [result |-> "OK", session |-> s]
  ELSE [result |-> "RETRY", session |-> [PushTracks(s) EXCEPT !.tracks = << Track(FALSE, batch) >>]]

(* rejilla_track_data_cfg_span and what span_next makes of its answer *)
NextOfData(s, max) ==
  LET batch == DataBatch(s, max) IN
  IF batch = {} THEN [result |-> "OK", session |-> s]
  ELSE [result  |-> "RETRY",
        session |-> [PushTracks(s) EXCEPT !.tracks = << Track(FALSE, batch) >>,
                                          !.spanned = @ \cup batch]]

(* The tracks from the first one on, as long as there is room left. *)
NextOfStreams(s, first, max) ==
  LET list  == s.track_list
      fits  == {k \in first .. Len(list) :
                  Sectors(UNION {list[m].items : m \in first .. k}) < max}
      final == Max(fits)
      reset == [s EXCEPT !.last_track = 0]
  IN  IF fits = {} THEN [result |-> "ERR", session |-> reset]
      ELSE [result  |-> "RETRY",
            session |-> [PushTracks(s) EXCEPT !.tracks = SubSeq(list, first, final),
                                              !.last_track = final]]

SpanNext(s, max) ==
  CASE s.track_list = <<>> \/ max = 0 -> [result |-> "ERR", session |-> s]
    [] s.track_list # <<>> /\ max # 0 /\ s.last_track = Len(s.track_list) ->
         [result |-> "OK", session |-> [s EXCEPT !.last_track = 0, !.track_list = <<>>]]
    [] OTHER ->
         IF s.track_list[s.last_track + 1].cfg THEN NextOfData(s, max)
         ELSE NextOfStreams(s, s.last_track + 1, max)

(* Fault: the last track taken outlives the spanning. *)
SpanStopLate(s) == [s EXCEPT !.track_list = <<>>]

(* The project is told only if no track was the last one taken. *)
SpanStop(s) ==
  [s EXCEPT !.spanned = IF s.last_track = 0 /\ s.track_list # <<>> /\ Head(s.track_list).cfg
                        THEN {} ELSE @,
            !.last_track = 0,
            !.track_list = <<>>]

(***************************************************************************)
(* The configuration: rejilla_session_cfg_check_size, run on each change,  *)
(* and what the windows make of it (the callbacks of "is-valid"): whether  *)
(* several discs are proposed.  Asking may end the list of tracks.         *)
(***************************************************************************)
Checked(s, max) ==
  LET valid == SessionSize(s) < max
      asked == ~valid /\ max > MaxSpace(s)
      ended == asked /\ max # 0 /\ s.last_track # 0 /\ Remaining(s) = <<>>
  IN  IF s.disabled THEN s
      ELSE [s EXCEPT !.is_valid = valid,
                     !.offered  = asked /\ SpanPossible(s, max) = "RETRY",
                     !.track_list = IF ended THEN <<>> ELSE @]

NewSession(max) ==
  Checked([tracks |-> Whole, pile_tracks |-> <<>>, track_list |-> <<>>, last_track |-> 0,
           spanned |-> {}, disabled |-> FALSE, is_valid |-> FALSE, offered |-> FALSE], max)

Init ==
  /\ kind \in {"stream", "data"}
  /\ size \in [Items -> 1 .. MaxSize]
  /\ window \in {"options", "main"}
  /\ space \in Spaces
  /\ session = NewSession(space)
  /\ pc = "edit"
  /\ num_copies = 0
  /\ burnt = <<>>

fixed == << kind, size, window >>

-----------------------------------------------------------------------------
(* The windows.                                                              *)

(* Another disc, or none, while the session is edited. *)
ChangeDisc(room) ==
  /\ pc = "edit"
  /\ room # space
  /\ space' = room
  /\ session' = Checked(session, room)
  /\ UNCHANGED << fixed, pc, num_copies, burnt >>

(* rejilla_burn_options_message_response_span_cb *)
SpanFromOptions ==
  /\ pc = "edit"
  /\ window = "options"
  /\ session.offered
  /\ session.pile_tracks = <<>> \/ "reoffer" \in Inputs
  /\ session' = Checked(SpanNext(SpanStart(session), space).session, space)
  /\ UNCHANGED << fixed, space, pc, num_copies, burnt >>

(* rejilla_project_message_response_span_cb: the first batch is not taken.   *)
SpanFromMain ==
  /\ pc = "edit"
  /\ window = "main"
  /\ session.offered
  /\ "project" \in Inputs
  /\ session' = SpanStart(session)
  /\ UNCHANGED << fixed, space, pc, num_copies, burnt >>

(* rejilla_project_burn and rejilla_app_session_burn, up to the loop of
   rejilla_burn_dialog_run_real.                                             *)
Burn(multi) ==
  /\ pc = "edit"
  /\ session.is_valid
  /\ multi => (session.pile_tracks = <<>> /\ session.track_list = <<>>) \/ "copies" \in Inputs
  /\ session' = [session EXCEPT !.disabled = TRUE]
  /\ num_copies' = IF multi THEN 1 ELSE 0
  /\ burnt' = <<>>
  /\ pc' = "record"
  /\ UNCHANGED << fixed, space >>

-----------------------------------------------------------------------------
(* The dialog: rejilla_burn_dialog_record_spanned_session.                   *)

ItemsOf(s) == UNION {s.tracks[k].items : k \in DOMAIN s.tracks}

(* The end of the dialog: rejilla_project_burn gives the session back its
   tracks, that of the options is dropped, and others are opened later.       *)
Finish(s) ==
  /\ session' = IF window = "main" THEN PopAll(s) ELSE NewSession(space')
  /\ pc' = "edit"
  /\ UNCHANGED << fixed, num_copies, burnt >>

RecordOk ==
  /\ pc = "record"
  /\ burnt' = Append(burnt, ItemsOf(session))
  /\ \/ /\ SpanAgain(session) = "OK"
        /\ session' = SpanStop(session)
        /\ pc' = "success"
     \/ /\ SpanAgain(session) = "RETRY"
        /\ session' = session
        /\ pc' = "insert"
  /\ UNCHANGED << fixed, space, num_copies >>

(* An error, or the user cancels: the spanning is not stopped. *)
RecordFails ==
  /\ pc = "record"
  /\ space' = space
  /\ Finish(session)

(* Whether something of what is left fits on the disc. *)
FitsNext(room) ==
  IF Head(session.track_list).cfg
  THEN \E i \in LeftOver(session) : size[i] <= room
  ELSE Sectors(session.track_list[session.last_track + 1].items) < room

(* rejilla_burn_dialog_wait_for_insertion, then rejilla_session_span_next; a
   disc without room is ejected and another one asked for.                   *)
InsertDisc(room) ==
  /\ pc = "insert"
  /\ room = 0 \/ FitsNext(room) \/ "small" \in Inputs
  /\ LET next == SpanNext(session, room) IN
     /\ session' = IF next.result = "OK" THEN SpanStop(next.session) ELSE next.session
     /\ space'   = IF next.result = "ERR" THEN 0 ELSE room
     /\ pc'      = CASE next.result = "RETRY" -> "record"
                     [] next.result = "OK"    -> "success"
                     [] next.result = "ERR"   -> "insert"
  /\ UNCHANGED << fixed, num_copies, burnt >>

(* Fault: the answer of the second dialog is not looked at. *)
AskAgain == pc = "insert" /\ space # 0 /\ space' = 0 /\ Finish(session)

GiveUp ==
  /\ pc = "insert"
  /\ space' = space
  /\ Finish(session)

(* rejilla_burn_dialog_end_session: "Make More Copies", or another disc when
   several copies were asked for.                                            *)
AnotherCopy(room) ==
  /\ pc = "success"
  /\ num_copies < MaxCopies
  /\ session.pile_tracks = <<>> \/ "copies" \in Inputs
  /\ num_copies = 0 => room = space
  /\ num_copies' = IF num_copies = 0 THEN 2 ELSE num_copies + 1
  /\ space' = room
  /\ burnt' = <<>>
  /\ pc' = "record"
  /\ UNCHANGED << fixed, session >>

Close ==
  /\ pc = "success"
  /\ space' = space
  /\ Finish(session)

Next ==
  \/ \E room \in Spaces : ChangeDisc(room)
  \/ SpanFromOptions
  \/ SpanFromMain
  \/ \E multi \in BOOLEAN : Burn(multi)
  \/ RecordOk
  \/ RecordFails
  \/ \E room \in Spaces : InsertDisc(room)
  \/ GiveUp
  \/ \E room \in Spaces : AnotherCopy(room)
  \/ Close

Spec == Init /\ [][Next]_vars

(* A recording ends; a user who is asked for discs that will not do gives up,
   and closes the dialog in the end.                                         *)
FairSpec ==
  /\ Spec
  /\ WF_vars(RecordOk \/ RecordFails)
  /\ WF_vars(GiveUp)
  /\ WF_vars(Close)

-----------------------------------------------------------------------------
Tracks == [cfg : BOOLEAN, items : SUBSET Items]

(* Types of the variables. *)
TypeOK ==
  /\ kind \in {"stream", "data"}
  /\ size \in [Items -> 1 .. MaxSize]
  /\ window \in {"options", "main"}
  /\ space \in Spaces \cup {0}
  /\ pc \in {"edit", "record", "insert", "success"}
  /\ num_copies \in 0 .. MaxCopies + 1
  /\ burnt \in Seq(SUBSET Items)
  /\ session.tracks \in Seq(Tracks)
  /\ session.pile_tracks \in Seq(Seq(Tracks))
  /\ session.track_list \in Seq(Tracks)
  /\ session.last_track \in 0 .. Len(session.track_list)
  /\ session.spanned \subseteq Items

(***************************************************************************)
(* When the dialog says that the session was burnt, every item of it was,  *)
(* whatever discs were inserted between the batches.                       *)
(***************************************************************************)
SuccessIsComplete ==
  pc = "success" => UNION {burnt[k] : k \in DOMAIN burnt} = Items

(***************************************************************************)
(* No item is burnt on two discs, and songs are burnt in their order ("keep *)
(* the order of tracks"), where spanning was asked for in the options.     *)
(***************************************************************************)
BatchesFollow ==
  window = "options" =>
    \A k, m \in DOMAIN burnt : k < m =>
      /\ burnt[k] \cap burnt[m] = {}
      /\ kind = "stream" => \A i \in burnt[k], j \in burnt[m] : i < j

(* Each item is burnt on one disc: BatchesFollow and SuccessIsComplete. *)
EachItemOnce == SuccessIsComplete /\ BatchesFollow

(***************************************************************************)
(* However burning ended, the window has the session it gave, with nothing *)
(* of the batches in it nor on its pile.                                   *)
(***************************************************************************)
SessionIsGivenBack ==
  window = "main" /\ pc = "edit" => session.tracks = Whole /\ session.pile_tracks = <<>>

(* The dialog ends, on however many discs. *)
DialogEnds == pc = "record" ~> pc = "edit"
=============================================================================
