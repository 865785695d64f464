------------------------------ MODULE Captures ------------------------------
(***************************************************************************)
(* Training captures: a device queues clips of speech (capture.Manager,    *)
(* one for the wake word and one for the stop word), uploads them over its *)
(* data connection (runCaptureUploader), the controller parses the frames  *)
(* (em_capture_upload.Receiver), stores the clip (save_uploaded) and       *)
(* acknowledges it over the control connection; meanwhile an admin labels, *)
(* discards and exports what is stored, in threads of their own.           *)
(*                                                                         *)
(* A clip is one frame of audio.  On disk it is a WAV and a sidecar, each  *)
(* in a bucket; the second sidecar (the trim) moves with the first and is  *)
(* left out.  A name is the number of its millisecond: a later file has a  *)
(* larger one.                                                             *)
(***************************************************************************)
EXTENDS Naturals, Sequences, FiniteSets, SequencesExt

CONSTANTS WakeCaps, StopCaps,   \* captures the device may make of each word
          None,
          Names,        \* file names, 1..n
          Conns,        \* data connections, 1..n
          QueueCapacity, UntriagedCap,
          MaxEvents     \* bound on changes of settings, admin requests and faults together

VARIABLES queue,     \* per manager, the device's captures
          dcfg,      \* per manager, the settings the device runs with
          up,        \* the uploader: its connection, the capture it sends, how far
          wire,      \* per connection, frames on their way
          ctl,       \* control messages on their way to the device
          cfg,       \* per manager, the controller's settings
          dataWs,    \* device.data_ws
          rx,        \* per connection, the Receiver
          h,         \* per connection, where handle_data is
          lock,      \* _UPLOAD_LOCK: the connection whose save holds it, or 0
          disk,      \* per name, the capture and where its WAV and its sidecar are
          adm,       \* the admin request under way
          made, acked, removed, torn, offSaved, deleted,  \* history
          left       \* of MaxEvents

store == <<disk, adm, removed, torn, deleted>>
device == <<queue, dcfg, up, made>>
vars == <<queue, dcfg, up, wire, ctl, cfg, dataWs, rx, h, lock, disk, adm,
          made, acked, removed, torn, offSaved, deleted, left>>

Managers == {"wake", "stop"}
Caps == WakeCaps \cup StopCaps
Buckets == {"untriaged", "positive", "negative"}

(* Settings of one manager: 0 is off, another number is on with that       *)
(* version of the classifier.                                              *)
Settings == 0..2

Capture == [id : Caps, mgr : Managers, cross : BOOLEAN, ready : BOOLEAN,
            inFlight : BOOLEAN, ver : Settings \ {0}]
Frame == [t : {"begin", "pcm", "end"}, item : Capture]
NoItem == [id |-> None]
NoFile == [item |-> NoItem, wav |-> None, meta |-> None]
NoReceiver == [item |-> NoItem, pcm |-> <<>>]
NoHandler == [pc |-> "closed", item |-> NoItem, name |-> 0, created |-> FALSE]
NoAdmin == [pc |-> "idle", name |-> 0, src |-> None, dst |-> None, zip |-> {}]

Init ==
    /\ queue = [m \in Managers |-> <<>>]
    /\ dcfg = [m \in Managers |-> 1] /\ cfg = dcfg
    /\ up = [conn |-> 0, live |-> FALSE, item |-> NoItem, pc |-> "idle"]
    /\ wire = [k \in Conns |-> <<>>] /\ ctl = <<>>
    /\ dataWs = 0 /\ lock = 0
    /\ rx = [k \in Conns |-> NoReceiver] /\ h = [k \in Conns |-> NoHandler]
    /\ disk = [n \in Names |-> NoFile] /\ adm = NoAdmin
    /\ made = {} /\ acked = {} /\ removed = {} /\ torn = {} /\ offSaved = {}
    /\ deleted = FALSE
    /\ left = MaxEvents

Event == left > 0 /\ left' = left - 1
-----------------------------------------------------------------------------
(* The device.                                                             *)

Ids(q) == {q[i].id : i \in DOMAIN q}
IsCross(c) == c.cross
Idle(c) == ~c.cross /\ ~c.inFlight

(* Mutant of Enqueue: the limit is not looked at. *)
EnqueueUnbounded(q, c) == Append(q, c)

(* enqueueLocked: activations go before near misses, and at the limit one  *)
(* replaces the first near miss that is not being uploaded.                *)
Enqueue(q, c) ==
    LET full == Len(q) >= QueueCapacity
        evict == SelectInSeq(q, Idle)
        room == IF full THEN RemoveAt(q, evict) ELSE q
        first == SelectInSeq(room, LAMBDA x : ~x.cross)
    IN  IF full /\ (~c.cross \/ evict = 0) THEN q
        ELSE IF c.cross /\ first > 0 THEN InsertAt(room, first, c)
        ELSE Append(room, c)

(* Observe and endUtterance: a crossing is queued at once, a near miss     *)
(* when its utterance is over.  A crossing of the wake word waits for the  *)
(* outcome of its request, a stop word's does not.                         *)
Observe(c, m, cross) ==
    /\ c \in (IF m = "wake" THEN WakeCaps ELSE StopCaps) \ made
    /\ dcfg[m] # 0
    /\ made' = made \cup {c}
    /\ queue' = [queue EXCEPT ![m] = Enqueue(@,
           [id |-> c, mgr |-> m, cross |-> cross, ready |-> ~cross \/ m = "stop",
            inFlight |-> FALSE, ver |-> dcfg[m]])]
    /\ UNCHANGED <<dcfg, up, wire, ctl, cfg, dataWs, rx, h, lock, store, acked, offSaved, left>>

(* BindRequest with Deny or EndSTT, or ReleaseActivation: the request came *)
(* to its end.  DropActivation: it was never sent.                         *)
RequestEnds(i, keep) ==
    /\ i \in DOMAIN queue["wake"] /\ ~queue["wake"][i].ready
    /\ queue' = [queue EXCEPT !["wake"] =
           IF keep THEN [@ EXCEPT ![i].ready = TRUE] ELSE RemoveAt(@, i)]
    /\ UNCHANGED <<dcfg, up, wire, ctl, cfg, dataWs, rx, h, lock, store, made, acked, offSaved, left>>

Current(c) == c.id \in Ids(queue[c.mgr])

NextReady(m) == SelectInSeq(queue[m], LAMBDA c : c.ready /\ ~c.inFlight)

Retried(q, id) ==
    [i \in DOMAIN q |-> IF q[i].id = id THEN [q[i] EXCEPT !.inFlight = FALSE] ELSE q[i]]

RetryInFlight(q) == [m \in Managers |-> [i \in DOMAIN q[m] |-> [q[m][i] EXCEPT !.inFlight = FALSE]]]

Send(t, c) == wire' = [wire EXCEPT ![up.conn] = Append(@, [t |-> t, item |-> c])]

Sent == [up EXCEPT !.pc = "idle", !.item = NoItem]

(* uploadNextCapture: the wake manager is asked first. *)
UploadBegin ==
    LET m == IF NextReady("wake") > 0 THEN "wake" ELSE "stop"
        i == NextReady(m)
    IN  /\ up.live /\ up.pc = "idle" /\ i > 0
        /\ queue' = [queue EXCEPT ![m][i].inFlight = TRUE]
        /\ up' = [up EXCEPT !.pc = "pcm", !.item = queue[m][i]]
        /\ Send("begin", queue[m][i])
        /\ UNCHANGED <<dcfg, ctl, cfg, dataWs, rx, h, lock, store, made, acked, offSaved, left>>

(* A capture that was cleared in the meantime is abandoned where it is. *)
UploadNext ==
    LET c == up.item
    IN  /\ up.live /\ up.pc \in {"pcm", "end"}
        /\ IF Current(c)
           THEN /\ Send(up.pc, c)
                /\ up' = IF up.pc = "pcm" THEN [up EXCEPT !.pc = "end"] ELSE Sent
                /\ UNCHANGED queue
           ELSE /\ up' = Sent
                /\ queue' = [queue EXCEPT ![c.mgr] = Retried(@, c.id)]
                /\ UNCHANGED wire
        /\ UNCHANGED <<dcfg, ctl, cfg, dataWs, rx, h, lock, store, made, acked, offSaved, left>>

(* The uploader leaves with its connection and what it sent is to be sent  *)
(* again.                                                                  *)
Unplugged(q) == /\ up' = [Sent EXCEPT !.live = FALSE]
                /\ queue' = RetryInFlight(q)

(* Configure: off, or another classifier, clears the queue; off also       *)
(* closes the connection.                                                  *)
Configure(m, s) ==
    LET q == [queue EXCEPT ![m] = IF s # dcfg[m] THEN <<>> ELSE @]
    IN  /\ dcfg' = [dcfg EXCEPT ![m] = s]
        /\ IF s = 0 /\ dcfg[m] # 0 THEN Unplugged(q) ELSE queue' = q /\ UNCHANGED up

(* AckCapture asks the wake manager only. *)
Ack(id) ==
    LET i == SelectInSeq(queue["wake"], LAMBDA c : c.id = id)
    IN  queue' = IF i = 0 THEN queue ELSE [queue EXCEPT !["wake"] = RemoveAt(@, i)]

Control ==
    /\ ctl # <<>>
    /\ ctl' = Tail(ctl)
    /\ LET msg == Head(ctl)
       IN  IF msg.t = "config"
           THEN Configure(msg.mgr, msg.s)
           ELSE Ack(msg.id) /\ UNCHANGED <<dcfg, up>>
    /\ UNCHANGED <<wire, cfg, dataWs, rx, h, lock, store, made, acked, offSaved, left>>
-----------------------------------------------------------------------------
(* The links.                                                              *)

(* handle_data after identification; the old connection's handler may      *)
(* still run.                                                              *)
Connect ==
    LET k == up.conn + 1
    IN  /\ ~up.live /\ k \in Conns
        /\ up' = [up EXCEPT !.conn = k, !.live = TRUE]
        /\ dataWs' = k
        /\ h' = [h EXCEPT ![k].pc = "read"]
        /\ UNCHANGED <<queue, dcfg, wire, ctl, cfg, rx, lock, store, made, acked, offSaved, left>>

Disconnect ==
    /\ up.live /\ Event
    /\ Unplugged(queue)
    /\ UNCHANGED <<dcfg, wire, ctl, cfg, dataWs, rx, h, lock, store, made, acked, offSaved>>

(* A configuration carries both; the device applies them in this order.    *)
AllSettings ==
    <<[t |-> "config", mgr |-> "wake", s |-> cfg["wake"]],
      [t |-> "config", mgr |-> "stop", s |-> cfg["stop"]]>>

(* handle_control of a new control connection: what was on the old one is  *)
(* lost, the settings are sent anew and the device reconnects its data.    *)
ControlReconnect ==
    /\ Event
    /\ ctl' = AllSettings
    /\ dataWs' = 0
    /\ Unplugged(queue)
    /\ UNCHANGED <<dcfg, wire, cfg, rx, h, lock, store, made, acked, offSaved>>

(* The handler of a closed connection ends when it reads, possibly before  *)
(* frames that were on their way.                                          *)
HandlerEnds(k) ==
    /\ h[k].pc = "read" /\ ~(up.live /\ up.conn = k)
    /\ h' = [h EXCEPT ![k] = NoHandler]
    /\ rx' = [rx EXCEPT ![k] = NoReceiver] /\ wire' = [wire EXCEPT ![k] = <<>>]
    /\ dataWs' = IF dataWs = k THEN 0 ELSE dataWs
    /\ UNCHANGED <<device, ctl, cfg, lock, store, acked, offSaved, left>>

(* The admin changes the capture settings of the device (config handler). *)
SetCaptures(m, s) ==
    /\ s # cfg[m] /\ Event
    /\ cfg' = [cfg EXCEPT ![m] = s]
    /\ ctl' = Append(ctl, [t |-> "config", mgr |-> m, s |-> s])
    /\ offSaved' = IF s = 0 THEN offSaved ELSE {n \in offSaved : disk[n].item.mgr # m}
    /\ UNCHANGED <<device, wire, dataWs, rx, h, lock, store, acked>>
-----------------------------------------------------------------------------
(* The controller: one frame of handle_data, and _accept_capture_upload.   *)

(* Receiver.feed.  done is the complete capture, if this frame completes   *)
(* one; an error forgets what was received.                                *)
Feed(r, f) ==
    LET got == [r EXCEPT !.pcm = Append(@, f.item)]
        error == [rx |-> NoReceiver, done |-> NoItem]
    IN  CASE f.t = "begin" /\ r.item = NoItem
                -> [rx |-> [r EXCEPT !.item = f.item], done |-> NoItem]
          [] f.t = "pcm" /\ r.item # NoItem /\ r.pcm = <<>>
                -> [rx |-> got, done |-> NoItem]
          [] f.t = "end" /\ r.item # NoItem /\ r.pcm = <<f.item>>
                -> [rx |-> NoReceiver, done |-> r.item]
          [] OTHER -> error

Enabled(c) == cfg[c.mgr] # 0

Accepts(k, c) == Enabled(c) /\ cfg[c.mgr] = c.ver /\ dataWs = k

HandleFrame(k) ==
    LET f == Head(wire[k])
        r == IF \A m \in Managers : cfg[m] = 0
             THEN [rx |-> NoReceiver, done |-> NoItem]
             ELSE Feed(rx[k], f)
    IN  /\ h[k].pc = "read" /\ wire[k] # <<>>
        /\ wire' = [wire EXCEPT ![k] = Tail(@)]
        /\ rx' = [rx EXCEPT ![k] = r.rx]
        /\ h' = IF r.done # NoItem /\ Accepts(k, r.done)
                THEN [h EXCEPT ![k].pc = "find", ![k].item = r.done]
                ELSE h
        /\ UNCHANGED <<device, ctl, cfg, dataWs, lock, store, acked, offSaved, left>>

(* Mutant of Found: the sidecar is enough. *)
FoundBySidecar(c) == {n \in Names : disk[n].meta # None /\ disk[n].item.id = c.id}

(* Mutant of Found: only the bucket uploads go to is searched. *)
FoundUntriaged(c) == {n \in Names : disk[n].wav = "untriaged" /\ disk[n].meta = "untriaged"
                                    /\ disk[n].item.id = c.id}

(* _find_uploaded: a WAV whose sidecar is beside it names its capture. *)
Found(c) == {n \in Names : disk[n].wav # None /\ disk[n].meta = disk[n].wav
                           /\ disk[n].item.id = c.id}

NewName == CHOOSE n \in Names : /\ disk[n].item = NoItem
                                /\ \A o \in Names : disk[o].item = NoItem => n <= o

Return(k) == h' = [h EXCEPT ![k] = [NoHandler EXCEPT !.pc = "read"]]

(* save_uploaded, up to the temporary files: an exact duplicate is not     *)
(* stored again.  The first writes may fail.                               *)
SaveFind(k) ==
    LET c == h[k].item
    IN  /\ h[k].pc = "find" /\ lock = 0
        /\ \/ /\ Found(c) # {}
              /\ h' = [h EXCEPT ![k].pc = "recheck", ![k].name = CHOOSE n \in Found(c) : TRUE]
              /\ UNCHANGED <<lock, disk, torn>>
           \/ /\ Found(c) = {} /\ \E n \in Names : disk[n].item = NoItem
              /\ h' = [h EXCEPT ![k].pc = "meta", ![k].name = NewName]
              /\ lock' = k
              /\ disk' = [disk EXCEPT ![NewName].item = c]
              /\ torn' = IF \E n \in Names : disk[n].item.id = c.id /\ disk[n].wav \notin {None, disk[n].meta}
                         THEN torn \cup {c.id} ELSE torn
        /\ UNCHANGED <<device, wire, ctl, cfg, dataWs, rx, adm, removed, deleted, acked, offSaved, left>>

(* The sidecar first, then the WAV, each renamed into place. *)
SaveMeta(k) ==
    /\ h[k].pc = "meta"
    /\ h' = [h EXCEPT ![k].pc = "wav"]
    /\ disk' = [disk EXCEPT ![h[k].name].meta = "untriaged"]
    /\ UNCHANGED <<device, wire, ctl, cfg, dataWs, rx, lock, adm, removed, torn, deleted, acked, offSaved, left>>

SaveWav(k) ==
    /\ h[k].pc = "wav"
    /\ h' = [h EXCEPT ![k].pc = "prune", ![k].created = TRUE]
    /\ disk' = [disk EXCEPT ![h[k].name].wav = "untriaged"]
    /\ offSaved' = IF Enabled(h[k].item) THEN offSaved ELSE offSaved \cup {h[k].name}
    /\ UNCHANGED <<device, wire, ctl, cfg, dataWs, rx, lock, adm, removed, torn, deleted, acked, left>>

SaveFails(k) ==
    /\ h[k].pc \in {"meta", "wav"} /\ Event
    /\ Return(k)
    /\ lock' = 0
    /\ disk' = [disk EXCEPT ![h[k].name].meta = None]
    /\ UNCHANGED <<device, wire, ctl, cfg, dataWs, rx, adm, removed, torn, deleted, acked, offSaved>>

In(b) == {n \in Names : disk[n].wav = b}

(* Deletion of captures ns that are in their bucket, with their sidecars. *)
Unlink(ns) ==
    /\ disk' = [n \in Names |-> IF n \notin ns THEN disk[n]
                                ELSE [disk[n] EXCEPT !.wav = None, !.meta = IF @ = disk[n].wav THEN None ELSE @]]
    /\ removed' = removed \cup {disk[n].item.id : n \in ns}

(* prune_untriaged: all but the newest, oldest first. *)
Pruned == {n \in In("untriaged") : Cardinality({o \in In("untriaged") : o > n}) >= UntriagedCap}

SavePrune(k) ==
    /\ h[k].pc = "prune"
    /\ h' = [h EXCEPT ![k].pc = "recheck"]
    /\ lock' = 0
    /\ Unlink(Pruned)
    /\ UNCHANGED <<device, wire, ctl, cfg, dataWs, rx, adm, torn, deleted, acked, offSaved, left>>

(* Mutant of Recheck: the opt-in is not read again. *)
RecheckOwnerOnly(k) ==
    LET c == h[k].item
    IN  /\ h[k].pc = "recheck"
        /\ Return(k)
        /\ IF dataWs = k
           THEN ctl' = Append(ctl, [t |-> "ack", id |-> c.id]) /\ acked' = acked \cup {c.id}
           ELSE UNCHANGED <<ctl, acked>>
        /\ UNCHANGED <<device, wire, cfg, dataWs, rx, lock, store, offSaved, left>>

(* After the save: the opt-in, and whether this connection is still the    *)
(* device's.                                                               *)
Recheck(k) ==
    LET c == h[k].item
    IN  /\ h[k].pc = "recheck"
        /\ \/ /\ ~Enabled(c) /\ h[k].created
              /\ h' = [h EXCEPT ![k].pc = "discard"]
              /\ UNCHANGED <<ctl, acked>>
           \/ /\ ~(~Enabled(c) /\ h[k].created)
              /\ Return(k)
              /\ IF Enabled(c) /\ dataWs = k
                 THEN /\ ctl' = Append(ctl, [t |-> "ack", id |-> c.id])
                      /\ acked' = acked \cup {c.id}
                 ELSE UNCHANGED <<ctl, acked>>
        /\ UNCHANGED <<device, wire, cfg, dataWs, rx, lock, store, offSaved, left>>

DiscardUnwanted(k) ==
    /\ h[k].pc = "discard"
    /\ Return(k)
    /\ Unlink({n \in {h[k].name} : disk[n].wav # None})
    /\ UNCHANGED <<device, wire, ctl, cfg, dataWs, rx, lock, adm, torn, deleted, acked, offSaved, left>>
-----------------------------------------------------------------------------
(* The admin: label, discard, export and the deletion of the device run in *)
(* threads that do not take _UPLOAD_LOCK; one label or export at a time.   *)

AdminKeeps == UNCHANGED <<device, wire, ctl, cfg, dataWs, rx, h, lock, acked, offSaved>>

LabelBegins(n, b) ==
    /\ adm.pc = "idle" /\ disk[n].wav \notin {None, b} /\ Event
    /\ adm' = [NoAdmin EXCEPT !.pc = "wav", !.name = n, !.src = disk[n].wav, !.dst = b]
    /\ UNCHANGED <<disk, removed, torn, deleted>> /\ AdminKeeps

(* label moves what is still where it was found: the WAV, then the sidecar. *)
LabelMoves ==
    LET n == adm.name
    IN  \/ /\ adm.pc = "wav"
           /\ disk' = [disk EXCEPT ![n].wav = IF @ = adm.src THEN adm.dst ELSE @]
           /\ adm' = [adm EXCEPT !.pc = "meta"]
           /\ UNCHANGED <<removed, torn, deleted, left>> /\ AdminKeeps
        \/ /\ adm.pc = "meta"
           /\ disk' = [disk EXCEPT ![n].meta = IF @ = adm.src THEN adm.dst ELSE @]
           /\ adm' = NoAdmin
           /\ UNCHANGED <<removed, torn, deleted, left>> /\ AdminKeeps

(* Mutant of LabelFails: nothing is put back. *)
LabelFailsHalfMoved ==
    /\ adm.pc = "meta" /\ Event
    /\ adm' = NoAdmin
    /\ UNCHANGED <<disk, removed, torn, deleted>> /\ AdminKeeps

(* A rename that fails puts back what was moved. *)
LabelFails ==
    LET n == adm.name
    IN  /\ adm.pc = "meta" /\ Event
        /\ disk' = [disk EXCEPT ![n].wav = IF @ = adm.dst THEN adm.src ELSE @]
        /\ adm' = NoAdmin
        /\ UNCHANGED <<removed, torn, deleted>> /\ AdminKeeps

Discard(n) ==
    /\ disk[n].wav # None /\ Event
    /\ Unlink({n})
    /\ UNCHANGED <<adm, torn, deleted>> /\ AdminKeeps

(* export_zip(delete_after): the positive bucket, the negative bucket, and *)
(* then the files it read, where it read them.                             *)
ExportReads ==
    \/ /\ adm.pc = "idle" /\ Event
       /\ adm' = [NoAdmin EXCEPT !.pc = "negative", !.zip = {<<n, "positive">> : n \in In("positive")}]
       /\ UNCHANGED <<disk, removed, torn, deleted>> /\ AdminKeeps
    \/ /\ adm.pc = "negative"
       /\ adm' = [adm EXCEPT !.pc = "delete", !.zip = @ \cup {<<n, "negative">> : n \in In("negative")}]
       /\ UNCHANGED <<disk, removed, torn, deleted, left>> /\ AdminKeeps

ExportDeletes ==
    /\ adm.pc = "delete"
    /\ Unlink({n \in Names : <<n, disk[n].wav>> \in adm.zip})
    /\ adm' = NoAdmin
    /\ UNCHANGED <<torn, deleted, left>> /\ AdminKeeps

(* db.delete_device: the live connection is left alone. *)
DeleteDevice ==
    /\ ~deleted /\ Event
    /\ deleted' = TRUE
    /\ Unlink({n \in Names : disk[n].wav # None})
    /\ UNCHANGED <<adm, torn>> /\ AdminKeeps

(* The controller dies: handlers, receivers and threads are gone, the disk *)
(* is what it was.                                                         *)
Crash ==
    /\ Event
    /\ h' = [k \in Conns |-> NoHandler] /\ rx' = [k \in Conns |-> NoReceiver]
    /\ wire' = [k \in Conns |-> <<>>]
    /\ lock' = 0 /\ dataWs' = 0 /\ adm' = NoAdmin
    /\ ctl' = AllSettings
    /\ Unplugged(queue)
    /\ torn' = torn \cup (IF adm.pc = "meta" THEN {disk[adm.name].item.id} ELSE {})
    /\ offSaved' = {}
    /\ UNCHANGED <<dcfg, cfg, made, acked, disk, removed, deleted>>
-----------------------------------------------------------------------------
Upload(k) == HandleFrame(k) \/ SaveFind(k) \/ SaveMeta(k) \/ SaveWav(k) \/ SavePrune(k)
             \/ Recheck(k) \/ DiscardUnwanted(k)

Next ==
    \/ \E c \in Caps, m \in Managers, x \in BOOLEAN : Observe(c, m, x)
    \/ \E i \in 1..QueueCapacity, keep \in BOOLEAN : RequestEnds(i, keep)
    \/ UploadBegin \/ UploadNext \/ Control
    \/ Connect \/ Disconnect \/ ControlReconnect \/ Crash
    \/ \E m \in Managers, s \in Settings : SetCaptures(m, s)
    \/ \E k \in Conns : Upload(k) \/ HandlerEnds(k) \/ SaveFails(k)
    \/ \E n \in Names, b \in Buckets : LabelBegins(n, b)
    \/ LabelMoves \/ LabelFails \/ ExportReads \/ ExportDeletes \/ DeleteDevice
    \/ \E n \in Names : Discard(n)

Spec == Init /\ [][Next]_vars

(* The device reconnects, the sockets deliver and the handlers run on;     *)
(* nobody has to speak, to click or to break anything.                     *)
FairSpec ==
    /\ Spec
    /\ WF_vars(Connect) /\ WF_vars(Control) /\ WF_vars(UploadBegin) /\ WF_vars(UploadNext)
    /\ \A k \in Conns : WF_vars(Upload(k))
-----------------------------------------------------------------------------
TypeOK ==
    /\ \A m \in Managers : /\ queue[m] \in Seq(Capture) /\ Len(queue[m]) <= QueueCapacity
                           /\ \A i \in DOMAIN queue[m] : queue[m][i].mgr = m
    /\ cfg \in [Managers -> Settings] /\ dcfg \in [Managers -> Settings]
    /\ dataWs \in Conns \cup {0} /\ lock \in Conns \cup {0}
    /\ \A k \in Conns : wire[k] \in Seq(Frame) /\ (h[k].pc \in {"meta", "wav", "prune"} <=> lock = k)
    /\ \A n \in Names : {disk[n].wav, disk[n].meta} \subseteq Buckets \cup {None}

(* The device forgets a capture when it is acknowledged: by then it is on  *)
(* disk, and it goes from there only by the admin's hand, the cap on       *)
(* untriaged clips or the opt-out.                                         *)
AckedIsKept ==
    \A c \in acked : c \in removed \/ \E n \in Names : disk[n].wav # None /\ disk[n].item.id = c

(* save_uploaded, "exact duplicates return its name": however often a      *)
(* capture is sent again, over however many connections, it is stored once *)
(* -- unless its files were apart when it was looked for.                  *)
StoredOnce ==
    \A n, o \in Names :
        /\ n # o /\ disk[n].wav # None /\ disk[o].wav # None
        /\ disk[n].item.id = disk[o].item.id
        => disk[n].item.id \in torn

(* "readers cannot observe uploaded speech until its provenance sidecar is *)
(* already durable and in place": also after a crash in the middle of a    *)
(* save, a WAV has its sidecar beside it, except while label moves them or *)
(* when it died doing so.                                                  *)
SpeechHasProvenance ==
    \A n \in Names : disk[n].wav # None =>
        \/ disk[n].meta = disk[n].wav
        \/ adm.pc = "meta" /\ adm.name = n
        \/ disk[n].item.id \in torn

(* A clip that was committed after its device opted out is gone once the   *)
(* upload that committed it is over, as long as nobody opts in again.      *)
OptOutKeepsNothing ==
    \A n \in offSaved : disk[n].wav = None \/ \E k \in Conns : h[k].name = n /\ h[k].created

(* em_training_captures.py:18, data_stopword_test.go:79: an acknowledged   *)
(* capture leaves the device's queue, the stop word's as well.             *)
StopUploadsDrain ==
    \A c \in Caps : c \in acked ~> c \notin Ids(queue["stop"])

(* em_training_captures.py:623: "a removed device leaves no recognisable   *)
(* speech behind".                                                         *)
DeletedLeavesNoSpeech ==
    deleted => \A n \in Names : disk[n].wav = None
=============================================================================
