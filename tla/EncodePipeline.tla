--------------------------- MODULE EncodePipeline ---------------------------
(***************************************************************************)
(* The downlink pipeline of one session (mcu/internal/session/pipeline.go):*)
(*                                                                         *)
(*   room mix clock --mixCh--> encodeDispatcher --jobs[w]--> encodeWorker w*)
(*        ^                                                        |       *)
(*        +------------------- framePool <-------------------------+       *)
(*                                                              sendCh     *)
(*                                                                 |       *)
(*                                                             sendLoop    *)
(*                                                                         *)
(* Frames are pooled and shared by pointer: a Frame here is an address,    *)
(* and what it holds changes under whoever still has it.  PCM and payloads *)
(* are abstracted to the mix time they were made from.  Every select       *)
(* statement is a step of its own, so the three steps of a drop-oldest     *)
(* enqueue interleave with the other producers and the consumer.           *)
(***************************************************************************)
EXTENDS Integers, Sequences, FiniteSets, FiniteSetsExt

CONSTANTS
  Frames,      (* the frame objects the pool can hand out                  *)
  NoFrame,
  K,           (* encWorkers                                               *)
  C,           (* number of channels                                       *)
  MixCap,      (* capacity of mixCh                                        *)
  JobCap,      (* capacity of each worker's job channel (2 in the code)    *)
  SendCap,     (* capacity of sendCh                                       *)
  Formats,     (* the values of Session.bundled to consider                *)
  Layout,      (* PlanLayout: the channel set of each bundle of a frame    *)
  MaxTicks     (* bound on the frames the room submits                     *)

ASSUME SizesAssumption ==
  /\ C \in Nat \ {0} /\ K \in 1 .. C
  /\ MixCap \in Nat \ {0} /\ JobCap \in Nat \ {0} /\ SendCap \in Nat \ {0}
  /\ MaxTicks \in Nat
  /\ NoFrame \notin Frames
  /\ Formats \subseteq BOOLEAN
  /\ Layout \in Seq(SUBSET (0 .. C - 1))

Workers  == 0 .. K - 1
Channels == 0 .. C - 1
Times    == 1 .. MaxTicks
Empty    == 0        \* no payload

(* channelRange: the channels worker w owns are Lo(w) .. Hi(w) - 1. *)
Lo(w) == (w * C) \div K
Hi(w) == ((w + 1) * C) \div K

VARIABLES
  pool,      (* frames in framePool                                        *)
  frameTs,   (* mix time a frame was last filled for                       *)
  refs,      (* its count of encode workers still to process it            *)
  encoded,   (* its payload slots                                          *)
  mixCh,
  mixTs,     (* ticks of the room so far                                   *)
  clock,     (* the mix clock inside SubmitMix: where, with which frame    *)
  disp,      (* the dispatcher: the frame it fans out, the next worker     *)
  jobs,      (* encJobChs                                                  *)
  worker,    (* each worker: where, with which frame, at which channel or,  *)
             (* as the last one, which group of the layout, which packet   *)
  bundled,   (* wire format: bundles per frame, or a packet per channel    *)
  encSeq,    (* per-channel sequence numbers of the packet-per-channel one *)
  sendCh,
  sending,   (* the packet sendLoop handed to the DataChannel last         *)
  done,      (* the session's done channel is closed                       *)
  exited     (* the goroutines that returned                               *)

frameVars == <<pool, frameTs, refs, encoded>>
clockVars == <<mixTs, clock>>
encVars   == <<bundled, encSeq>>
sendVars  == <<sendCh, sending>>
vars == <<frameVars, mixCh, clockVars, disp, jobs, worker, encVars, sendVars,
          done, exited>>

Packet == [ts : Times, seq : Nat, chans : SUBSET Channels,
           made : [Channels -> Times \cup {Empty}]]
NoPacket == [ts |-> 0, seq |-> 0, chans |-> {}, made |-> [c \in Channels |-> Empty]]

Dispatcher == K
Sender     == K + 1
Goroutines == Workers \cup {Dispatcher, Sender}

TypeOK ==
  /\ pool    \in SUBSET Frames
  /\ frameTs \in [Frames -> Times \cup {0}]
  /\ refs    \in [Frames -> 0 .. K]
  /\ encoded \in [Frames -> [Channels -> Times \cup {Empty}]]
  /\ mixCh \in Seq(Frames) /\ Len(mixCh) <= MixCap
  /\ mixTs \in 0 .. MaxTicks
  /\ clock \in [pc : {"idle", "try", "evict", "retry"}, frame : Frames \cup {NoFrame}]
  /\ disp  \in [frame : Frames \cup {NoFrame}, next : 0 .. K]
  /\ jobs   \in [Workers -> Seq(Frames)]
  /\ worker \in [Workers -> [pc    : {"idle", "encode", "try", "evict", "retry"},
                             frame : Frames \cup {NoFrame},
                             c     : 0 .. C,
                             group : 0 .. Len(Layout),
                             hand  : Packet \cup {NoPacket}]]
  /\ \A w \in Workers : Len(jobs[w]) <= JobCap /\ worker[w].c \in Lo(w) .. Hi(w)
  /\ bundled \in Formats
  /\ encSeq \in [Channels -> Nat]
  /\ sendCh \in Seq(Packet) /\ Len(sendCh) <= SendCap
  /\ sending \in Packet \cup {NoPacket}
  /\ done \in BOOLEAN
  /\ exited \subseteq Goroutines

(* The state of a worker: its group is 0 until it sends the bundles of its  *)
(* frame.                                                                   *)
At(pc, f, c, g, p) == [pc |-> pc, frame |-> f, c |-> c, group |-> g, hand |-> p]

Idle(w) == At("idle", NoFrame, Lo(w), 0, NoPacket)

Init ==
  /\ pool    = Frames
  /\ frameTs = [f \in Frames |-> 0]
  /\ refs    = [f \in Frames |-> 0]
  /\ encoded = [f \in Frames |-> [c \in Channels |-> Empty]]
  /\ mixCh   = <<>>
  /\ mixTs   = 0
  /\ clock   = [pc |-> "idle", frame |-> NoFrame]
  /\ disp    = [frame |-> NoFrame, next |-> 0]
  /\ jobs    = [w \in Workers |-> <<>>]
  /\ worker  = [w \in Workers |-> Idle(w)]
  /\ bundled \in Formats
  /\ encSeq  = [c \in Channels |-> 0]
  /\ sendCh  = <<>>
  /\ sending = NoPacket
  /\ done    = FALSE
  /\ exited  = {}

-----------------------------------------------------------------------------
(* The mix clock inside SubmitMix and pushFrame. *)

(* A pooled frame's payload slots: the bundled format clears them for the  *)
(* next frame; the deviation does not.                                      *)
Cleared_Never(f) == encoded[f]
Cleared(f) == IF bundled THEN [c \in Channels |-> Empty] ELSE encoded[f]

(* acquireFrame (a pooled frame or a new one), copy the PCM, stamp it. *)
Acquire ==
  /\ clock.pc = "idle"
  /\ mixTs < MaxTicks
  /\ \E f \in pool :
       /\ pool'    = pool \ {f}
       /\ frameTs' = [frameTs EXCEPT ![f] = mixTs + 1]
       /\ encoded' = [encoded EXCEPT ![f] = Cleared(f)]
       /\ clock'   = [pc |-> "try", frame |-> f]
  /\ mixTs' = mixTs + 1
  /\ UNCHANGED <<refs, mixCh, disp, jobs, worker, encVars, sendVars, done, exited>>

ClockIdle == [pc |-> "idle", frame |-> NoFrame]

(* Deviation: a plain channel send. *)
TryPushFrame_Waits ==
  /\ clock.pc = "try"
  /\ Len(mixCh) < MixCap
  /\ mixCh' = Append(mixCh, clock.frame)
  /\ clock' = ClockIdle
  /\ UNCHANGED <<frameVars, mixTs, disp, jobs, worker, encVars, sendVars, done, exited>>

(* First select of pushFrame. *)
TryPushFrame ==
  /\ clock.pc = "try"
  /\ IF Len(mixCh) < MixCap
       THEN /\ mixCh' = Append(mixCh, clock.frame)
            /\ clock' = ClockIdle
       ELSE /\ clock' = [pc |-> "evict", frame |-> clock.frame]
            /\ UNCHANGED mixCh
  /\ UNCHANGED <<frameVars, mixTs, disp, jobs, worker, encVars, sendVars, done, exited>>

(* Second select: recycle the oldest frame, if the dispatcher left one. *)
EvictFrame ==
  /\ clock.pc = "evict"
  /\ clock' = [pc |-> "retry", frame |-> clock.frame]
  /\ IF mixCh # <<>>
       THEN /\ pool'  = pool \cup {Head(mixCh)}
            /\ mixCh' = Tail(mixCh)
       ELSE UNCHANGED <<pool, mixCh>>
  /\ UNCHANGED <<frameTs, refs, encoded, mixTs, disp, jobs, worker, encVars, sendVars,
                 done, exited>>

(* Third select: enqueue, or give the new frame back. *)
RetryPushFrame ==
  /\ clock.pc = "retry"
  /\ clock' = ClockIdle
  /\ IF Len(mixCh) < MixCap
       THEN /\ mixCh' = Append(mixCh, clock.frame)
            /\ UNCHANGED pool
       ELSE /\ pool' = pool \cup {clock.frame}
            /\ UNCHANGED mixCh
  /\ UNCHANGED <<frameTs, refs, encoded, mixTs, disp, jobs, worker, encVars, sendVars,
                 done, exited>>

ClockStep == Acquire \/ TryPushFrame \/ EvictFrame \/ RetryPushFrame

-----------------------------------------------------------------------------
(* encodeDispatcher *)

(* The references a frame starts with, one per worker; in the deviations    *)
(* one too few or one too many.                                             *)
Shares_OneShort == K - 1
Shares_OneOver  == K + 1
Shares          == K

TakeFrame ==
  /\ Dispatcher \notin exited
  /\ disp.frame = NoFrame
  /\ mixCh # <<>>
  /\ disp'  = [frame |-> Head(mixCh), next |-> 0]
  /\ mixCh' = Tail(mixCh)
  /\ refs'  = [refs EXCEPT ![Head(mixCh)] = Shares]
  /\ UNCHANGED <<pool, frameTs, encoded, clockVars, jobs, worker, encVars, sendVars,
                 done, exited>>

(* One send of the fan-out; it waits while the worker's channel is full. *)
FanOut ==
  /\ Dispatcher \notin exited
  /\ disp.frame # NoFrame
  /\ Len(jobs[disp.next]) < JobCap
  /\ jobs' = [jobs EXCEPT ![disp.next] = Append(@, disp.frame)]
  /\ disp' = IF disp.next + 1 = K THEN [frame |-> NoFrame, next |-> 0]
                                  ELSE [frame |-> disp.frame, next |-> disp.next + 1]
  /\ UNCHANGED <<frameVars, mixCh, clockVars, worker, encVars, sendVars, done, exited>>

(* Deviation: the send of the fan-out has no done case. *)
DispatcherExits_WhenIdle ==
  /\ done
  /\ Dispatcher \notin exited
  /\ disp.frame = NoFrame
  /\ exited' = exited \cup {Dispatcher}
  /\ UNCHANGED <<frameVars, mixCh, clockVars, disp, jobs, worker, encVars, sendVars, done>>

(* Both selects of the dispatcher have a done case. *)
DispatcherExits ==
  /\ done
  /\ Dispatcher \notin exited
  /\ exited' = exited \cup {Dispatcher}
  /\ UNCHANGED <<frameVars, mixCh, clockVars, disp, jobs, worker, encVars, sendVars, done>>

-----------------------------------------------------------------------------
(* encodeWorker *)

TakeJob(w) ==
  /\ w \notin exited
  /\ worker[w].pc = "idle"
  /\ jobs[w] # <<>>
  /\ worker' = [worker EXCEPT ![w] = At("encode", Head(jobs[w]), Lo(w), 0, NoPacket)]
  /\ jobs'   = [jobs EXCEPT ![w] = Tail(@)]
  /\ UNCHANGED <<frameVars, mixCh, clockVars, disp, encVars, sendVars, done, exited>>

(* One turn of the channel loop: the encode succeeds and the payload is     *)
(* stashed in the frame or becomes a packet of its own ...                  *)
Encode(w) ==
  LET f == worker[w].frame
      c == worker[w].c
      p == [ts |-> frameTs[f], seq |-> encSeq[c], chans |-> {c},
            made |-> [d \in Channels |-> IF d = c THEN frameTs[f] ELSE Empty]]
  IN /\ worker[w].pc = "encode"
     /\ c < Hi(w)
     /\ IF bundled
          THEN /\ encoded' = [encoded EXCEPT ![f][c] = frameTs[f]]
               /\ worker'  = [worker EXCEPT ![w] = At("encode", f, c + 1, 0, NoPacket)]
               /\ UNCHANGED encSeq
          ELSE /\ encSeq' = [encSeq EXCEPT ![c] = @ + 1]
               /\ worker' = [worker EXCEPT ![w] = At("try", f, c + 1, 0, p)]
               /\ UNCHANGED encoded
     /\ UNCHANGED <<pool, frameTs, refs, mixCh, clockVars, disp, jobs, sendVars,
                    done, exited, bundled>>

(* ... or fails, and the channel is skipped. *)
EncodeFails(w) ==
  /\ worker[w].pc = "encode"
  /\ worker[w].c < Hi(w)
  /\ worker' = [worker EXCEPT ![w] = At("encode", @.frame, @.c + 1, 0, NoPacket)]
  /\ UNCHANGED <<frameVars, mixCh, clockVars, disp, jobs, encVars, sendVars, done, exited>>

(* sendBundled: the channels of a group that have a payload, and the packet *)
(* of them.                                                                 *)
Carried(f, g) == {c \in Layout[g] : encoded[f][c] # Empty}

Bundle(f, g) ==
  [ts |-> frameTs[f], seq |-> 0, chans |-> Carried(f, g),
   made |-> [c \in Channels |-> IF c \in Carried(f, g) THEN encoded[f][c] ELSE Empty]]

(* Its loop goes on from group n: groups without a payload are skipped, and *)
(* after the last one the frame is released.                                *)
Later(f, n) == {g \in DOMAIN Layout : g > n /\ Carried(f, g) # {}}

SendLater(w, n) ==
  LET f == worker[w].frame
      g == Min(Later(f, n))
  IN IF Later(f, n) # {}
       THEN /\ worker' = [worker EXCEPT ![w] = At("try", f, Hi(w), g, Bundle(f, g))]
            /\ UNCHANGED pool
       ELSE /\ worker' = [worker EXCEPT ![w] = Idle(w)]
            /\ pool'   = pool \cup {f}

(* The worker about to drop the last reference; in the deviation, the one   *)
(* that drops the first.                                                    *)
IsLast_First(f) == refs[f] = K
IsLast(f)       == refs[f] = 1

(* The channel loop is over: give up the reference.  The worker that drops  *)
(* it to zero owns the frame: it marshals the bundles and releases it.      *)
Finish(w) ==
  LET f == worker[w].frame
  IN /\ worker[w].pc = "encode"
     /\ worker[w].c = Hi(w)
     /\ refs' = [refs EXCEPT ![f] = @ - 1]
     /\ IF IsLast(f) /\ bundled
          THEN SendLater(w, 0)
          ELSE /\ worker' = [worker EXCEPT ![w] = Idle(w)]
               /\ pool' = IF IsLast(f) THEN pool \cup {f} ELSE pool
     /\ UNCHANGED <<frameTs, encoded, mixCh, clockVars, disp, jobs, encVars, sendVars,
                    done, exited>>

(* What follows the pushSend of the packet in hand: the next channel, or    *)
(* the next bundle.                                                         *)
AfterPush(w) ==
  \/ /\ worker[w].group = 0
     /\ worker' = [worker EXCEPT ![w] = At("encode", @.frame, @.c, 0, NoPacket)]
     /\ UNCHANGED pool
  \/ worker[w].group > 0 /\ SendLater(w, worker[w].group)

(* The three selects of pushSend. *)
TryPushSend(w) ==
  /\ worker[w].pc = "try"
  /\ IF Len(sendCh) < SendCap
       THEN /\ sendCh' = Append(sendCh, worker[w].hand)
            /\ AfterPush(w)
       ELSE /\ worker' = [worker EXCEPT ![w] = At("evict", @.frame, @.c, @.group, @.hand)]
            /\ UNCHANGED <<sendCh, pool>>
  /\ UNCHANGED <<frameTs, refs, encoded, mixCh, clockVars, disp, jobs, encVars, sending,
                 done, exited>>

EvictSend(w) ==
  /\ worker[w].pc = "evict"
  /\ worker' = [worker EXCEPT ![w] = At("retry", @.frame, @.c, @.group, @.hand)]
  /\ sendCh' = IF sendCh = <<>> THEN sendCh ELSE Tail(sendCh)
  /\ UNCHANGED <<frameVars, mixCh, clockVars, disp, jobs, encVars, sending, done, exited>>

RetryPushSend(w) ==
  /\ worker[w].pc = "retry"
  /\ sendCh' = IF Len(sendCh) < SendCap THEN Append(sendCh, worker[w].hand) ELSE sendCh
  /\ AfterPush(w)
  /\ UNCHANGED <<frameTs, refs, encoded, mixCh, clockVars, disp, jobs, encVars, sending,
                 done, exited>>

WorkerExits(w) ==
  /\ done
  /\ w \notin exited
  /\ worker[w].pc = "idle"
  /\ exited' = exited \cup {w}
  /\ UNCHANGED <<frameVars, mixCh, clockVars, disp, jobs, worker, encVars, sendVars, done>>

WorkerStep(w) ==
  \/ TakeJob(w) \/ Encode(w) \/ EncodeFails(w) \/ Finish(w)
  \/ TryPushSend(w) \/ EvictSend(w) \/ RetryPushSend(w)

-----------------------------------------------------------------------------
(* sendLoop.  Whether the DataChannel takes the packet or pacing drops it   *)
(* is the business of module SendPacing.                                    *)
Send ==
  /\ Sender \notin exited
  /\ sendCh # <<>>
  /\ sending' = Head(sendCh)
  /\ sendCh'  = Tail(sendCh)
  /\ UNCHANGED <<frameVars, mixCh, clockVars, disp, jobs, worker, encVars, done, exited>>

SenderExits ==
  /\ done
  /\ Sender \notin exited
  /\ exited' = exited \cup {Sender}
  /\ UNCHANGED <<frameVars, mixCh, clockVars, disp, jobs, worker, encVars, sendVars, done>>

(* Session.Close closes done; the room may still be inside a tick. *)
CloseDone ==
  /\ ~done
  /\ done' = TRUE
  /\ UNCHANGED <<frameVars, mixCh, clockVars, disp, jobs, worker, encVars, sendVars, exited>>

Next ==
  \/ ClockStep
  \/ TakeFrame \/ FanOut \/ DispatcherExits
  \/ \E w \in Workers : WorkerStep(w) \/ WorkerExits(w)
  \/ Send \/ SenderExits
  \/ CloseDone

Spec == Init /\ [][Next]_vars

(* Every goroutine is scheduled, and a select that is reached again and     *)
(* again with its done case ready takes it (Go picks among ready cases at   *)
(* random).                                                                 *)
PipelineFairness ==
  /\ WF_vars(TryPushFrame \/ EvictFrame \/ RetryPushFrame)
  /\ WF_vars(TakeFrame \/ FanOut) /\ SF_vars(DispatcherExits)
  /\ \A w \in Workers : WF_vars(WorkerStep(w)) /\ SF_vars(WorkerExits(w))
  /\ WF_vars(Send) /\ SF_vars(SenderExits)

FairSpec == Spec /\ PipelineFairness

-----------------------------------------------------------------------------
(* Properties *)

(* Who can still read or write a frame: the holders of a pointer to it. *)
Elements(q) == {q[n] : n \in DOMAIN q}
WithClock(f)      == clock.frame = f
Queued(f)         == f \in Elements(mixCh)
WithDispatcher(f) == disp.frame = f
InJobs(f)         == \E w \in Workers : f \in Elements(jobs[w])
WithWorker(f)     == \E w \in Workers : worker[w].frame = f

(* A pooled frame, which the next SubmitMix may overwrite, is in nobody     *)
(* else's hands; and a frame is with the clock or the queue only before the *)
(* fan-out.  A release one reference too early breaks this.                 *)
FrameExclusive ==
  \A f \in Frames :
    /\ f \in pool => ~(WithClock(f) \/ Queued(f) \/ WithDispatcher(f) \/ InJobs(f)
                                    \/ WithWorker(f))
    /\ WithClock(f) \/ Queued(f) => ~(WithDispatcher(f) \/ InJobs(f) \/ WithWorker(f))
    /\ WithClock(f) => ~Queued(f)

(* Every payload of a packet was made from the frame its header names: no   *)
(* bundle mixes two ticks, and no stale payload of a recycled frame is sent *)
(* for a channel whose encode failed.                                       *)
Whole(p) == \A c \in p.chans : p.made[c] = p.ts

PacketsWhole ==
  /\ \A n \in DOMAIN sendCh : Whole(sendCh[n])
  /\ \A w \in Workers : Whole(worker[w].hand)

(* On the way to the DataChannel, mix time never goes back: bundles of      *)
(* successive frames are not interleaved although the frames are finished   *)
(* by different workers, and each channel's packets stay in order.          *)
Before(p, q) ==
  IF bundled THEN p.ts <= q.ts
             ELSE p.chans = q.chans => p.ts < q.ts /\ p.seq < q.seq

SendsInOrder ==
  /\ \A m, n \in DOMAIN sendCh : m < n => Before(sendCh[m], sendCh[n])
  /\ sending # NoPacket => \A n \in DOMAIN sendCh : Before(sending, sendCh[n])

(* SubmitMix returns whatever the session's goroutines do, also when they   *)
(* are gone: a session that is closing cannot stall the mix of the others.  *)
ClockNeverStalls == clock.pc # "idle" ~> clock.pc = "idle"

(* A frame that was acquired goes back to the pool, unless the session ends. *)
FramesReturn == \A f \in Frames : f \notin pool ~> (f \in pool \/ done)

(* Closing done ends every goroutine, so wg.Wait in Close returns: no send  *)
(* of the fan-out waits for a worker that is gone.                          *)
AllExit == done ~> exited = Goroutines
=============================================================================
