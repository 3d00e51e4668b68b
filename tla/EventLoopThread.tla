--------------------------- MODULE EventLoopThread ---------------------------
(***************************************************************************)
(* A worker thread of the server with its EventLoop (server1/netlib):      *)
(* EventLoopThread creates the loop in a thread of its own, other threads  *)
(* hand it functors with queueInLoop, and its destructor quits the loop    *)
(* and joins the thread.                                                   *)
(*                                                                         *)
(* m_pendingFunctors is under m_mutex, m_isQuited and m_wakeupFd are under *)
(* no lock: each access to one of them is a step of its own.               *)
(* (What LogService has too is named after the loop here: Threads_proofs   *)
(* extends both.)                                                          *)
(***************************************************************************)
EXTENDS Naturals, Sequences

CONSTANTS Producers,  \* other threads that queue functors to this loop
          MaxJobs     \* bound: functors queued

VARIABLES loopPc,     \* where the thread of the loop is
          isQuited,   \* m_isQuited
          loopPtr,    \* m_loopPtr of EventLoopThread is not null
          eventFd,    \* the counter of m_wakeupFd is not zero
          calling,    \* m_callingPendingFunctors
          pending,    \* m_pendingFunctors
          running,    \* functors doPendingFunctors took and has still to call
          producer,   \* where each producer is in queueInLoop
          owner,      \* where the thread is that starts and destroys the loop
          \* history, read by no action:
          ran,        \* functors called, in order
          queued,     \* functors queued, in order: the numbers from 1
          early       \* quit was called before loop was entered

threadVars == <<loopPc, calling, running, ran>>
queueVars == <<pending, queued>>
loopVars == <<threadVars, isQuited, loopPtr, eventFd, queueVars, producer, owner, early>>

ASSUME LoopAssumption == MaxJobs \in Nat

LoopInit == /\ loopPc = "created"
            /\ isQuited = FALSE
            /\ loopPtr = FALSE
            /\ eventFd = FALSE
            /\ calling = FALSE
            /\ pending = <<>>
            /\ running = <<>>
            /\ producer = [p \in Producers |-> "idle"]
            /\ owner = "starting"
            /\ ran = <<>> /\ queued = <<>> /\ early = FALSE

------------------------------------------------------------------------------
(* queueInLoop, from whatever thread.                                      *)

\* Mutation: the functor is put in front.
PushFront == /\ Len(queued) < MaxJobs
             /\ queued' = Append(queued, Len(queued) + 1)
             /\ pending' = <<Len(queued) + 1>> \o pending

\* A new functor under m_mutex.
PushFunctor == /\ Len(queued) < MaxJobs
               /\ queued' = Append(queued, Len(queued) + 1)
               /\ pending' = Append(pending, Len(queued) + 1)

\* A producer finds the loop while EventLoopThread has it.
Queue(p) == /\ producer[p] = "idle" /\ loopPtr
            /\ PushFunctor
            /\ producer' = [producer EXCEPT ![p] = "queued"]
            /\ UNCHANGED <<threadVars, isQuited, loopPtr, eventFd, owner, early>>

\* Mutation: the loop is woken only while it calls functors.
WakeupWhileCalling(p) ==
  /\ producer[p] = "queued"
  /\ eventFd' = (eventFd \/ calling)
  /\ producer' = [producer EXCEPT ![p] = "idle"]
  /\ UNCHANGED <<threadVars, isQuited, loopPtr, queueVars, owner, early>>

\* Not in the thread of the loop: it is always woken.
Wakeup(p) == /\ producer[p] = "queued"
             /\ eventFd' = TRUE
             /\ producer' = [producer EXCEPT ![p] = "idle"]
             /\ UNCHANGED <<threadVars, isQuited, loopPtr, queueVars, owner, early>>

------------------------------------------------------------------------------
(* The thread of the loop: EventLoopThread::threadFunc, EventLoop::loop.   *)

At(from, to) == loopPc = from /\ loopPc' = to

\* The loop exists; startLoop is notified.
Publish == /\ At("created", "entering")
           /\ loopPtr' = TRUE
           /\ UNCHANGED <<isQuited, eventFd, calling, running, ran, queueVars, producer, owner,
                          early>>

\* loop() resets m_isQuited, whatever it was.
Enter == /\ At("entering", "check")
         /\ isQuited' = FALSE
         /\ UNCHANGED <<loopPtr, eventFd, calling, running, ran, queueVars, producer, owner,
                        early>>

Check == /\ loopPc = "check"
         /\ loopPc' = IF isQuited THEN "leaving" ELSE "poll"
         /\ UNCHANGED <<isQuited, loopPtr, eventFd, calling, running, ran, queueVars, producer,
                        owner, early>>

\* epoll_wait returns because m_wakeupFd is readable.
Woken == /\ At("poll", "woken")
         /\ eventFd
         /\ UNCHANGED <<isQuited, loopPtr, eventFd, calling, running, ran, queueVars, producer,
                        owner, early>>

\* It returns for another channel, or after kPollTimeMs.
Returns == /\ At("poll", "events")
           /\ UNCHANGED <<isQuited, loopPtr, eventFd, calling, running, ran, queueVars,
                          producer, owner, early>>

handleRead == /\ At("woken", "events")
              /\ eventFd' = FALSE
              /\ UNCHANGED <<isQuited, loopPtr, calling, running, ran, queueVars, producer,
                             owner, early>>

\* A callback of a channel queues a functor: no wakeup, the functors come next.
Callback == /\ loopPc = "events"
            /\ PushFunctor
            /\ UNCHANGED <<threadVars, isQuited, loopPtr, eventFd, producer, owner, early>>

\* doPendingFunctors takes all functors under m_mutex.
Take == /\ At("events", "functors")
        /\ calling' = TRUE
        /\ running' = pending
        /\ pending' = <<>>
        /\ UNCHANGED <<isQuited, loopPtr, eventFd, ran, queued, producer, owner, early>>

Call == /\ loopPc = "functors" /\ running # <<>>
        /\ ran' = Append(ran, Head(running))
        /\ running' = Tail(running)
        /\ UNCHANGED <<loopPc, isQuited, loopPtr, calling, producer, owner, early>>

RunFunctor == Call /\ UNCHANGED <<eventFd, queueVars>>

\* The functor queues another: the batch is being called already, so the loop
\* wakes itself.
RunAndQueue == Call /\ PushFunctor /\ eventFd' = (eventFd \/ calling)

Done == /\ At("functors", "check")
        /\ running = <<>>
        /\ calling' = FALSE
        /\ UNCHANGED <<isQuited, loopPtr, eventFd, running, ran, queueVars, producer, owner,
                       early>>

\* threadFunc returns: the loop is gone.
Leave == /\ At("leaving", "exited")
         /\ loopPtr' = FALSE
         /\ UNCHANGED <<isQuited, eventFd, calling, running, ran, queueVars, producer, owner,
                        early>>

------------------------------------------------------------------------------
(* The thread that owns the EventLoopThread.                               *)

\* startLoop waits on m_cond for m_loopPtr.
startLoop == /\ owner = "starting" /\ loopPtr
             /\ owner' = "started"
             /\ UNCHANGED <<threadVars, isQuited, loopPtr, eventFd, queueVars, producer, early>>

\* The destructor: quit() sets the flag ...
Quit == /\ owner = "started" /\ loopPtr
        /\ isQuited' = TRUE
        /\ owner' = "quitting"
        /\ early' = (loopPc = "entering")
        /\ UNCHANGED <<threadVars, loopPtr, eventFd, queueVars, producer>>

\* Mutation: ... and wakes nobody.
QuitSilently == /\ owner = "quitting"
                /\ owner' = "joining"
                /\ UNCHANGED <<threadVars, isQuited, loopPtr, eventFd, queueVars, producer, early>>

\* ... and wakes the loop up, from another thread ...
QuitWakes == /\ owner = "quitting"
             /\ eventFd' = TRUE
             /\ owner' = "joining"
             /\ UNCHANGED <<threadVars, isQuited, loopPtr, queueVars, producer, early>>

\* ... and the thread is joined.
JoinThread == /\ owner = "joining" /\ loopPc = "exited"
              /\ owner' = "joined"
              /\ UNCHANGED <<threadVars, isQuited, loopPtr, eventFd, queueVars, producer, early>>

------------------------------------------------------------------------------
\* What the thread of the loop does, but for returns of epoll_wait that nothing
\* in the model causes.
LoopThread == \/ Publish \/ Enter \/ Check \/ Woken \/ handleRead \/ Take
              \/ RunFunctor \/ RunAndQueue \/ Done \/ Leave

Owner == startLoop \/ Quit \/ QuitWakes \/ JoinThread

LoopNext == \/ LoopThread \/ Returns \/ Callback \/ Owner
            \/ \E p \in Producers : Queue(p) \/ Wakeup(p)

LoopSpec == LoopInit /\ [][LoopNext]_loopVars

\* Threads that can go on do.  Nothing is assumed of Returns: what is promised
\* below does not wait for the timeout of epoll_wait.
LoopFairSpec == /\ LoopSpec
                /\ WF_loopVars(LoopThread)
                /\ WF_loopVars(startLoop) /\ WF_loopVars(QuitWakes) /\ WF_loopVars(JoinThread)
                /\ \A p \in Producers : WF_loopVars(Wakeup(p))

------------------------------------------------------------------------------
LoopPcs == {"created", "entering", "check", "poll", "woken", "events", "functors",
            "leaving", "exited"}

\* Type invariant: in particular m_callingPendingFunctors is set exactly while
\* functors are called, and m_loopPtr exactly while there is a loop to point to.
LoopTypeOK ==
  /\ loopPc \in LoopPcs
  /\ isQuited \in BOOLEAN /\ eventFd \in BOOLEAN /\ early \in BOOLEAN
  /\ loopPtr = (loopPc \notin {"created", "exited"})
  /\ calling = (loopPc = "functors")
  /\ pending \in Seq(1..MaxJobs) /\ running \in Seq(1..MaxJobs)
  /\ ran \in Seq(1..MaxJobs) /\ queued \in Seq(1..MaxJobs)
  /\ Len(queued) <= MaxJobs
  /\ producer \in [Producers -> {"idle", "queued"}]
  /\ owner \in {"starting", "started", "quitting", "joining", "joined"}

\* However producers, callbacks and functors queue, every functor is called at
\* most once, none is lost, and they are called in the order they were queued.
RunOnceInOrder == ran \o running \o pending = queued

\* A loop does not sleep over work: when it waits in epoll_wait with a functor
\* queued or with m_isQuited set, the wakeup is there or about to come.
NoLostWakeup ==
  loopPc = "poll" =>
    /\ pending # <<>> => eventFd \/ \E p \in Producers : producer[p] = "queued"
    /\ isQuited => eventFd \/ owner = "quitting"

\* A functor that is queued is called, without the help of a timeout, unless the
\* loop is told to quit.
QueuedIsCalled ==
  \A n \in 1..MaxJobs :
    Len(queued) >= n ~> (Len(ran) >= n \/ owner \in {"quitting", "joining", "joined"})

\* The destructor returns, unless it called quit before the thread had entered
\* loop().
JoinReturnsUnlessEarly == owner = "joining" /\ ~early ~> owner = "joined"
==============================================================================
