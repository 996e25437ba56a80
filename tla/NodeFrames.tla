----------------------------- MODULE NodeFrames -----------------------------
(***************************************************************************)
(* The frames of the current chain of provide calls (node_frames.go): the  *)
(* stack of user functions that are running, providers and late inits, the *)
(* queue of late inits still to run, and per component how many frames it  *)
(* has in both. The queue is a slice with the index of its front           *)
(* (late_init_frames_queue.go).                                            *)
(***************************************************************************)
EXTENDS ComponentNode

VARIABLES
    stack,             \* frames, the running one last
    items, frontIndex, \* lateInitsQueue: the components whose late inits are queued
    totalFramesCount, queuedLateInitsCount  \* stats, zero where there is no entry

lateInitsQueue == <<items, frontIndex>>
stats == <<totalFramesCount, queuedLateInitsCount>>
frames == <<stack, lateInitsQueue, stats>>

\* called: StartProviding has not looked at the component yet.
FrameKinds == {"called", "provider", "lateInit"}
Frame(n, k) == [node |-> n, kind |-> k]
Top == stack[Len(stack)]
Below == SubSeq(stack, 1, Len(stack) - 1)
OnStack(n, k) == {i \in DOMAIN stack : stack[i] = Frame(n, k)}

-----------------------------------------------------------------------------
(* The queue: its elements are items[frontIndex + 1 .. Len(items)]. *)

QueueLength(front, its) == IF front >= 0 THEN Len(its) - front ELSE 0
QueueLen == QueueLength(frontIndex, items)
Queue == IF frontIndex >= 0 THEN SubSeq(items, frontIndex + 1, Len(items)) ELSE <<>>

Push(n) ==
    /\ items' = Append(items, n)
    /\ frontIndex' = IF frontIndex < 0 THEN 0 ELSE frontIndex

PopFront ==
    IF QueueLen = 1 THEN items' = <<>> /\ frontIndex' = -1
                    ELSE frontIndex' = frontIndex + 1 /\ UNCHANGED items

\* The loop of DeleteNodeFrames: it takes the first `count` frames of n out of the queue,
\* and leaves the slice before the front as it is. Mutant: count > 1 for count > 0.
DeleteFrame_Mutant(n, rest, i) ==
    IF i > frontIndex /\ items[i] = n /\ rest.count > 1
    THEN [rest EXCEPT !.count = @ - 1] ELSE [rest EXCEPT !.items = Append(@, items[i])]
DeleteFrame(n, rest, i) ==
    IF i > frontIndex /\ items[i] = n /\ rest.count > 0
    THEN [rest EXCEPT !.count = @ - 1] ELSE [rest EXCEPT !.items = Append(@, items[i])]
ItemsWithout(n, count) ==
    LET rest[i \in 0 .. Len(items)] ==
            IF i = 0 THEN [items |-> <<>>, count |-> count] ELSE DeleteFrame(n, rest[i - 1], i)
    IN  rest[Len(items)].items

-----------------------------------------------------------------------------
(* Operations *)

PushProviderFrame(n) ==
    /\ stack' = Append(stack, Frame(n, "called"))
    /\ totalFramesCount' = [totalFramesCount EXCEPT ![n] = @ + 1]
    /\ UNCHANGED <<lateInitsQueue, queuedLateInitsCount>>

LateInitQueuePush(n) ==
    /\ Push(n)
    /\ totalFramesCount' = [totalFramesCount EXCEPT ![n] = @ + 1]
    /\ queuedLateInitsCount' = [queuedLateInitsCount EXCEPT ![n] = @ + 1]
    /\ UNCHANGED stack

\* The frame goes from the queue to the stack, the total stays.
PushQueuedLateInitFrameToStack ==
    /\ PopFront
    /\ stack' = Append(stack, Frame(items[frontIndex + 1], "lateInit"))
    /\ queuedLateInitsCount' = [queuedLateInitsCount EXCEPT ![items[frontIndex + 1]] = @ - 1]
    /\ UNCHANGED totalFramesCount

\* What an error takes out of the queue and of the counts.
Dropped(n, err) == IF err THEN queuedLateInitsCount[n] ELSE 0

PopTopFrame(err) ==
    LET n == Top.node
        left == ItemsWithout(n, Dropped(n, err))
        front == IF err /\ left = <<>> THEN -1 ELSE frontIndex
        cleanUp == Below = <<>> /\ QueueLength(front, left) = 0
    IN  /\ stack' = Below
        /\ items' = IF cleanUp THEN <<>> ELSE left
        /\ frontIndex' = IF cleanUp THEN -1 ELSE front
        /\ totalFramesCount' = [totalFramesCount EXCEPT ![n] = @ - 1 - Dropped(n, err)]
        /\ queuedLateInitsCount' = [queuedLateInitsCount EXCEPT ![n] = @ - Dropped(n, err)]

\* isLastNodeFrame, of the frame that a step pops. Mutant: late inits do not count.
PopsLastFrame_Mutant == \A i \in DOMAIN stack' : stack'[i].node # Top.node
PopsLastFrame == totalFramesCount'[Top.node] = 0

FramesInit ==
    /\ stack = <<>> /\ items = <<>> /\ frontIndex = -1
    /\ totalFramesCount = [n \in Comp |-> 0]
    /\ queuedLateInitsCount = [n \in Comp |-> 0]

-----------------------------------------------------------------------------
(* Properties *)

FramesTypeOK ==
    /\ stack \in Seq([node : Comp, kind : FrameKinds])
    /\ items \in Seq(Comp) /\ frontIndex \in -1 .. Len(items)
    /\ totalFramesCount \in [Comp -> Nat] /\ queuedLateInitsCount \in [Comp -> Nat]

\* The counts by which the registry tells that a component has no frame left, and how
\* many late inits an error deletes, are those of the stack and of the queue, after any
\* sequence of pushes, pops and deletions (node_frames.go:100).
InStack(n) == {i \in DOMAIN stack : stack[i].node = n}
InQueue(n) == {i \in DOMAIN Queue : Queue[i] = n}
StatsExact ==
    \A n \in Comp :
        /\ queuedLateInitsCount[n] = Cardinality(InQueue(n))
        /\ totalFramesCount[n] = Cardinality(InStack(n)) + queuedLateInitsCount[n]
=============================================================================
