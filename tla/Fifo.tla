-------------------------------- MODULE Fifo --------------------------------
(***************************************************************************)
(* What Queue (mica/util/queue.h) promises: a bounded first-in first-out   *)
(* queue.  Each call takes effect in one step between the moment it is     *)
(* made and the moment it returns; enqueue() is refused only by a queue    *)
(* that holds Room items, dequeue() only by one that holds none.           *)
(***************************************************************************)
EXTENDS Integers, Sequences

CONSTANTS Producers, Consumers, Values,
          Room,       \* items the queue can hold
          Nothing     \* no call, or no answer yet

Callers == Producers \cup Consumers

VARIABLES
  contents,  \* the queue
  asked,     \* the call of each thread: the value of an enqueue(), "dequeue"
  answer     \* what the call has returned, Nothing before it takes effect

fifo == <<contents, asked, answer>>

Init ==
  /\ contents = <<>>
  /\ asked = [t \in Callers |-> Nothing]
  /\ answer = [t \in Callers |-> Nothing]

Call(t, what) ==
  /\ asked[t] = Nothing
  /\ asked' = [asked EXCEPT ![t] = what]
  /\ UNCHANGED <<contents, answer>>

Waiting(t) == asked[t] # Nothing /\ answer[t] = Nothing

Answer(t, a) ==
  /\ Waiting(t)
  /\ answer' = [answer EXCEPT ![t] = a]
  /\ UNCHANGED asked

Put(t) ==
  /\ Len(contents) < Room
  /\ contents' = Append(contents, asked[t])
  /\ Answer(t, "yes")

Refuse(t) ==
  /\ Len(contents) = Room
  /\ Answer(t, "no")
  /\ UNCHANGED contents

Take(t) ==
  /\ contents # <<>>
  /\ contents' = Tail(contents)
  /\ Answer(t, Head(contents))

Miss(t) ==
  /\ contents = <<>>
  /\ Answer(t, "no")
  /\ UNCHANGED contents

Return(t) ==
  /\ answer[t] # Nothing
  /\ asked' = [asked EXCEPT ![t] = Nothing]
  /\ answer' = [answer EXCEPT ![t] = Nothing]
  /\ UNCHANGED contents

Next ==
  \/ \E t \in Producers : Put(t) \/ Refuse(t) \/ \E v \in Values : Call(t, v)
  \/ \E t \in Consumers : Take(t) \/ Miss(t) \/ Call(t, "dequeue")
  \/ \E t \in Callers : Return(t)

Spec == Init /\ [][Next]_fifo
=============================================================================
