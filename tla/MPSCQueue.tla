------------------------------ MODULE MPSCQueue ------------------------------
(***************************************************************************)
(* The queue the workers get their jobs from: a linked list that producers *)
(* append to at "tail" with an exchange and a store, and that the one      *)
(* consumer follows from "head". The node at "head" is a stub: its value   *)
(* has been taken already.                                                 *)
(*                                                                         *)
(* A step is an access to memory that another thread may see. Nodes are    *)
(* addresses: the allocator may give out again what has been deleted. The  *)
(* orderings the code asks for (release stores of what an acquiring load   *)
(* reads) make memory look sequentially consistent here.                   *)
(***************************************************************************)
EXTENDS Integers, Sequences

CONSTANTS
  Producers,  \* threads that push
  Values,     \* jobs
  Nodes,      \* addresses of nodes, a bound on those in use at a time
  Null,       \* the null pointer
  Nothing     \* what tryPop returns when it fails

ASSUME MPSCQueueAssumption == Null \notin Nodes /\ Nothing \notin Values /\ Nodes # {}

VARIABLES
  head, tail,     \* MPSCQueue's members
  next, value,    \* the fields of the nodes
  allocated,      \* the nodes that exist
  pcP,            \* producers: "idle", "exchange", "link"
  newNode, prev,  \* the local variables of push
  pcC,            \* consumer: "load", "store", "delete"
  nextC,          \* tryPop's next
  oldHead,        \* tryPop's head_copy
  taken,          \* what tryPop returned last
  chain           \* history: the nodes from head to tail, in the order of
                  \* the exchanges

memory   == <<next, value, allocated>>
producer == <<pcP, newNode, prev>>
consumer == <<pcC, nextC, oldHead, taken>>
vars == <<head, tail, memory, producer, consumer, chain>>

(* MPSCQueue::MPSCQueue: one node, the stub.                               *)
Init ==
  \E stub \in Nodes :
    /\ head = stub /\ tail = stub /\ chain = <<stub>>
    /\ allocated = {stub}
    /\ next = [n \in Nodes |-> Null]
    /\ value \in [Nodes -> {Nothing}]
    /\ pcP = [p \in Producers |-> "idle"]
    /\ newNode = [p \in Producers |-> Null] /\ prev = [p \in Producers |-> Null]
    /\ pcC = "load" /\ nextC = Null /\ oldHead = Null /\ taken = Nothing

-----------------------------------------------------------------------------
(* Mutant of PushNew: "next" of the new node is not initialized.           *)
PushUninitialized(p, v) ==
  /\ pcP[p] = "idle" /\ pcP' = [pcP EXCEPT ![p] = "exchange"]
  /\ \E n \in Nodes \ allocated, m \in Nodes \cup {Null} :
       /\ allocated' = allocated \cup {n}
       /\ next' = [next EXCEPT ![n] = m]
       /\ value' = [value EXCEPT ![n] = v]
       /\ newNode' = [newNode EXCEPT ![p] = n]
  /\ UNCHANGED <<head, tail, prev, consumer, chain>>

(* push: the new node, which nobody else knows yet ...                     *)
PushNew(p, v) ==
  /\ pcP[p] = "idle" /\ pcP' = [pcP EXCEPT ![p] = "exchange"]
  /\ \E n \in Nodes \ allocated :
       /\ allocated' = allocated \cup {n}
       /\ next' = [next EXCEPT ![n] = Null]
       /\ value' = [value EXCEPT ![n] = v]
       /\ newNode' = [newNode EXCEPT ![p] = n]
  /\ UNCHANGED <<head, tail, prev, consumer, chain>>

(* ... tail.exchange(newNode) ...                                          *)
PushExchange(p) ==
  /\ pcP[p] = "exchange" /\ pcP' = [pcP EXCEPT ![p] = "link"]
  /\ prev' = [prev EXCEPT ![p] = tail]
  /\ tail' = newNode[p]
  /\ chain' = Append(chain, newNode[p])
  /\ UNCHANGED <<head, memory, newNode, consumer>>

(* push is over: its variables are gone.                                   *)
PushReturns(p) ==
  /\ pcP[p] = "link" /\ pcP' = [pcP EXCEPT ![p] = "idle"]
  /\ newNode' = [newNode EXCEPT ![p] = Null] /\ prev' = [prev EXCEPT ![p] = Null]
  /\ UNCHANGED <<head, tail, value, allocated, consumer, chain>>

(* Mutant of PushLink: the node is linked to itself.                       *)
PushLinkSelf(p) ==
  /\ PushReturns(p)
  /\ next' = [next EXCEPT ![newNode[p]] = newNode[p]]

(* ... prev->next.store(newNode).                                          *)
PushLink(p) ==
  /\ PushReturns(p)
  /\ next' = [next EXCEPT ![prev[p]] = newNode[p]]

(* tryPop: head and head_copy->next are loaded; without a next node it     *)
(* returns false ...                                                       *)
PopLoad ==
  /\ pcC = "load"
  /\ IF next[head] = Null
     THEN taken' = Nothing /\ UNCHANGED <<pcC, nextC, oldHead>>
     ELSE pcC' = "store" /\ nextC' = next[head] /\ oldHead' = head /\ UNCHANGED taken
  /\ UNCHANGED <<head, tail, memory, producer, chain>>

(* Mutant of PopStore: the value of the node at the old head is returned.  *)
PopStoreOld ==
  /\ pcC = "store" /\ pcC' = "delete"
  /\ head' = nextC
  /\ taken' = value[oldHead]
  /\ chain' = Tail(chain)
  /\ UNCHANGED <<tail, memory, producer, nextC, oldHead>>

(* ... otherwise head.store(next), the value is moved out ...              *)
PopStore ==
  /\ pcC = "store" /\ pcC' = "delete"
  /\ head' = nextC
  /\ taken' = value[nextC]
  /\ chain' = Tail(chain)
  /\ UNCHANGED <<tail, memory, producer, nextC, oldHead>>

(* A node and what is in it, gone with the variables of tryPop.            *)
PopReturns(deleted) ==
  /\ pcC = "delete" /\ pcC' = "load"
  /\ allocated' = allocated \ {deleted}
  /\ next' = [next EXCEPT ![deleted] = Null]
  /\ value' = [value EXCEPT ![deleted] = Nothing]
  /\ nextC' = Null /\ oldHead' = Null
  /\ UNCHANGED <<head, tail, producer, taken, chain>>

(* Mutant of PopDelete: the wrong node is deleted.                         *)
PopDeleteNext == PopReturns(nextC)

(* ... and the old head is deleted.                                        *)
PopDelete == PopReturns(oldHead)

PushFinish(p) == PushExchange(p) \/ PushLink(p)
Pop           == PopLoad \/ PopStore \/ PopDelete

Next ==
  \/ \E p \in Producers : PushFinish(p) \/ \E v \in Values : PushNew(p, v)
  \/ Pop

Spec == Init /\ [][Next]_vars

(* A producer that has begun to push goes on, and the worker keeps polling.*)
FairSpec == Spec /\ WF_vars(Pop) /\ \A p \in Producers : WF_vars(PushFinish(p))

-----------------------------------------------------------------------------
TypeOK ==
  /\ head \in Nodes /\ tail \in Nodes
  /\ next \in [Nodes -> Nodes \cup {Null}]
  /\ value \in [Nodes -> Values \cup {Nothing}]
  /\ allocated \subseteq Nodes
  /\ pcP \in [Producers -> {"idle", "exchange", "link"}]
  /\ newNode \in [Producers -> Nodes \cup {Null}]
  /\ prev \in [Producers -> Nodes \cup {Null}]
  /\ pcC \in {"load", "store", "delete"}
  /\ nextC \in Nodes \cup {Null} /\ oldHead \in Nodes \cup {Null}
  /\ taken \in Values \cup {Nothing}
  /\ chain \in Seq(Nodes) /\ chain # << >>

(* No node is used after it has been deleted: not by the consumer, and not *)
(* by a producer that has lost its predecessor's node from sight between   *)
(* the exchange and the store.                                             *)
NoUseAfterDelete ==
  /\ head \in allocated /\ tail \in allocated
  /\ pcC = "store" => nextC \in allocated
  /\ pcC = "delete" => oldHead \in allocated
  /\ \A p \in Producers :
       /\ pcP[p] # "idle" => newNode[p] \in allocated
       /\ pcP[p] = "link" => prev[p] \in allocated

(* Every job that has been pushed is taken.                                *)
PushedIsTaken ==
  \A n \in Nodes : (\E i \in DOMAIN chain : chain[i] = n) ~> head = n

Fifo == INSTANCE FifoQueue WITH
  items   <- [i \in 1 .. Len(chain) - 1 |-> value[chain[i + 1]]],
  pushing <- {p \in Producers : pcP[p] = "link"},
  taken   <- taken

(* The linked list is a queue: every job once, in the order of the         *)
(* exchanges, and tryPop fails on a queue with jobs only while a producer  *)
(* is between its exchange and its store.                                  *)
ImplementsFifo == Fifo!FifoSpec

-----------------------------------------------------------------------------
(* The inductive invariant.                                                *)

(* The chain runs from head to tail, without a node twice; all of it is    *)
(* allocated, and only a node that is being appended is not in it.         *)
ChainInv ==
  /\ chain[1] = head /\ chain[Len(chain)] = tail
  /\ \A i, j \in 1 .. Len(chain) : chain[i] = chain[j] => i = j
  /\ \A i \in 1 .. Len(chain) : chain[i] \in allocated

(* A link of the chain is missing exactly while its producer is about to   *)
(* store it; the last node has none.                                       *)
LinkInv ==
  /\ next[tail] = Null
  /\ \A i \in 1 .. Len(chain) - 1 :
       \/ next[chain[i]] = chain[i + 1]
       \/ /\ next[chain[i]] = Null
          /\ \E p \in Producers : pcP[p] = "link" /\ prev[p] = chain[i]

(* What producers hold: a node of their own before the exchange, two       *)
(* neighbours of the chain after it (of which the consumer cannot pass).   *)
ProducerInv ==
  /\ \A p \in Producers : pcP[p] = "exchange" =>
       /\ newNode[p] \in allocated /\ next[newNode[p]] = Null
       /\ value[newNode[p]] \in Values
       /\ \A i \in 1 .. Len(chain) : chain[i] # newNode[p]
       /\ pcC = "delete" => oldHead # newNode[p]
  /\ \A p, q \in Producers :
       pcP[p] # "idle" /\ pcP[q] # "idle" /\ newNode[p] = newNode[q] => p = q
  /\ \A p \in Producers : pcP[p] = "link" =>
       \E i \in 1 .. Len(chain) - 1 :
         chain[i] = prev[p] /\ chain[i + 1] = newNode[p] /\ next[chain[i]] = Null

(* The consumer is about to take the second node, or to delete one that    *)
(* has left the chain.                                                     *)
ConsumerInv ==
  /\ pcC = "store" => oldHead = head /\ Len(chain) > 1 /\ nextC = chain[2]
                      /\ next[head] = chain[2]
  /\ pcC = "delete" => oldHead \in allocated /\ \A i \in 1 .. Len(chain) : chain[i] # oldHead

ValueInv == \A i \in 2 .. Len(chain) : value[chain[i]] \in Values

QueueInv == TypeOK /\ ChainInv /\ LinkInv /\ ProducerInv /\ ConsumerInv /\ ValueInv
=============================================================================
