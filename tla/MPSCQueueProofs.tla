--------------------------- MODULE MPSCQueueProofs ---------------------------
(***************************************************************************)
(* The lock-free queue is a FIFO and uses no deleted node, for any number  *)
(* of producers, nodes and jobs. QueueInv is inductive; each action is     *)
(* shown to keep its parts, and to map to a step of FifoQueue.             *)
(***************************************************************************)
EXTENDS MPSCQueue, SequenceTheorems, TLAPS

(* Appending keeps what is there and adds one element behind it.           *)
LEMMA AppendFacts ==
  ASSUME NEW S, NEW s \in Seq(S), NEW e \in S
  PROVE  /\ Append(s, e) \in Seq(S) /\ Append(s, e) # << >>
         /\ Len(Append(s, e)) = Len(s) + 1
         /\ \A i \in 1 .. Len(s) : Append(s, e)[i] = s[i]
         /\ Append(s, e)[Len(s) + 1] = e
  OBVIOUS

(* The tail is the sequence without its first element.                     *)
LEMMA TailFacts ==
  ASSUME NEW S, NEW s \in Seq(S), Len(s) > 1
  PROVE  /\ Tail(s) \in Seq(S) /\ Tail(s) # << >>
         /\ Len(Tail(s)) = Len(s) - 1
         /\ \A i \in 1 .. Len(s) - 1 : Tail(s)[i] = s[i + 1]
  OBVIOUS

(* A sequence that is not empty has a positive length.                     *)
LEMMA ChainLength ==
  ASSUME TypeOK
  PROVE  Len(chain) \in Nat /\ Len(chain) >= 1
  BY DEF TypeOK

-----------------------------------------------------------------------------
(* The queue starts with the stub alone.                                   *)
LEMMA InitQueueInv == ASSUME Init PROVE QueueInv
<1> USE MPSCQueueAssumption
<1>1. PICK stub \in Nodes :
        /\ head = stub /\ tail = stub /\ chain = <<stub>> /\ allocated = {stub}
  BY DEF Init
<1>2. value \in [Nodes -> {Nothing}] /\ next = [n \in Nodes |-> Null]
  BY DEF Init
<1>3. /\ pcP = [p \in Producers |-> "idle"]
      /\ newNode = [p \in Producers |-> Null] /\ prev = [p \in Producers |-> Null]
      /\ pcC = "load" /\ nextC = Null /\ oldHead = Null /\ taken = Nothing
  BY DEF Init
<1>4. chain \in Seq(Nodes) /\ Len(chain) = 1 /\ chain[1] = stub
  BY <1>1
<1>5. TypeOK
  BY <1>1, <1>2, <1>3, <1>4 DEF TypeOK
<1>6. ChainInv /\ LinkInv /\ ValueInv
  BY <1>1, <1>2, <1>4 DEF ChainInv, LinkInv, ValueInv
<1>7. ProducerInv /\ ConsumerInv
  BY <1>3 DEF ProducerInv, ConsumerInv
<1>8. QED
  BY <1>5, <1>6, <1>7 DEF QueueInv

(* A new node is known to nobody: it is in no place the others look at.    *)
LEMMA PushNewKeepsInv ==
  ASSUME QueueInv, NEW p \in Producers, NEW v \in Values, PushNew(p, v)
  PROVE  QueueInv'
<1> USE MPSCQueueAssumption
<1>1. TypeOK /\ ChainInv /\ LinkInv /\ ProducerInv /\ ConsumerInv /\ ValueInv
  BY DEF QueueInv
<1>2. PICK n \in Nodes \ allocated :
        /\ allocated' = allocated \cup {n}
        /\ next' = [next EXCEPT ![n] = Null]
        /\ value' = [value EXCEPT ![n] = v]
        /\ newNode' = [newNode EXCEPT ![p] = n]
  BY DEF PushNew
<1>3. /\ pcP[p] = "idle" /\ pcP' = [pcP EXCEPT ![p] = "exchange"]
      /\ UNCHANGED <<head, tail, prev, consumer, chain>>
  BY DEF PushNew
<1>4. Len(chain) \in Nat /\ Len(chain) >= 1
  BY <1>1, ChainLength
<1>5. \A i \in 1 .. Len(chain) : chain[i] \in allocated /\ chain[i] # n
  BY <1>1, <1>2 DEF ChainInv
<1>6. TypeOK'
  BY <1>1, <1>2, <1>3 DEF TypeOK, consumer
<1>7. ChainInv'
  BY <1>1, <1>2, <1>3 DEF ChainInv
<1>8. \A i \in 1 .. Len(chain) :
        chain[i] \in Nodes /\ next'[chain[i]] = next[chain[i]] /\ value'[chain[i]] = value[chain[i]]
  BY <1>1, <1>2, <1>5 DEF TypeOK
<1>9. LinkInv'
  <2>1. tail = chain[Len(chain)]
    BY <1>1 DEF ChainInv
  <2>2. next'[tail] = Null
    BY <1>1, <1>4, <1>8, <2>1 DEF LinkInv
  <2>3. ASSUME NEW i \in 1 .. Len(chain) - 1, next[chain[i]] # chain[i + 1]
        PROVE  next[chain[i]] = Null /\ \E q \in Producers : pcP'[q] = "link" /\ prev[q] = chain[i]
    BY <1>1, <1>3, <2>3 DEF LinkInv, TypeOK
  <2>4. QED
    BY <1>3, <1>4, <1>8, <2>2, <2>3 DEF LinkInv
<1>10. ProducerInv'
  <2>1. ASSUME NEW q \in Producers, pcP'[q] = "exchange"
        PROVE  /\ newNode'[q] \in allocated' /\ next'[newNode'[q]] = Null
               /\ value'[newNode'[q]] \in Values
               /\ \A i \in 1 .. Len(chain) : chain[i] # newNode'[q]
               /\ pcC = "delete" => oldHead # newNode'[q]
    <3>1. CASE q = p
      <4>1. newNode'[q] = n
        BY <1>1, <1>2, <3>1 DEF TypeOK
      <4>2. next'[n] = Null /\ value'[n] = v /\ n \in allocated'
        BY <1>1, <1>2 DEF TypeOK
      <4>3. pcC = "delete" => oldHead # n
        BY <1>1, <1>2 DEF ConsumerInv
      <4>4. QED
        BY <1>5, <4>1, <4>2, <4>3
    <3>2. CASE q # p
      <4>1. pcP[q] = "exchange" /\ newNode'[q] = newNode[q]
        BY <1>1, <1>2, <1>3, <2>1, <3>2 DEF TypeOK
      <4>2. newNode[q] \in allocated /\ newNode[q] # n
        BY <1>1, <1>2, <4>1 DEF ProducerInv
      <4>3. next'[newNode[q]] = next[newNode[q]] /\ value'[newNode[q]] = value[newNode[q]]
        BY <1>1, <1>2, <4>2 DEF TypeOK
      <4>4. QED
        BY <1>1, <1>2, <4>1, <4>2, <4>3 DEF ProducerInv
    <3>3. QED
      BY <3>1, <3>2
  <2>2. ASSUME NEW q \in Producers, q # p, pcP'[q] # "idle"
        PROVE  pcP[q] # "idle" /\ newNode'[q] = newNode[q] /\ newNode[q] # n
    <3>1. pcP[q] # "idle" /\ pcP[q] \in {"exchange", "link"} /\ newNode'[q] = newNode[q]
      BY <1>1, <1>2, <1>3, <2>2 DEF TypeOK
    <3>2. CASE pcP[q] = "exchange"
      BY <1>1, <1>2, <3>1, <3>2 DEF ProducerInv
    <3>3. CASE pcP[q] = "link"
      <4>1. PICK i \in 1 .. Len(chain) - 1 : chain[i + 1] = newNode[q]
        BY <1>1, <3>3 DEF ProducerInv
      <4>2. i + 1 \in 1 .. Len(chain)
        BY <1>4
      <4>3. QED
        BY <1>5, <3>1, <4>1, <4>2
    <3>4. QED
      BY <3>1, <3>2, <3>3
  <2>3. ASSUME NEW q \in Producers, NEW r \in Producers,
               pcP'[q] # "idle", pcP'[r] # "idle", newNode'[q] = newNode'[r]
        PROVE  q = r
    <3>1. newNode'[p] = n
      BY <1>1, <1>2 DEF TypeOK
    <3>2. QED
      BY <1>1, <2>2, <2>3, <3>1 DEF ProducerInv
  <2>4. ASSUME NEW q \in Producers, pcP'[q] = "link"
        PROVE  \E i \in 1 .. Len(chain) - 1 :
                 chain[i] = prev[q] /\ chain[i + 1] = newNode'[q] /\ next'[chain[i]] = Null
    <3>1. q # p /\ pcP[q] = "link"
      BY <1>1, <1>3, <2>4 DEF TypeOK
    <3>2. newNode'[q] = newNode[q]
      BY <1>1, <1>2, <3>1 DEF TypeOK
    <3>3. PICK i \in 1 .. Len(chain) - 1 :
            chain[i] = prev[q] /\ chain[i + 1] = newNode[q] /\ next[chain[i]] = Null
      BY <1>1, <3>1 DEF ProducerInv
    <3>4. next'[chain[i]] = Null
      BY <1>4, <1>8, <3>3
    <3>5. QED
      BY <3>2, <3>3, <3>4
  <2>5. QED
    BY <1>3, <2>1, <2>3, <2>4 DEF ProducerInv, consumer
<1>11. ConsumerInv'
  <2>1. next'[head] = next[head]
    BY <1>1, <1>4, <1>8 DEF ChainInv
  <2>2. QED
    BY <1>1, <1>2, <1>3, <2>1 DEF ConsumerInv, consumer
<1>12. ValueInv'
  BY <1>1, <1>3, <1>4, <1>8 DEF ValueInv
<1>13. QED
  BY <1>6, <1>7, <1>9, <1>10, <1>11, <1>12 DEF QueueInv

(* The exchange puts the producer's node behind the chain, before the link *)
(* to it exists.                                                           *)
LEMMA PushExchangeKeepsInv ==
  ASSUME QueueInv, NEW p \in Producers, PushExchange(p)
  PROVE  QueueInv'
<1> USE MPSCQueueAssumption
<1>1. TypeOK /\ ChainInv /\ LinkInv /\ ProducerInv /\ ConsumerInv /\ ValueInv
  BY DEF QueueInv
<1>2. /\ pcP[p] = "exchange" /\ pcP' = [pcP EXCEPT ![p] = "link"]
      /\ prev' = [prev EXCEPT ![p] = tail] /\ tail' = newNode[p]
      /\ chain' = Append(chain, newNode[p])
      /\ UNCHANGED <<head, next, value, allocated, newNode, pcC, nextC, oldHead, taken>>
  BY DEF PushExchange, memory, consumer
<1>3. Len(chain) \in Nat /\ Len(chain) >= 1
  BY <1>1, ChainLength
<1>4. /\ newNode[p] \in allocated /\ newNode[p] \in Nodes
      /\ next[newNode[p]] = Null /\ value[newNode[p]] \in Values
      /\ \A i \in 1 .. Len(chain) : chain[i] # newNode[p]
      /\ pcC = "delete" => oldHead # newNode[p]
  BY <1>1, <1>2 DEF ProducerInv, TypeOK
<1>5. /\ chain' \in Seq(Nodes) /\ chain' # << >>
      /\ Len(chain') = Len(chain) + 1
      /\ \A i \in 1 .. Len(chain) : chain'[i] = chain[i]
      /\ chain'[Len(chain) + 1] = newNode[p]
  BY <1>1, <1>2, <1>4, AppendFacts DEF TypeOK
<1>6. TypeOK'
  BY <1>1, <1>2, <1>4, <1>5 DEF TypeOK
<1>7. ChainInv'
  BY <1>1, <1>2, <1>3, <1>4, <1>5 DEF ChainInv
<1>8. tail = chain[Len(chain)] /\ next[tail] = Null
  BY <1>1 DEF ChainInv, LinkInv
<1>9. \A q \in Producers : pcP[q] = "link" =>
        q # p /\ pcP'[q] = "link" /\ prev'[q] = prev[q]
  BY <1>1, <1>2 DEF TypeOK
<1>10. pcP'[p] = "link" /\ prev'[p] = tail
  BY <1>1, <1>2 DEF TypeOK
<1>11. LinkInv'
  <2>1. ASSUME NEW i \in 1 .. Len(chain') - 1
        PROVE  \/ next'[chain'[i]] = chain'[i + 1]
               \/ /\ next'[chain'[i]] = Null
                  /\ \E q \in Producers : pcP'[q] = "link" /\ prev'[q] = chain'[i]
    <3>1. CASE i = Len(chain)
      BY <1>2, <1>3, <1>5, <1>8, <1>10, <3>1
    <3>2. CASE i # Len(chain)
      <4>1. i \in 1 .. Len(chain) - 1 /\ i \in 1 .. Len(chain) /\ i + 1 \in 1 .. Len(chain)
        BY <1>3, <1>5, <3>2
      <4>2. chain'[i] = chain[i] /\ chain'[i + 1] = chain[i + 1]
        BY <1>5, <4>1
      <4>3. CASE next[chain[i]] = chain[i + 1]
        BY <1>2, <4>2, <4>3
      <4>4. CASE next[chain[i]] # chain[i + 1]
        <5>1. PICK q \in Producers : pcP[q] = "link" /\ prev[q] = chain[i]
          BY <1>1, <4>1, <4>4 DEF LinkInv
        <5>2. next[chain[i]] = Null
          BY <1>1, <4>1, <4>4 DEF LinkInv
        <5>3. QED
          BY <1>2, <1>9, <4>2, <5>1, <5>2
      <4>5. QED
        BY <4>3, <4>4
    <3>3. QED
      BY <3>1, <3>2
  <2>2. QED
    BY <1>2, <1>4, <2>1 DEF LinkInv
<1>12. ProducerInv'
  <2>1. ASSUME NEW q \in Producers, pcP'[q] = "exchange"
        PROVE  q # p /\ pcP[q] = "exchange" /\ newNode[q] # newNode[p]
    BY <1>1, <1>2, <1>10, <2>1 DEF TypeOK, ProducerInv
  <2>2. ASSUME NEW q \in Producers, pcP'[q] = "exchange"
        PROVE  /\ newNode'[q] \in allocated' /\ next'[newNode'[q]] = Null
               /\ value'[newNode'[q]] \in Values
               /\ \A i \in 1 .. Len(chain') : chain'[i] # newNode'[q]
               /\ pcC' = "delete" => oldHead' # newNode'[q]
    <3>1. pcP[q] = "exchange" /\ newNode[q] # newNode[p]
      BY <2>1, <2>2
    <3>2. \A i \in 1 .. Len(chain) : chain[i] # newNode[q]
      BY <1>1, <3>1 DEF ProducerInv
    <3>3. \A i \in 1 .. Len(chain') : chain'[i] # newNode[q]
      BY <1>3, <1>5, <3>1, <3>2
    <3>4. QED
      BY <1>1, <1>2, <3>1, <3>3 DEF ProducerInv
  <2>3. \A q \in Producers : pcP'[q] # "idle" => pcP[q] # "idle"
    BY <1>1, <1>2 DEF TypeOK
  <2>4. ASSUME NEW q \in Producers, pcP'[q] = "link"
        PROVE  \E i \in 1 .. Len(chain') - 1 :
                 chain'[i] = prev'[q] /\ chain'[i + 1] = newNode'[q] /\ next'[chain'[i]] = Null
    <3>1. CASE q = p
      <4>1. Len(chain) \in 1 .. Len(chain') - 1 /\ Len(chain) \in 1 .. Len(chain)
        BY <1>3, <1>5
      <4>2. chain'[Len(chain)] = tail
        BY <1>5, <1>8, <4>1
      <4>3. QED
        BY <1>2, <1>5, <1>8, <1>10, <3>1, <4>1, <4>2
    <3>2. CASE q # p
      <4>1. pcP[q] = "link"
        BY <1>1, <1>2, <2>4, <3>2 DEF TypeOK
      <4>2. PICK i \in 1 .. Len(chain) - 1 :
              chain[i] = prev[q] /\ chain[i + 1] = newNode[q] /\ next[chain[i]] = Null
        BY <1>1, <4>1 DEF ProducerInv
      <4>3. i \in 1 .. Len(chain') - 1 /\ i \in 1 .. Len(chain) /\ i + 1 \in 1 .. Len(chain)
        BY <1>3, <1>5
      <4>4. chain'[i] = chain[i] /\ chain'[i + 1] = chain[i + 1]
        BY <1>5, <4>3
      <4>5. QED
        BY <1>2, <1>9, <4>1, <4>2, <4>3, <4>4
    <3>3. QED
      BY <3>1, <3>2
  <2>5. \A q, r \in Producers :
          pcP'[q] # "idle" /\ pcP'[r] # "idle" /\ newNode'[q] = newNode'[r] => q = r
    BY <1>1, <1>2, <2>3 DEF ProducerInv
  <2>6. QED
    BY <2>2, <2>4, <2>5 DEF ProducerInv
<1>13. ConsumerInv'
  <2>1. ASSUME pcC' = "store"
        PROVE  /\ oldHead' = head' /\ Len(chain') > 1 /\ nextC' = chain'[2]
               /\ next'[head'] = chain'[2]
    <3>1. oldHead = head /\ Len(chain) > 1 /\ nextC = chain[2] /\ next[head] = chain[2]
      BY <1>1, <1>2, <2>1 DEF ConsumerInv
    <3>2. 2 \in 1 .. Len(chain)
      BY <1>3, <3>1
    <3>3. QED
      BY <1>2, <1>3, <1>5, <3>1, <3>2
  <2>2. ASSUME pcC' = "delete"
        PROVE  oldHead' \in allocated' /\ \A i \in 1 .. Len(chain') : chain'[i] # oldHead'
    <3>1. oldHead \in allocated /\ oldHead # newNode[p]
          /\ \A i \in 1 .. Len(chain) : chain[i] # oldHead
      BY <1>1, <1>2, <1>4, <2>2 DEF ConsumerInv
    <3>2. QED
      BY <1>2, <1>3, <1>5, <3>1
  <2>3. QED
    BY <2>1, <2>2 DEF ConsumerInv
<1>14. ValueInv'
  <2>1. ASSUME NEW i \in 2 .. Len(chain') PROVE value'[chain'[i]] \in Values
    <3>1. CASE i = Len(chain) + 1
      BY <1>2, <1>4, <1>5, <3>1
    <3>2. CASE i # Len(chain) + 1
      <4>1. i \in 2 .. Len(chain) /\ i \in 1 .. Len(chain)
        BY <1>3, <1>5, <3>2
      <4>2. QED
        BY <1>1, <1>2, <1>5, <4>1 DEF ValueInv
    <3>3. QED
      BY <3>1, <3>2
  <2>2. QED
    BY <2>1 DEF ValueInv
<1>15. QED
  BY <1>6, <1>7, <1>11, <1>12, <1>13, <1>14 DEF QueueInv

(* The store closes the one gap that is this producer's own.               *)
LEMMA PushLinkKeepsInv ==
  ASSUME QueueInv, NEW p \in Producers, PushLink(p)
  PROVE  QueueInv'
<1> USE MPSCQueueAssumption
<1>1. TypeOK /\ ChainInv /\ LinkInv /\ ProducerInv /\ ConsumerInv /\ ValueInv
  BY DEF QueueInv
<1>2. /\ pcP[p] = "link" /\ pcP' = [pcP EXCEPT ![p] = "idle"]
      /\ newNode' = [newNode EXCEPT ![p] = Null] /\ prev' = [prev EXCEPT ![p] = Null]
      /\ next' = [next EXCEPT ![prev[p]] = newNode[p]]
      /\ UNCHANGED <<head, tail, value, allocated, pcC, nextC, oldHead, taken, chain>>
  BY DEF PushLink, PushReturns, consumer
<1>3. Len(chain) \in Nat /\ Len(chain) >= 1
  BY <1>1, ChainLength
<1>4. PICK k \in 1 .. Len(chain) - 1 :
        chain[k] = prev[p] /\ chain[k + 1] = newNode[p] /\ next[chain[k]] = Null
  BY <1>1, <1>2 DEF ProducerInv
<1>5. \A i \in 1 .. Len(chain) : chain[i] \in Nodes
  BY <1>1 DEF TypeOK
<1>6. k \in 1 .. Len(chain) /\ k + 1 \in 1 .. Len(chain)
  BY <1>3
<1>7. prev[p] \in Nodes /\ newNode[p] \in Nodes
  BY <1>4, <1>5, <1>6
<1>8. TypeOK'
  BY <1>1, <1>2, <1>7 DEF TypeOK
<1>9. ChainInv' /\ ValueInv'
  BY <1>1, <1>2 DEF ChainInv, ValueInv
<1>10. /\ next'[chain[k]] = chain[k + 1]
       /\ \A n \in Nodes : n # chain[k] => next'[n] = next[n]
  BY <1>1, <1>2, <1>4, <1>7 DEF TypeOK
<1>11. \A i \in 1 .. Len(chain) : i # k => chain[i] # chain[k] /\ next'[chain[i]] = next[chain[i]]
  BY <1>1, <1>5, <1>6, <1>10 DEF ChainInv
<1>12. \A q \in Producers : q # p =>
         pcP'[q] = pcP[q] /\ newNode'[q] = newNode[q] /\ prev'[q] = prev[q]
  BY <1>1, <1>2 DEF TypeOK
<1>13. pcP'[p] = "idle"
  BY <1>1, <1>2 DEF TypeOK
<1>14. LinkInv'
  <2>1. next'[tail'] = Null
    <3>1. tail = chain[Len(chain)] /\ Len(chain) # k /\ Len(chain) \in 1 .. Len(chain)
      BY <1>1, <1>3 DEF ChainInv
    <3>2. QED
      BY <1>1, <1>2, <1>11, <3>1 DEF LinkInv
  <2>2. ASSUME NEW i \in 1 .. Len(chain) - 1
        PROVE  \/ next'[chain[i]] = chain[i + 1]
               \/ /\ next'[chain[i]] = Null
                  /\ \E q \in Producers : pcP'[q] = "link" /\ prev'[q] = chain[i]
    <3>1. CASE i = k
      BY <1>10, <3>1
    <3>2. CASE i # k /\ next[chain[i]] = chain[i + 1]
      BY <1>3, <1>11, <3>2
    <3>3. CASE i # k /\ next[chain[i]] # chain[i + 1]
      <4>1. PICK q \in Producers : pcP[q] = "link" /\ prev[q] = chain[i]
        BY <1>1, <3>3 DEF LinkInv
      <4>2. next[chain[i]] = Null
        BY <1>1, <3>3 DEF LinkInv
      <4>3. chain[i] # chain[k] /\ next'[chain[i]] = Null
        BY <1>3, <1>11, <3>3, <4>2
      <4>4. q # p
        BY <1>4, <4>1, <4>3
      <4>5. QED
        BY <1>12, <4>1, <4>3, <4>4
    <3>4. QED
      BY <3>1, <3>2, <3>3
  <2>3. QED
    BY <1>2, <2>1, <2>2 DEF LinkInv
<1>15. ProducerInv'
  <2>1. ASSUME NEW q \in Producers, pcP'[q] = "exchange"
        PROVE  /\ newNode'[q] \in allocated' /\ next'[newNode'[q]] = Null
               /\ value'[newNode'[q]] \in Values
               /\ \A i \in 1 .. Len(chain') : chain'[i] # newNode'[q]
               /\ pcC' = "delete" => oldHead' # newNode'[q]
    <3>1. q # p /\ pcP[q] = "exchange" /\ newNode'[q] = newNode[q]
      BY <1>12, <1>13, <2>1
    <3>2. newNode[q] # chain[k] /\ newNode[q] \in Nodes
      BY <1>1, <1>6, <3>1 DEF ProducerInv, TypeOK
    <3>3. QED
      BY <1>1, <1>2, <1>10, <3>1, <3>2 DEF ProducerInv
  <2>2. ASSUME NEW q \in Producers, NEW r \in Producers,
               pcP'[q] # "idle", pcP'[r] # "idle", newNode'[q] = newNode'[r]
        PROVE  q = r
    BY <1>1, <1>12, <1>13, <2>2 DEF ProducerInv
  <2>3. ASSUME NEW q \in Producers, pcP'[q] = "link"
        PROVE  \E i \in 1 .. Len(chain') - 1 :
                 chain'[i] = prev'[q] /\ chain'[i + 1] = newNode'[q] /\ next'[chain'[i]] = Null
    <3>1. q # p /\ pcP[q] = "link" /\ newNode'[q] = newNode[q] /\ prev'[q] = prev[q]
      BY <1>12, <1>13, <2>3
    <3>2. PICK i \in 1 .. Len(chain) - 1 :
            chain[i] = prev[q] /\ chain[i + 1] = newNode[q] /\ next[chain[i]] = Null
      BY <1>1, <3>1 DEF ProducerInv
    <3>3. newNode[q] # newNode[p]
      BY <1>1, <1>2, <3>1 DEF ProducerInv
    <3>4. i # k /\ i \in 1 .. Len(chain)
      BY <1>3, <1>4, <3>2, <3>3
    <3>5. QED
      BY <1>2, <1>11, <3>1, <3>2, <3>4
  <2>4. QED
    BY <2>1, <2>2, <2>3 DEF ProducerInv
<1>16. ConsumerInv'
  <2>1. CASE pcC = "store"
    <3>1. next[head] = chain[2] /\ Len(chain) > 1
      BY <1>1, <2>1 DEF ConsumerInv
    <3>2. chain[2] \in Nodes
      BY <1>3, <1>5, <3>1
    <3>3. k # 1 /\ 1 \in 1 .. Len(chain) /\ head = chain[1]
      BY <1>1, <1>3, <1>4, <3>1, <3>2 DEF ChainInv
    <3>4. next'[head] = next[head]
      BY <1>11, <3>3
    <3>5. QED
      BY <1>1, <1>2, <2>1, <3>4 DEF ConsumerInv
  <2>2. CASE pcC # "store"
    BY <1>1, <1>2, <2>2 DEF ConsumerInv
  <2>3. QED
    BY <2>1, <2>2
<1>17. QED
  BY <1>8, <1>9, <1>14, <1>15, <1>16 DEF QueueInv

(* A successor that is found is the second node of the chain.              *)
LEMMA PopLoadKeepsInv ==
  ASSUME QueueInv, PopLoad
  PROVE  QueueInv'
<1> USE MPSCQueueAssumption
<1>1. TypeOK /\ ChainInv /\ LinkInv /\ ProducerInv /\ ConsumerInv /\ ValueInv
  BY DEF QueueInv
<1>2. pcC = "load" /\ UNCHANGED <<head, tail, next, value, allocated, pcP, newNode, prev, chain>>
  BY DEF PopLoad, memory, producer
<1>3. Len(chain) \in Nat /\ Len(chain) >= 1
  BY <1>1, ChainLength
<1>4. ChainInv' /\ LinkInv' /\ ValueInv'
  BY <1>1, <1>2 DEF ChainInv, LinkInv, ValueInv
<1>5. CASE next[head] = Null
  <2>1. taken' = Nothing /\ UNCHANGED <<pcC, nextC, oldHead>>
    BY <1>5 DEF PopLoad
  <2>2. TypeOK'
    BY <1>1, <1>2, <2>1 DEF TypeOK
  <2>3. ProducerInv' /\ ConsumerInv'
    BY <1>1, <1>2, <2>1 DEF ProducerInv, ConsumerInv
  <2>4. QED
    BY <1>4, <2>2, <2>3 DEF QueueInv
<1>6. CASE next[head] # Null
  <2>1. pcC' = "store" /\ nextC' = next[head] /\ oldHead' = head /\ taken' = taken
    BY <1>6 DEF PopLoad
  <2>2. TypeOK'
    BY <1>1, <1>2, <2>1 DEF TypeOK
  <2>3. ProducerInv'
    BY <1>1, <1>2, <2>1 DEF ProducerInv
  <2>4. head = chain[1] /\ tail = chain[Len(chain)] /\ next[tail] = Null
    BY <1>1 DEF ChainInv, LinkInv
  <2>5. Len(chain) > 1 /\ 1 \in 1 .. Len(chain) - 1
    BY <1>3, <1>6, <2>4
  <2>6. next[head] = chain[2]
    BY <1>1, <1>6, <2>4, <2>5 DEF LinkInv
  <2>7. ConsumerInv'
    BY <1>2, <2>1, <2>5, <2>6 DEF ConsumerInv
  <2>8. QED
    BY <1>4, <2>2, <2>3, <2>7 DEF QueueInv
<1>7. QED
  BY <1>5, <1>6

(* No producer is about to store into the node that leaves the chain.      *)
LEMMA PopStoreKeepsInv ==
  ASSUME QueueInv, PopStore
  PROVE  QueueInv'
<1> USE MPSCQueueAssumption
<1>1. TypeOK /\ ChainInv /\ LinkInv /\ ProducerInv /\ ConsumerInv /\ ValueInv
  BY DEF QueueInv
<1>2. /\ pcC = "store" /\ pcC' = "delete"
      /\ head' = nextC /\ taken' = value[nextC] /\ chain' = Tail(chain)
      /\ UNCHANGED <<tail, next, value, allocated, pcP, newNode, prev, nextC, oldHead>>
  BY DEF PopStore, memory, producer
<1>3. /\ oldHead = head /\ Len(chain) > 1 /\ nextC = chain[2] /\ next[head] = chain[2]
      /\ head = chain[1] /\ Len(chain) \in Nat
  BY <1>1, <1>2, ChainLength DEF ConsumerInv, ChainInv
<1>4. /\ chain' \in Seq(Nodes) /\ chain' # << >>
      /\ Len(chain') = Len(chain) - 1
      /\ \A i \in 1 .. Len(chain) - 1 : chain'[i] = chain[i + 1]
  BY <1>1, <1>2, <1>3, TailFacts DEF TypeOK
<1>5. chain[2] \in Nodes /\ chain[1] \in Nodes
  BY <1>1, <1>3 DEF TypeOK
<1>6. \A i \in 1 .. Len(chain') : i + 1 \in 1 .. Len(chain) /\ chain'[i] = chain[i + 1]
  BY <1>3, <1>4
<1>7. TypeOK'
  BY <1>1, <1>2, <1>3, <1>4, <1>5 DEF TypeOK
<1>8. ChainInv'
  <2>1. chain'[1] = head' /\ chain'[Len(chain')] = tail'
    BY <1>1, <1>2, <1>3, <1>4 DEF ChainInv
  <2>2. \A i, j \in 1 .. Len(chain') : chain'[i] = chain'[j] => i = j
    BY <1>1, <1>3, <1>4, <1>6 DEF ChainInv
  <2>3. QED
    BY <1>1, <1>2, <1>6, <2>1, <2>2 DEF ChainInv
<1>9. LinkInv'
  <2>1. ASSUME NEW i \in 1 .. Len(chain') - 1
        PROVE  \/ next'[chain'[i]] = chain'[i + 1]
               \/ /\ next'[chain'[i]] = Null
                  /\ \E q \in Producers : pcP'[q] = "link" /\ prev'[q] = chain'[i]
    <3>1. i + 1 \in 1 .. Len(chain) - 1 /\ i \in 1 .. Len(chain') /\ i + 1 \in 1 .. Len(chain')
      BY <1>3, <1>4
    <3>2. chain'[i] = chain[i + 1] /\ chain'[i + 1] = chain[(i + 1) + 1]
      BY <1>6, <3>1
    <3>3. QED
      BY <1>1, <1>2, <3>1, <3>2 DEF LinkInv
  <2>2. QED
    BY <1>1, <1>2, <2>1 DEF LinkInv
<1>10. ProducerInv'
  <2>1. ASSUME NEW q \in Producers, pcP[q] = "exchange"
        PROVE  \A i \in 1 .. Len(chain') : chain'[i] # newNode[q]
    BY <1>1, <1>6, <2>1 DEF ProducerInv
  <2>2. ASSUME NEW q \in Producers, pcP[q] = "exchange"
        PROVE  oldHead # newNode[q]
    BY <1>1, <1>3, <2>2 DEF ProducerInv
  <2>3. ASSUME NEW q \in Producers, pcP[q] = "link"
        PROVE  \E i \in 1 .. Len(chain') - 1 :
                 chain'[i] = prev[q] /\ chain'[i + 1] = newNode[q] /\ next[chain'[i]] = Null
    <3>1. PICK i \in 1 .. Len(chain) - 1 :
            chain[i] = prev[q] /\ chain[i + 1] = newNode[q] /\ next[chain[i]] = Null
      BY <1>1, <2>3 DEF ProducerInv
    <3>2. i # 1
      BY <1>3, <1>5, <3>1
    <3>3. i - 1 \in 1 .. Len(chain') - 1 /\ i - 1 \in 1 .. Len(chain') /\ i \in 1 .. Len(chain')
      BY <1>3, <1>4, <3>2
    <3>4. chain'[i - 1] = chain[i] /\ chain'[(i - 1) + 1] = chain[i + 1]
      BY <1>6, <3>3
    <3>5. QED
      BY <3>1, <3>3, <3>4
  <2>4. QED
    BY <1>1, <1>2, <2>1, <2>2, <2>3 DEF ProducerInv
<1>11. ConsumerInv'
  <2>1. oldHead \in allocated
    BY <1>1, <1>3 DEF ChainInv
  <2>2. ASSUME NEW i \in 1 .. Len(chain') PROVE chain'[i] # oldHead
    <3>1. i + 1 \in 1 .. Len(chain) /\ 1 \in 1 .. Len(chain) /\ i + 1 # 1
      BY <1>3, <1>4
    <3>2. chain'[i] = chain[i + 1] /\ oldHead = chain[1]
      BY <1>1, <1>3, <1>6 DEF ChainInv
    <3>3. QED
      BY <1>1, <3>1, <3>2 DEF ChainInv
  <2>3. QED
    BY <1>2, <2>1, <2>2 DEF ConsumerInv
<1>12. ValueInv'
  <2>1. ASSUME NEW i \in 2 .. Len(chain') PROVE value'[chain'[i]] \in Values
    <3>1. i \in 1 .. Len(chain') /\ i + 1 \in 2 .. Len(chain)
      BY <1>3, <1>4
    <3>2. QED
      BY <1>1, <1>2, <1>6, <3>1 DEF ValueInv
  <2>2. QED
    BY <2>1 DEF ValueInv
<1>13. QED
  BY <1>7, <1>8, <1>9, <1>10, <1>11, <1>12 DEF QueueInv

(* What is deleted is in nobody's hands.                                   *)
LEMMA PopDeleteKeepsInv ==
  ASSUME QueueInv, PopDelete
  PROVE  QueueInv'
<1> USE MPSCQueueAssumption
<1>1. TypeOK /\ ChainInv /\ LinkInv /\ ProducerInv /\ ConsumerInv /\ ValueInv
  BY DEF QueueInv
<1>2. /\ pcC = "delete" /\ pcC' = "load" /\ nextC' = Null /\ oldHead' = Null
      /\ allocated' = allocated \ {oldHead}
      /\ next' = [next EXCEPT ![oldHead] = Null]
      /\ value' = [value EXCEPT ![oldHead] = Nothing]
      /\ UNCHANGED <<head, tail, pcP, newNode, prev, taken, chain>>
  BY DEF PopDelete, PopReturns, producer
<1>3. Len(chain) \in Nat /\ Len(chain) >= 1
  BY <1>1, ChainLength
<1>4. /\ oldHead \in allocated
      /\ \A i \in 1 .. Len(chain) : chain[i] # oldHead
  BY <1>1, <1>2 DEF ConsumerInv
<1>5. \A i \in 1 .. Len(chain) :
        next'[chain[i]] = next[chain[i]] /\ value'[chain[i]] = value[chain[i]]
  BY <1>1, <1>2, <1>4 DEF TypeOK
<1>6. TypeOK'
  BY <1>1, <1>2 DEF TypeOK
<1>7. ChainInv'
  BY <1>1, <1>2, <1>4 DEF ChainInv
<1>8. LinkInv'
  <2>1. next'[tail] = Null
    BY <1>1, <1>3, <1>5 DEF ChainInv, LinkInv
  <2>2. \A i \in 1 .. Len(chain) - 1 : next'[chain[i]] = next[chain[i]]
    BY <1>3, <1>5
  <2>3. QED
    BY <1>1, <1>2, <2>1, <2>2 DEF LinkInv
<1>9. ProducerInv'
  <2>1. ASSUME NEW q \in Producers, pcP[q] = "exchange"
        PROVE  /\ newNode[q] \in allocated' /\ next'[newNode[q]] = Null
               /\ value'[newNode[q]] \in Values
    <3>1. newNode[q] # oldHead /\ newNode[q] \in Nodes
      BY <1>1, <1>2, <2>1 DEF ProducerInv, TypeOK
    <3>2. next'[newNode[q]] = next[newNode[q]] /\ value'[newNode[q]] = value[newNode[q]]
      BY <1>1, <1>2, <3>1 DEF TypeOK
    <3>3. QED
      BY <1>1, <1>2, <2>1, <3>1, <3>2 DEF ProducerInv
  <2>2. \A i \in 1 .. Len(chain) - 1 : next'[chain[i]] = next[chain[i]]
    BY <1>3, <1>5
  <2>3. QED
    BY <1>1, <1>2, <2>1, <2>2 DEF ProducerInv
<1>10. ConsumerInv'
  BY <1>2 DEF ConsumerInv
<1>11. ValueInv'
  BY <1>1, <1>2, <1>3, <1>5 DEF ValueInv
<1>12. QED
  BY <1>6, <1>7, <1>8, <1>9, <1>10, <1>11 DEF QueueInv

-----------------------------------------------------------------------------
(* The invariant of the queue: the nodes from head to tail are a chain in  *)
(* the order of the exchanges, with a gap where a push is under way.       *)
THEOREM QueueInvHolds == Spec => []QueueInv
<1>1. Init => QueueInv
  BY InitQueueInv
<1>2. QueueInv /\ [Next]_vars => QueueInv'
  <2> SUFFICES ASSUME QueueInv, [Next]_vars PROVE QueueInv'
    OBVIOUS
  <2>1. CASE \E p \in Producers : PushExchange(p)
    BY <2>1, PushExchangeKeepsInv
  <2>2. CASE \E p \in Producers : PushLink(p)
    BY <2>2, PushLinkKeepsInv
  <2>3. CASE \E p \in Producers, v \in Values : PushNew(p, v)
    BY <2>3, PushNewKeepsInv
  <2>4. CASE Pop
    BY <2>4, PopLoadKeepsInv, PopStoreKeepsInv, PopDeleteKeepsInv DEF Pop
  <2>5. CASE UNCHANGED vars
    BY <2>5 DEF vars, memory, producer, consumer, QueueInv, TypeOK, ChainInv, LinkInv,
                ProducerInv, ConsumerInv, ValueInv
  <2>6. QED
    BY <2>1, <2>2, <2>3, <2>4, <2>5 DEF Next, PushFinish
<1>3. QED
  BY <1>1, <1>2, PTL DEF Spec

(* The delete in tryPop never takes a node from a producer between its     *)
(* exchange and its store, nor from the consumer.                          *)
THEOREM NodesAreSafe == Spec => []NoUseAfterDelete
<1>1. QueueInv => NoUseAfterDelete
  <2> SUFFICES ASSUME QueueInv PROVE NoUseAfterDelete
    OBVIOUS
  <2>1. TypeOK /\ ChainInv /\ LinkInv /\ ProducerInv /\ ConsumerInv
    BY DEF QueueInv
  <2>2. Len(chain) \in Nat /\ Len(chain) >= 1
    BY <2>1, ChainLength
  <2>3. head \in allocated /\ tail \in allocated
    BY <2>1, <2>2 DEF ChainInv
  <2>4. pcC = "store" => nextC \in allocated
    BY <2>1, <2>2 DEF ChainInv, ConsumerInv
  <2>5. pcC = "delete" => oldHead \in allocated
    BY <2>1 DEF ConsumerInv
  <2>6. ASSUME NEW p \in Producers, pcP[p] = "link"
        PROVE  prev[p] \in allocated /\ newNode[p] \in allocated
    <3>1. PICK i \in 1 .. Len(chain) - 1 : chain[i] = prev[p] /\ chain[i + 1] = newNode[p]
      BY <2>1, <2>6 DEF ProducerInv
    <3>2. i \in 1 .. Len(chain) /\ i + 1 \in 1 .. Len(chain)
      BY <2>2
    <3>3. QED
      BY <2>1, <3>1, <3>2 DEF ChainInv
  <2>7. ASSUME NEW p \in Producers, pcP[p] = "exchange"
        PROVE  newNode[p] \in allocated
    BY <2>1, <2>7 DEF ProducerInv
  <2>8. \A p \in Producers : pcP[p] \in {"idle", "exchange", "link"}
    BY <2>1 DEF TypeOK
  <2>9. QED
    BY <2>3, <2>4, <2>5, <2>6, <2>7, <2>8 DEF NoUseAfterDelete
<1>2. QED
  BY <1>1, QueueInvHolds, PTL

-----------------------------------------------------------------------------
(* Functions on 1 .. n are sequences: the items of the queue are given as   *)
(* such a function, and FifoQueue changes them with Append, Head and Tail.  *)
LEMMA TableIsSeq ==
  ASSUME NEW S, NEW n \in Nat, NEW f \in [1 .. n -> S]
  PROVE  f \in Seq(S) /\ Len(f) = n /\ (f = << >> <=> n = 0)
<1>1. f \in Seq(S)
  BY SeqDef
<1>2. Len(f) = n
  BY <1>1, LenProperties
<1>3. QED
  BY <1>1, <1>2, EmptySeq

LEMMA TableAppend ==
  ASSUME NEW S, NEW n \in Nat, NEW f \in [1 .. n -> S], NEW g \in [1 .. n + 1 -> S],
         \A i \in 1 .. n : g[i] = f[i]
  PROVE  g = Append(f, g[n + 1])
<1> DEFINE h == Append(f, g[n + 1])
<1>1. f \in Seq(S) /\ Len(f) = n /\ g \in Seq(S) /\ Len(g) = n + 1 /\ g[n + 1] \in S
  BY TableIsSeq
<1>2. h \in Seq(S) /\ Len(h) = n + 1 /\ \A i \in 1 .. n + 1 : h[i] = g[i]
  BY <1>1, AppendProperties
<1>3. QED
  BY <1>1, <1>2, SeqEqual

LEMMA TableTail ==
  ASSUME NEW S, NEW n \in Nat, NEW f \in [1 .. n + 1 -> S], NEW g \in [1 .. n -> S],
         \A i \in 1 .. n : g[i] = f[i + 1]
  PROVE  f # << >> /\ Head(f) = f[1] /\ g = Tail(f)
<1>1. f \in Seq(S) /\ Len(f) = n + 1 /\ g \in Seq(S) /\ Len(g) = n /\ f # << >>
  BY TableIsSeq
<1>2. /\ Head(f) = f[1] /\ Tail(f) \in Seq(S) /\ Len(Tail(f)) = n
      /\ \A i \in 1 .. n : Tail(f)[i] = f[i + 1]
  BY <1>1, HeadTailProperties
<1>3. QED
  BY <1>1, <1>2, SeqEqual

-----------------------------------------------------------------------------
(* The refinement mapping.                                                 *)
Items   == [i \in 1 .. Len(chain) - 1 |-> value[chain[i + 1]]]
Pushing == {p \in Producers : pcP[p] = "link"}

(* The items are the jobs of the nodes behind the stub.                    *)
LEMMA ItemsAreValues ==
  ASSUME QueueInv
  PROVE  /\ Len(chain) - 1 \in Nat
         /\ Items \in [1 .. Len(chain) - 1 -> Values]
         /\ ~ (Len(chain) > 1) => Items = << >>
<1>1. Len(chain) \in Nat /\ Len(chain) >= 1
  BY ChainLength DEF QueueInv
<1>2. ASSUME NEW i \in 1 .. Len(chain) - 1 PROVE value[chain[i + 1]] \in Values
  BY <1>1, <1>2 DEF QueueInv, ValueInv
<1>3. Items \in [1 .. Len(chain) - 1 -> Values]
  BY <1>2 DEF Items
<1>4. ASSUME ~ (Len(chain) > 1) PROVE Items = << >>
  <2>1. \A k \in Nat : k >= 1 /\ ~ (k > 1) => k - 1 = 0
    OBVIOUS
  <2>2. Items \in [1 .. 0 -> Values]
    BY <1>1, <1>3, <1>4, <2>1
  <2>3. QED
    BY <2>2, TableIsSeq
<1>5. QED
  BY <1>1, <1>3, <1>4

LEMMA InitMapsToInit == ASSUME Init PROVE Fifo!FifoInit
<1>1. QueueInv /\ Len(chain) = 1
  BY InitQueueInv DEF Init
<1>2. Items = << >>
  BY <1>1, ItemsAreValues
<1>3. Pushing = {} /\ taken = Nothing
  BY DEF Init, Pushing
<1>4. QED
  BY <1>2, <1>3 DEF Fifo!FifoInit, Items, Pushing

(* A new node is not in the chain, and a deleted one has left it.          *)
LEMMA PushNewMapsToStutter ==
  ASSUME QueueInv, NEW p \in Producers, NEW v \in Values, PushNew(p, v)
  PROVE  Items' = Items /\ Pushing' = Pushing /\ taken' = taken
<1>1. TypeOK /\ ChainInv
  BY DEF QueueInv
<1>2. PICK n \in Nodes \ allocated : value' = [value EXCEPT ![n] = v]
  BY DEF PushNew
<1>3. chain' = chain /\ taken' = taken /\ pcP[p] = "idle" /\ pcP' = [pcP EXCEPT ![p] = "exchange"]
  BY DEF PushNew, consumer
<1>4. ASSUME NEW i \in 1 .. Len(chain) - 1 PROVE value'[chain[i + 1]] = value[chain[i + 1]]
  <2>1. i + 1 \in 1 .. Len(chain)
    BY <1>1, ChainLength
  <2>2. chain[i + 1] \in allocated /\ chain[i + 1] \in Nodes
    BY <1>1, <2>1 DEF ChainInv, TypeOK
  <2>3. QED
    BY <1>1, <1>2, <2>2 DEF TypeOK
<1>5. Items' = Items
  BY <1>3, <1>4 DEF Items
<1>6. Pushing' = Pushing
  BY <1>1, <1>3 DEF Pushing, TypeOK
<1>7. QED
  BY <1>3, <1>5, <1>6

LEMMA PopDeleteMapsToStutter ==
  ASSUME QueueInv, PopDelete
  PROVE  Items' = Items /\ Pushing' = Pushing /\ taken' = taken
<1>1. TypeOK /\ ConsumerInv
  BY DEF QueueInv
<1>2. /\ pcC = "delete" /\ value' = [value EXCEPT ![oldHead] = Nothing]
      /\ chain' = chain /\ taken' = taken /\ pcP' = pcP
  BY DEF PopDelete, PopReturns, producer
<1>3. ASSUME NEW i \in 1 .. Len(chain) - 1 PROVE value'[chain[i + 1]] = value[chain[i + 1]]
  <2>1. i + 1 \in 1 .. Len(chain)
    BY <1>1, ChainLength
  <2>2. chain[i + 1] # oldHead /\ chain[i + 1] \in Nodes
    BY <1>1, <1>2, <2>1 DEF ConsumerInv, TypeOK
  <2>3. QED
    BY <1>1, <1>2, <2>2 DEF TypeOK
<1>4. Items' = Items
  BY <1>2, <1>3 DEF Items
<1>5. QED
  BY <1>2, <1>4 DEF Pushing

(* A job takes its place with the exchange ...                             *)
LEMMA PushExchangeMapsToPlace ==
  ASSUME QueueInv, NEW p \in Producers, PushExchange(p)
  PROVE  value[newNode[p]] \in Values /\ Fifo!Place(p, value[newNode[p]])
<1>1. TypeOK /\ ProducerInv
  BY DEF QueueInv
<1>2. /\ pcP[p] = "exchange" /\ pcP' = [pcP EXCEPT ![p] = "link"]
      /\ chain' = Append(chain, newNode[p]) /\ value' = value /\ taken' = taken
  BY DEF PushExchange, memory, consumer
<1> DEFINE n == Len(chain) - 1
<1>3. newNode[p] \in Nodes /\ value[newNode[p]] \in Values
  <2>1. newNode[p] \in allocated /\ value[newNode[p]] \in Values
    BY <1>1, <1>2 DEF ProducerInv
  <2>2. QED
    BY <1>1, <2>1 DEF TypeOK
<1>4. /\ Len(chain') - 1 = n + 1 /\ n \in Nat
      /\ \A i \in 1 .. n : chain'[i + 1] = chain[i + 1]
      /\ chain'[(n + 1) + 1] = newNode[p]
  <2>1. /\ Len(chain') = Len(chain) + 1
        /\ \A i \in 1 .. Len(chain) : chain'[i] = chain[i]
        /\ chain'[Len(chain) + 1] = newNode[p]
    BY <1>1, <1>2, <1>3, AppendFacts DEF TypeOK
  <2>2. QED
    BY <1>1, <2>1, ChainLength
<1>5. QueueInv'
  BY PushExchangeKeepsInv
<1>6. Items \in [1 .. n -> Values] /\ Items' \in [1 .. n + 1 -> Values]
  <2>1. (Items \in [1 .. Len(chain) - 1 -> Values])'
    BY <1>5, ItemsAreValues, PTL
  <2>2. QED
    BY <1>4, <2>1, ItemsAreValues
<1>7. Items'[n + 1] = value[newNode[p]] /\ \A i \in 1 .. n : Items'[i] = Items[i]
  BY <1>2, <1>4 DEF Items
<1>8. Items' = Append(Items, value[newNode[p]])
  BY <1>4, <1>6, <1>7, TableAppend
<1>9. p \notin Pushing /\ Pushing' = Pushing \cup {p}
  BY <1>1, <1>2 DEF Pushing, TypeOK
<1>10. Fifo!Place(p, value[newNode[p]])
  BY <1>2, <1>8, <1>9 DEF Fifo!Place, Items, Pushing
<1>11. QED
  BY <1>3, <1>10

(* ... and its producer has finished with the store of the link.           *)
LEMMA PushLinkMapsToFinish ==
  ASSUME QueueInv, NEW p \in Producers, PushLink(p)
  PROVE  Fifo!Finish(p)
<1>1. TypeOK
  BY DEF QueueInv
<1>2. /\ pcP[p] = "link" /\ pcP' = [pcP EXCEPT ![p] = "idle"]
      /\ chain' = chain /\ value' = value /\ taken' = taken
  BY DEF PushLink, PushReturns, consumer
<1>3. p \in Pushing /\ Pushing' = Pushing \ {p}
  BY <1>1, <1>2 DEF Pushing, TypeOK
<1>4. Items' = Items
  BY <1>2 DEF Items
<1>5. QED
  BY <1>2, <1>3, <1>4 DEF Fifo!Finish, Items, Pushing

(* tryPop fails when there is no job, or when the next one is not linked.  *)
LEMMA PopLoadMapsToFail ==
  ASSUME QueueInv, PopLoad
  PROVE  Fifo!Fail \/ (Items' = Items /\ Pushing' = Pushing /\ taken' = taken)
<1>1. TypeOK /\ ChainInv /\ LinkInv
  BY DEF QueueInv
<1>2. chain' = chain /\ value' = value /\ pcP' = pcP
  BY DEF PopLoad, memory, producer
<1>3. Items' = Items /\ Pushing' = Pushing
  BY <1>2 DEF Items, Pushing
<1>4. CASE next[head] # Null
  BY <1>3, <1>4 DEF PopLoad
<1>5. CASE next[head] = Null
  <2>1. taken' = Nothing
    BY <1>5 DEF PopLoad
  <2>2. Items = << >> \/ Pushing # {}
    <3>1. CASE ~ (Len(chain) > 1)
      BY <3>1, ItemsAreValues
    <3>2. CASE Len(chain) > 1
      <4>1. Len(chain) \in Nat /\ Len(chain) - 1 >= 1
        BY <1>1, <3>2, ChainLength
      <4> 1 \in 1 .. Len(chain) - 1 /\ 1 + 1 \in 1 .. Len(chain)
        BY <4>1
      <4>2. chain[1] = head /\ chain[1 + 1] \in Nodes
        BY <1>1 DEF ChainInv, TypeOK
      <4>3. \E p \in Producers : pcP[p] = "link"
        BY <1>1, <1>5, <4>2, MPSCQueueAssumption DEF LinkInv
      <4>4. QED
        BY <4>3 DEF Pushing
    <3>3. QED
      BY <3>1, <3>2
  <2>3. QED
    BY <1>3, <2>1, <2>2 DEF Fifo!Fail, Items, Pushing
<1>6. QED
  BY <1>4, <1>5

(* With the store of head the consumer has taken the first job.            *)
LEMMA PopStoreMapsToTake ==
  ASSUME QueueInv, PopStore
  PROVE  Fifo!Take
<1>1. TypeOK /\ ConsumerInv
  BY DEF QueueInv
<1>2. /\ pcC = "store" /\ taken' = value[nextC] /\ chain' = Tail(chain)
      /\ value' = value /\ pcP' = pcP
  BY DEF PopStore, memory, producer
<1> DEFINE n == Len(chain) - 2
<1>3. Len(chain) > 1 /\ nextC = chain[2] /\ n \in Nat /\ Len(chain) - 1 = n + 1
  BY <1>1, <1>2, ChainLength DEF ConsumerInv
<1>4. /\ Len(chain') - 1 = n
      /\ \A i \in 1 .. n : chain'[i + 1] = chain[(i + 1) + 1]
  <2>1. /\ Len(chain') = Len(chain) - 1
        /\ \A i \in 1 .. Len(chain) - 1 : chain'[i] = chain[i + 1]
    BY <1>1, <1>2, <1>3, TailFacts DEF TypeOK
  <2>2. QED
    BY <1>3, <2>1
<1>5. QueueInv'
  BY PopStoreKeepsInv
<1>6. Items \in [1 .. n + 1 -> Values] /\ Items' \in [1 .. n -> Values]
  <2>1. (Items \in [1 .. Len(chain) - 1 -> Values])'
    BY <1>5, ItemsAreValues, PTL
  <2>2. QED
    BY <1>3, <1>4, <2>1, ItemsAreValues
<1>7. Items[1] = value[nextC] /\ \A i \in 1 .. n : Items'[i] = Items[i + 1]
  BY <1>2, <1>3, <1>4 DEF Items
<1> HIDE DEF n
<1>8. Items # << >> /\ Head(Items) = value[nextC] /\ Items' = Tail(Items)
  BY <1>3, <1>6, <1>7, TableTail
<1>9. Pushing' = Pushing
  BY <1>2 DEF Pushing
<1>10. QED
  BY <1>2, <1>8, <1>9 DEF Fifo!Take, Items, Pushing

(* The lock-free list is a FIFO queue: jobs are taken once, in the order    *)
(* of the exchanges, and tryPop fails on a queue with jobs only while some  *)
(* push is between its exchange and its store.                             *)
THEOREM QueueIsFifo == Spec => ImplementsFifo
<1>1. Init => Fifo!FifoInit
  BY InitMapsToInit
<1>2. QueueInv /\ [Next]_vars => [Fifo!FifoNext]_(Fifo!fifoVars)
  <2> SUFFICES ASSUME QueueInv, [Next]_vars PROVE [Fifo!FifoNext]_(Fifo!fifoVars)
    OBVIOUS
  <2>1. Items' = Items /\ Pushing' = Pushing /\ taken' = taken => UNCHANGED Fifo!fifoVars
    BY DEF Fifo!fifoVars, Items, Pushing
  <2>2. CASE \E p \in Producers : PushExchange(p)
    <3>1. PICK p \in Producers : PushExchange(p)
      BY <2>2
    <3>2. value[newNode[p]] \in Values /\ Fifo!Place(p, value[newNode[p]])
      BY <3>1, PushExchangeMapsToPlace
    <3>3. QED
      BY <3>2 DEF Fifo!FifoNext, Fifo!Place
  <2>3. CASE \E p \in Producers : PushLink(p)
    BY <2>3, PushLinkMapsToFinish DEF Fifo!FifoNext
  <2>4. CASE \E p \in Producers, v \in Values : PushNew(p, v)
    BY <2>1, <2>4, PushNewMapsToStutter
  <2>5. CASE PopLoad
    BY <2>1, <2>5, PopLoadMapsToFail DEF Fifo!FifoNext
  <2>6. CASE PopStore
    BY <2>6, PopStoreMapsToTake DEF Fifo!FifoNext
  <2>7. CASE PopDelete
    BY <2>1, <2>7, PopDeleteMapsToStutter
  <2>8. CASE UNCHANGED vars
    BY <2>1, <2>8 DEF vars, memory, producer, consumer, Items, Pushing
  <2>9. QED
    BY <2>2, <2>3, <2>4, <2>5, <2>6, <2>7, <2>8 DEF Next, PushFinish, Pop
<1>3. QED
  BY <1>1, <1>2, QueueInvHolds, PTL DEF Spec, ImplementsFifo, Fifo!FifoSpec
=============================================================================
