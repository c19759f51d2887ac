---------------------------- MODULE LinkProofs ----------------------------
(***************************************************************************)
(* Proofs about the card's driver and the ARP cache: the transmit          *)
(* descriptors for every number of them, the receive ring for every size   *)
(* and every set of frame lengths, and the cache for every number of       *)
(* entries and hosts.                                                      *)
(***************************************************************************)
EXTENDS NetTx, NetRx, Arp, WellFoundedInduction, TLAPS

----------------------------------------------------------------------------
(* The transmit descriptors (NetTx) *)

TxTyped ==
    /\ g_tx_index \in Desc /\ tx_next \in Desc
    /\ buffer \in [Desc -> Payloads \cup {Torn}] /\ tsad \in [Desc -> Desc]
    /\ owned \subseteq Desc /\ queue \in Seq(Payloads)
    /\ send \in {NoSend} \cup [at : {"copy", "start", "wait"}, frame : Payloads, slot : Desc]
    /\ tx_raced \in BOOLEAN /\ overrun \in BOOLEAN

\* The descriptor of the k-th frame the card is to send.
TxAt(k) == (tx_next + k - 1) % TxCount

\* What SentAsGiven rests on as long as the order is followed: the queue is no
\* longer than the ring, each descriptor refers to its own buffer, and a send
\* that has begun uses the current descriptor, which the card does not have.
Orderly ==
    /\ Len(queue) <= TxCount
    /\ \A k \in 1..Len(queue) : queue[k] = buffer[TxAt(k)]
    /\ owned = {TxAt(k) : k \in 1..Len(queue)}
    /\ \A d \in owned : tsad[d] = d
    /\ TxAt(Len(queue) + 1) = (IF send.at = "wait" THEN Succ(g_tx_index) ELSE g_tx_index)
    /\ send # NoSend => send.slot = g_tx_index
    /\ send.at \in {"copy", "start"} => g_tx_index \notin owned
    /\ send.at = "start" => buffer[g_tx_index] = send.frame

TxInv == TxTyped /\ (~Excused => Orderly)

\* Walking round the ring at most once.
LEMMA DescRound ==
    ASSUME NEW t \in Desc, NEW j \in 0..TxCount
    PROVE  /\ (t + j) % TxCount \in Desc
           /\ (t + j) % TxCount = IF t + j < TxCount THEN t + j ELSE t + j - TxCount
<1>1. TxCount \in Nat \ {0} /\ t \in 0..(TxCount - 1)
    BY TxAssumption DEF Desc
<1>2. CASE t + j < TxCount
    BY <1>1, <1>2 DEF Desc
<1>3. CASE t + j >= TxCount
    BY <1>1, <1>3 DEF Desc
<1> QED
    BY <1>1, <1>2, <1>3

LEMMA TxInvInit == TxInit => TxInv
<1> SUFFICES ASSUME TxInit PROVE TxInv
    OBVIOUS
<1>1. 0 \in Desc
    BY TxAssumption DEF Desc
<1>2. TxTyped
    BY <1>1 DEF TxInit, TxTyped
<1>3. TxAt(1) = 0
    BY TxAssumption DEF TxInit, TxAt
<1>4. Orderly
    BY <1>3, TxAssumption DEF TxInit, Orderly, NoSend
<1> QED
    BY <1>2, <1>4 DEF TxInv

\* Giving the current descriptor to the card when it does not have it, with its
\* buffer filled: the frame is the last of the queue.
LEMMA GiveOrderly ==
    ASSUME TxTyped, TxTyped', Orderly, NEW frame \in Payloads,
           g_tx_index \notin owned, TxAt(Len(queue) + 1) = g_tx_index,
           owned' = owned \cup {g_tx_index}, tsad' = [tsad EXCEPT ![g_tx_index] = g_tx_index],
           queue' = Append(queue, frame), tx_next' = tx_next,
           buffer'[g_tx_index] = frame,
           \A d \in Desc : d # g_tx_index => buffer'[d] = buffer[d]
    PROVE  /\ Len(queue') <= TxCount
           /\ \A k \in 1..Len(queue') : queue'[k] = buffer'[TxAt(k)']
           /\ owned' = {TxAt(k)' : k \in 1..Len(queue')}
           /\ \A d \in owned' : tsad'[d] = d
           /\ TxAt(Len(queue) + 1)' = Succ(g_tx_index)
<1> DEFINE L == Len(queue)
           g == g_tx_index
           t == tx_next
<1>1. /\ TxCount \in Nat \ {0} /\ t \in Desc /\ g \in Desc /\ queue \in Seq(Payloads)
      /\ L \in Nat /\ L <= TxCount
    BY TxAssumption DEF TxTyped, Orderly
<1>2. Len(queue') = L + 1 /\ queue'[L + 1] = frame /\ \A k \in 1..L : queue'[k] = queue[k]
    BY <1>1
<1>3. \A k : TxAt(k)' = TxAt(k)
    BY DEF TxAt
<1>4. \A k \in 1..L : TxAt(k) \in Desc /\ TxAt(k) # g /\ TxAt(k) \in owned
    BY DEF Orderly, TxTyped
<1>5. TxAt(L + 1) = (t + L) % TxCount
    BY <1>1 DEF TxAt
<1>6. L < TxCount
    <2>1. ASSUME L = TxCount PROVE FALSE
        <3>1. TxAt(1) = t
            BY <1>1 DEF TxAt, Desc
        <3>2. (t + L) % TxCount = t
            BY <1>1, <2>1, SMTT(60) DEF Desc
        <3>3. 1 \in 1..L
            BY <1>1, <2>1
        <3> QED
            BY <1>4, <1>5, <3>1, <3>2, <3>3
    <2> QED
        BY <1>1, <2>1
<1>7. ASSUME NEW k \in 1..(L + 1) PROVE queue'[k] = buffer'[TxAt(k)]
    <2>1. CASE k = L + 1
        BY <1>2, <2>1
    <2>2. CASE k # L + 1
        <3>1. k \in 1..L
            BY <1>1, <2>2
        <3> QED
            BY <1>2, <1>4, <3>1 DEF Orderly
    <2> QED
        BY <2>1, <2>2
<1>8. owned' = {TxAt(k) : k \in 1..(L + 1)}
    <2>1. \A d : d \in owned \/ d = g <=> \E k \in 1..(L + 1) : d = TxAt(k)
        <3>1. \A k \in 1..(L + 1) : k \in 1..L \/ k = L + 1
            BY <1>1
        <3>2. \A k \in 1..L : k \in 1..(L + 1)
            BY <1>1
        <3>3. L + 1 \in 1..(L + 1)
            BY <1>1
        <3>4. \A d : d \in owned <=> \E k \in 1..L : d = TxAt(k)
            BY DEF Orderly
        <3> HIDE DEF L, g
        <3>5. TxAt(L + 1) = g
            BY DEF L, g
        <3> QED
            BY <3>1, <3>2, <3>3, <3>4, <3>5
    <2> QED
        BY <2>1
<1>9. \A d \in owned' : tsad'[d] = d
    BY <1>1 DEF TxTyped, Orderly
<1>10. TxAt(L + 2) = Succ(g)
    <2>1. (t + L) % TxCount = g
        BY <1>5
    <2>2. TxAt(L + 2) = (t + (L + 1)) % TxCount
        BY <1>1 DEF TxAt
    <2>3. L \in 0..TxCount /\ L + 1 \in 0..TxCount
        BY <1>1, <1>6
    <2>4. g = IF t + L < TxCount THEN t + L ELSE t + L - TxCount
        BY <1>1, <2>1, <2>3, DescRound
    <2>5. TxAt(L + 2) = IF t + (L + 1) < TxCount THEN t + (L + 1) ELSE t + (L + 1) - TxCount
        BY <1>1, <2>2, <2>3, DescRound
    <2>6. Succ(g) = IF g + 1 < TxCount THEN g + 1 ELSE g + 1 - TxCount
        BY <1>1, DescRound DEF Succ
    <2>7. t \in Int /\ L \in Int /\ g \in Int /\ TxCount \in Int /\ t < TxCount /\ L < TxCount
        BY <1>1, <2>3 DEF Desc
    <2> HIDE DEF L, g, t
    <2> QED
        BY <2>4, <2>5, <2>6, <2>7
<1> HIDE DEF L
<1>11. TxAt(Len(queue) + 1)' = Succ(g)
    <2>1. Len(queue)' + 1 = L + 2
        BY <1>1, <1>2
    <2> QED
        BY <1>10, <2>1 DEF TxAt
<1> QED
    BY <1>1, <1>2, <1>3, <1>6, <1>7, <1>8, <1>9, <1>11

\* The card sends the frame at the head of the queue.
LEMMA TransmitOrderly ==
    ASSUME TxTyped, Orderly, Transmit PROVE Orderly'
<1> DEFINE L == Len(queue)
           t == tx_next
<1>1. /\ TxCount \in Nat \ {0} /\ t \in Desc /\ t \in 0..(TxCount - 1)
      /\ queue \in Seq(Payloads) /\ L \in Nat /\ L <= TxCount
    BY TxAssumption DEF TxTyped, Orderly, Desc
<1>2. \A d : d \in owned <=> \E k \in 1..L : d = TxAt(k)
    BY DEF Orderly
<1>3. L >= 1
    BY <1>1, <1>2 DEF Transmit
<1>4. queue' = Tail(queue)
    BY <1>1, <1>3 DEF Transmit
<1>5. Len(queue') = L - 1 /\ \A k \in 1..(L - 1) : queue'[k] = queue[k + 1]
    BY <1>1, <1>3, <1>4
<1>6. \A k \in 1..(TxCount + 1) : TxAt(k) = IF t + k - 1 < TxCount THEN t + k - 1 ELSE t + k - 1 - TxCount
    <2> SUFFICES ASSUME NEW k \in 1..(TxCount + 1)
                 PROVE  TxAt(k) = IF t + k - 1 < TxCount THEN t + k - 1 ELSE t + k - 1 - TxCount
        OBVIOUS
    <2> DEFINE j == k - 1
    <2>1. j \in 0..TxCount /\ t + k - 1 = t + j
        BY <1>1
    <2>2. TxAt(k) = (t + j) % TxCount
        BY <2>1 DEF TxAt
    <2> HIDE DEF j
    <2>3. TxAt(k) = IF t + j < TxCount THEN t + j ELSE t + j - TxCount
        BY <1>1, <2>1, <2>2, DescRound
    <2> QED
        BY <1>1, <2>1, <2>3
<1>7. tx_next' = IF t + 1 < TxCount THEN t + 1 ELSE t + 1 - TxCount
    <2>1. tx_next' = (t + 1) % TxCount
        BY DEF Transmit, Succ
    <2> QED
        BY <1>1, <2>1, DescRound
<1>8. ASSUME NEW k \in 1..TxCount PROVE (tx_next' + k - 1) % TxCount = TxAt(k + 1)
    <2>1. CASE t + 1 < TxCount
        <3>1. tx_next' + k - 1 = t + (k + 1) - 1
            BY <1>1, <1>7, <2>1
        <3> QED
            BY <3>1 DEF TxAt
    <2>2. CASE t + 1 = TxCount
        <3>1. tx_next' = 0
            BY <1>1, <1>7, <2>2
        <3>2. (tx_next' + k - 1) % TxCount = k - 1
            BY <1>1, <3>1
        <3>3. k + 1 \in 1..(TxCount + 1)
            BY <1>1
        <3>4. TxAt(k + 1) = IF t + (k + 1) - 1 < TxCount THEN t + (k + 1) - 1 ELSE t + (k + 1) - 1 - TxCount
            BY <1>6, <3>3
        <3> QED
            BY <1>1, <2>2, <3>2, <3>4
    <2> QED
        BY <1>1, <2>1, <2>2
<1>9. TxAt(1) = t /\ \A k \in 2..L : TxAt(k) # t
    BY <1>1, <1>3, <1>6 DEF Desc
<1>10. owned' = {TxAt(k)' : k \in 1..(L - 1)}
    <2>1. owned' = owned \ {t}
        BY DEF Transmit
    <2>2. ASSUME NEW d \in owned \ {t} PROVE \E k \in 1..(L - 1) : d = TxAt(k)'
        <3>1. PICK k \in 1..L : d = TxAt(k)
            BY <1>2
        <3>2. k - 1 \in 1..(L - 1) /\ k - 1 \in 1..TxCount /\ k - 1 + 1 = k
            BY <1>1, <1>9, <2>2, <3>1
        <3> QED
            BY <1>8, <3>1, <3>2, Zenon DEF TxAt
    <2>3. ASSUME NEW k \in 1..(L - 1) PROVE TxAt(k)' \in owned \ {t}
        <3>1. k + 1 \in 2..L /\ k + 1 \in 1..L /\ k \in 1..TxCount
            BY <1>1
        <3> QED
            BY <1>2, <1>8, <1>9, <3>1 DEF TxAt
    <2> QED
        BY <2>1, <2>2, <2>3
<1>11. \A k \in 1..(L - 1) : queue'[k] = buffer[TxAt(k)']
    <2> SUFFICES ASSUME NEW k \in 1..(L - 1) PROVE queue'[k] = buffer[TxAt(k)']
        OBVIOUS
    <2>1. k + 1 \in 1..L /\ k \in 1..TxCount
        BY <1>1
    <2> QED
        BY <1>5, <1>8, <2>1 DEF Orderly, TxAt
<1>12. TxAt(Len(queue) + 1)' = TxAt(L + 1)
    <2>1. Len(queue)' + 1 = L /\ L \in 1..TxCount
        BY <1>1, <1>3, <1>5
    <2>2. TxAt(Len(queue) + 1)' = (tx_next' + L - 1) % TxCount
        BY <2>1 DEF TxAt
    <2> QED
        BY <1>8, <2>1, <2>2
<1>13. UNCHANGED <<g_tx_index, buffer, tsad, send>> /\ owned' \subseteq owned
    BY DEF Transmit
<1>14. Succ(g_tx_index)' = Succ(g_tx_index)
    BY <1>13 DEF Succ
<1>15. Len(queue') <= TxCount
    BY <1>1, <1>5
<1>16. TxAt(Len(queue) + 1)' = (IF send'.at = "wait" THEN Succ(g_tx_index)' ELSE g_tx_index')
    BY <1>12, <1>13, <1>14 DEF Orderly
<1>17. /\ \A d \in owned' : tsad'[d] = d
       /\ send' # NoSend => send'.slot = g_tx_index'
       /\ send'.at \in {"copy", "start"} => g_tx_index' \notin owned'
       /\ send'.at = "start" => buffer'[g_tx_index'] = send'.frame
    BY <1>13 DEF Orderly
<1>18. \A k \in 1..Len(queue') : queue'[k] = buffer'[TxAt(k)']
    BY <1>5, <1>11, <1>13
<1>19. owned' = {TxAt(k)' : k \in 1..Len(queue')}
    BY <1>5, <1>10
<1> QED
    BY <1>15, <1>16, <1>17, <1>18, <1>19 DEF Orderly

\* Every step keeps the types.
LEMMA TxTypedNext == TxTyped /\ [TxNext]_txVars => TxTyped'
<1> SUFFICES ASSUME TxTyped, [TxNext]_txVars PROVE TxTyped'
    OBVIOUS
<1> DEFINE Sends == [at : {"copy", "start", "wait"}, frame : Payloads, slot : Desc]
<1>1. \A d \in Desc : Succ(d) \in Desc
    BY DescRound, TxAssumption DEF Succ
<1>2. \A f \in Payloads : Append(queue, f) \in Seq(Payloads)
    BY DEF TxTyped
<1>3. <<>> \in Seq(Payloads)
    OBVIOUS
<1>4. CASE Transmit
    <2>1. queue' \in Seq(Payloads)
        BY <1>4 DEF Transmit, TxTyped
    <2> QED
        BY <1>1, <1>4, <2>1 DEF Transmit, TxTyped
<1>5. ASSUME NEW f \in Payloads, SendBegin(f) PROVE TxTyped'
    BY <1>3, <1>5 DEF SendBegin, TxTyped
<1>6. CASE SendCopy
    <2>1. send \in Sends
        BY <1>6 DEF SendCopy, TxTyped, NoSend
    <2>2. send' \in Sends
        BY <1>6, <2>1 DEF SendCopy
    <2>3. PICK f \in {send.frame} \cup {Torn} : buffer' = [buffer EXCEPT ![send.slot] = f]
        BY <1>6 DEF SendCopy
    <2>4. buffer' \in [Desc -> Payloads \cup {Torn}]
        BY <2>1, <2>3 DEF TxTyped
    <2> QED
        BY <1>6, <2>2, <2>4 DEF SendCopy, TxTyped
<1>7. CASE SendStart
    <2>1. send \in Sends
        BY <1>7 DEF SendStart, TxTyped, NoSend
    <2>2. send' \in Sends
        BY <1>7, <2>1 DEF SendStart
    <2>3. PICK d \in Desc : Give(d, send.slot)
        BY <1>7, <2>1 DEF SendStart, TxTyped
    <2>4. queue' \in Seq(Payloads)
        BY <1>2, <1>3, <1>7, <2>1 DEF SendStart
    <2> QED
        BY <1>7, <2>1, <2>2, <2>3, <2>4 DEF SendStart, TxTyped, Give
<1>8. CASE SendEnd
    <2>1. send \in Sends
        BY <1>8 DEF SendEnd, TxTyped, NoSend
    <2> QED
        BY <1>1, <1>8, <2>1 DEF SendEnd, TxTyped
<1>9. ASSUME NEW f \in Payloads, SendAtOnce(f) PROVE TxTyped'
    <2>1. queue' \in Seq(Payloads)
        BY <1>2, <1>3, <1>9 DEF SendAtOnce
    <2> QED
        BY <1>1, <1>9, <2>1 DEF SendAtOnce, TxTyped, Give
<1>10. CASE UNCHANGED txVars
    BY <1>10 DEF txVars, TxTyped
<1> QED
    BY <1>4, <1>5, <1>6, <1>7, <1>8, <1>9, <1>10 DEF TxNext, rtl_send_raw_frame

\* Every step keeps the order, as long as it is followed.
LEMMA OrderlyNext == TxInv /\ [TxNext]_txVars => (~Excused' => Orderly')
<1> SUFFICES ASSUME TxInv, [TxNext]_txVars, ~Excused' PROVE Orderly'
    OBVIOUS
<1>1. TxTyped /\ TxTyped'
    BY TxTypedNext DEF TxInv
<1>2. ~tx_raced /\ ~overrun /\ ~tx_raced' /\ ~overrun' /\ ~Excused
    <2>1. ~tx_raced' /\ ~overrun'
        BY DEF Excused
    <2>2. (tx_raced => tx_raced') /\ (overrun => overrun')
        <3>1. CASE UNCHANGED <<tx_raced, overrun>>
            BY <3>1
        <3>2. ASSUME NEW f \in Payloads, SendBegin(f) \/ SendAtOnce(f)
              PROVE  (tx_raced => tx_raced') /\ (overrun => overrun')
            <4>1. overrun' = (overrun \/ g_tx_index \in owned)
                BY <3>2, Zenon DEF SendBegin, SendAtOnce
            <4>2. tx_raced' = tx_raced \/ tx_raced' = (tx_raced \/ send # NoSend)
                BY <3>2 DEF SendBegin, SendAtOnce
            <4>3. tx_raced \in BOOLEAN /\ overrun \in BOOLEAN /\ tx_raced' \in BOOLEAN /\ overrun' \in BOOLEAN
                BY <1>1 DEF TxTyped
            <4> QED
                BY <4>1, <4>2, <4>3
        <3> QED
            BY <3>1, <3>2 DEF TxNext, rtl_send_raw_frame, Transmit, SendCopy, SendStart, SendEnd, txVars
    <2> QED
        BY <2>1, <2>2 DEF Excused
<1>3. Orderly
    BY <1>2 DEF TxInv
<1>4. CASE Transmit
    BY <1>1, <1>3, <1>4, TransmitOrderly
<1>5. ASSUME tx_next' = tx_next PROVE \A k : TxAt(k)' = TxAt(k)
    BY <1>5 DEF TxAt
<1>6. ASSUME NEW f \in Payloads, SendBegin(f) PROVE Orderly'
    <2>1. /\ send = NoSend /\ send' = [at |-> "copy", frame |-> f, slot |-> g_tx_index]
          /\ buffer' = [buffer EXCEPT ![g_tx_index] = Torn] /\ g_tx_index \notin owned
          /\ UNCHANGED <<g_tx_index, tsad, owned, tx_next, queue>>
        BY <1>2, <1>6, Zenon DEF SendBegin, Excused
    <2>2. \A k \in 1..Len(queue) : TxAt(k) \in owned /\ buffer'[TxAt(k)] = buffer[TxAt(k)]
        BY <1>1, <1>3, <2>1 DEF TxTyped, Orderly
    <2>3. TxAt(Len(queue) + 1)' = TxAt(Len(queue) + 1) /\ send.at = "none" /\ send'.at = "copy"
        BY <2>1 DEF TxAt, NoSend
    <2>4. send'.slot = g_tx_index'
        BY <2>1
    <2> QED
        BY <1>3, <1>5, <2>1, <2>2, <2>3, <2>4 DEF Orderly
<1>7. CASE SendCopy
    <2>1. send \in [at : {"copy", "start", "wait"}, frame : Payloads, slot : Desc]
        BY <1>1, <1>7 DEF SendCopy, TxTyped, NoSend
    <2>2. send.slot = g_tx_index /\ g_tx_index \notin owned /\ send # NoSend
        BY <1>3, <1>7, <2>1 DEF Orderly, SendCopy, NoSend
    <2>3. /\ buffer' = [buffer EXCEPT ![g_tx_index] = send.frame]
          /\ send'.at = "start" /\ send'.slot = send.slot /\ send'.frame = send.frame
          /\ UNCHANGED <<g_tx_index, tsad, owned, tx_next, queue>>
        BY <1>2, <1>7, <2>1, <2>2 DEF SendCopy, Excused
    <2>4. /\ \A k \in 1..Len(queue) : TxAt(k) \in owned /\ buffer'[TxAt(k)] = buffer[TxAt(k)]
          /\ buffer'[g_tx_index] = send.frame
        BY <1>1, <1>3, <2>2, <2>3 DEF TxTyped, Orderly
    <2>5. TxAt(Len(queue) + 1)' = TxAt(Len(queue) + 1) /\ send.at = "copy"
        BY <1>7, <2>3 DEF TxAt, SendCopy
    <2> QED
        BY <1>3, <1>5, <2>2, <2>3, <2>4, <2>5 DEF Orderly
<1>8. CASE SendStart
    <2>1. send \in [at : {"copy", "start", "wait"}, frame : Payloads, slot : Desc]
        BY <1>1, <1>8 DEF SendStart, TxTyped, NoSend
    <2>2. /\ send.slot = g_tx_index /\ g_tx_index \notin owned /\ send # NoSend
          /\ buffer[g_tx_index] = send.frame /\ send.at = "start" /\ send.frame \in Payloads
          /\ TxAt(Len(queue) + 1) = g_tx_index
        BY <1>3, <1>8, <2>1 DEF Orderly, SendStart, NoSend
    <2>3. /\ owned' = owned \cup {g_tx_index} /\ tsad' = [tsad EXCEPT ![g_tx_index] = g_tx_index]
          /\ queue' = Append(queue, send.frame)
          /\ send'.at = "wait" /\ send'.slot = send.slot
          /\ UNCHANGED <<g_tx_index, buffer, tx_next>>
        BY <1>2, <1>8, <2>1, <2>2, Zenon DEF SendStart, Give
    <2>4. /\ Len(queue') <= TxCount
          /\ \A k \in 1..Len(queue') : queue'[k] = buffer'[TxAt(k)']
          /\ owned' = {TxAt(k)' : k \in 1..Len(queue')}
          /\ \A d \in owned' : tsad'[d] = d
          /\ TxAt(Len(queue) + 1)' = Succ(g_tx_index)
        BY <1>1, <1>3, <2>2, <2>3, GiveOrderly
    <2>5. Succ(g_tx_index)' = Succ(g_tx_index) /\ send'.slot = g_tx_index'
        BY <2>2, <2>3 DEF Succ
    <2> QED
        BY <2>3, <2>4, <2>5 DEF Orderly
<1>9. CASE SendEnd
    <2>1. send \in [at : {"copy", "start", "wait"}, frame : Payloads, slot : Desc]
        BY <1>1, <1>9 DEF SendEnd, TxTyped, NoSend
    <2>2. send.slot = g_tx_index /\ send.at = "wait" /\ send # NoSend
        BY <1>3, <1>9, <2>1 DEF Orderly, SendEnd, NoSend
    <2>3. /\ g_tx_index' = Succ(g_tx_index) /\ send' = NoSend /\ send'.at = "none"
          /\ UNCHANGED <<buffer, tsad, owned, tx_next, queue>>
        BY <1>9, <2>2 DEF SendEnd, NoSend
    <2>4. TxAt(Len(queue) + 1)' = TxAt(Len(queue) + 1)
        BY <2>3 DEF TxAt
    <2> QED
        BY <1>3, <1>5, <2>2, <2>3, <2>4 DEF Orderly
<1>10. ASSUME NEW f \in Payloads, SendAtOnce(f) PROVE Orderly'
    <2>0. send = NoSend /\ g_tx_index \notin owned
        BY <1>2, <1>10, Zenon DEF SendAtOnce
    <2>1. /\ send = NoSend /\ send.at = "none" /\ send' = send /\ g_tx_index \notin owned
          /\ buffer' = [buffer EXCEPT ![g_tx_index] = f]
          /\ owned' = owned \cup {g_tx_index} /\ tsad' = [tsad EXCEPT ![g_tx_index] = g_tx_index]
          /\ queue' = Append(queue, f) /\ tx_next' = tx_next
          /\ g_tx_index' = Succ(g_tx_index)
        BY <1>2, <1>10, <2>0 DEF SendAtOnce, Excused, Give, NoSend
    <2>2. /\ TxAt(Len(queue) + 1) = g_tx_index /\ buffer'[g_tx_index] = f
          /\ \A d \in Desc : d # g_tx_index => buffer'[d] = buffer[d]
        BY <1>1, <1>3, <2>1 DEF Orderly, TxTyped
    <2>3. /\ Len(queue') <= TxCount
          /\ \A k \in 1..Len(queue') : queue'[k] = buffer'[TxAt(k)']
          /\ owned' = {TxAt(k)' : k \in 1..Len(queue')}
          /\ \A d \in owned' : tsad'[d] = d
          /\ TxAt(Len(queue) + 1)' = Succ(g_tx_index)
        BY <1>1, <1>3, <2>1, <2>2, GiveOrderly
    <2> QED
        BY <2>1, <2>3 DEF Orderly
<1>11. CASE UNCHANGED txVars
    <2>1. TxAt(Len(queue) + 1)' = TxAt(Len(queue) + 1) /\ Succ(g_tx_index)' = Succ(g_tx_index)
        BY <1>11 DEF txVars, TxAt, Succ
    <2> QED
        BY <1>3, <1>5, <1>11, <2>1 DEF txVars, Orderly
<1> QED
    BY <1>4, <1>6, <1>7, <1>8, <1>9, <1>10, <1>11 DEF TxNext, rtl_send_raw_frame

\* Frames leave whole, once and in the order of the calls, and the card waits
\* where the driver goes on, for every size of the ring (rtl_send_raw_frame).
THEOREM FramesSentAsGiven == TxSpec => []SentAsGiven
<1>1. TxInv /\ [TxNext]_txVars => TxInv'
    BY TxTypedNext, OrderlyNext DEF TxInv
<1>2. TxInv => SentAsGiven
    <2> SUFFICES ASSUME TxInv, ~Excused
                 PROVE  /\ queue = [k \in 1..Len(queue) |-> buffer[tsad[TxAt(k)]]]
                        /\ owned = {TxAt(k) : k \in 1..Len(queue)}
                        /\ (tx_next + Len(queue)) % TxCount
                              = (IF send # NoSend /\ send.at = "wait" THEN Succ(g_tx_index) ELSE g_tx_index)
        BY DEF SentAsGiven, TxAt
    <2>1. Orderly /\ TxTyped
        BY DEF TxInv
    <2>2. queue = [k \in 1..Len(queue) |-> buffer[tsad[TxAt(k)]]]
        <3>1. \A k \in 1..Len(queue) : queue[k] = buffer[tsad[TxAt(k)]]
            BY <2>1 DEF Orderly
        <3>2. queue \in Seq(Payloads)
            BY <2>1 DEF TxTyped
        <3> QED
            BY <3>1, <3>2
    <2>3. TxAt(Len(queue) + 1) = (tx_next + Len(queue)) % TxCount
        <3>1. tx_next + (Len(queue) + 1) - 1 = tx_next + Len(queue)
            BY <2>1, TxAssumption DEF TxTyped, Desc
        <3> QED
            BY <3>1 DEF TxAt
    <2>4. send.at = "wait" => send # NoSend
        BY DEF NoSend
    <2> QED
        BY <2>1, <2>2, <2>3, <2>4 DEF Orderly
<1> QED
    BY <1>1, <1>2, TxInvInit, PTL DEF TxSpec

----------------------------------------------------------------------------
(* The receive ring (NetRx) *)

\* How far an offset is ahead of another, round the ring.
Ahead(c, o) == (o - c) % RingSize

\* The frames that begin at all but the last of the offsets s lie behind one
\* another from c to that last offset, without going round, and r shows the
\* length of each where it begins.
LaidOut(s, r, c) ==
    /\ s[1] = c
    /\ \A k \in 1..(Len(s) - 1) :
          /\ r[s[k]] \in Lengths
          /\ Ahead(c, s[k + 1]) = Ahead(c, s[k]) + Stored(r[s[k]])
    /\ \A j, k \in 1..Len(s) : j < k => Ahead(c, s[j]) + Stored(r[s[j]]) <= Ahead(c, s[k])

\* A caller has taken a frame and has not moved the offset past it yet.
Taken == \E c \in Callers : rx_pc[c] = "advance"

\* Where the frames begin that still occupy the ring, and where the next will.
Marks == Append(IF Taken THEN <<capr>> \o backlog ELSE backlog, write_offset)

\* What the two callers may be doing while the frames are taken in turn.
Polling ==
    /\ \A c \in Callers : rx_pc[c] = "advance" => hold[c] = <<capr, ring[capr]>>
    /\ \A c \in Callers : rx_pc[c] = "header" => Taken \/ backlog # <<>>
    /\ rx_pc["irq"] = "advance" => rx_pc["main"] \in {"off", "check"}

RxTyped ==
    /\ write_offset \in Offsets /\ capr \in Offsets /\ g_rx_read_offset = capr
    /\ ring \in [Offsets -> {0} \cup Lengths] /\ backlog \in Seq(Offsets)
    /\ rx_pc \in [Callers -> {"off", "check", "header", "advance"}]
    /\ DOMAIN hold = Callers /\ processed \in [Callers -> Nat]

RxSteady == RxTyped /\ LaidOut(Marks, ring, capr) /\ Polling /\ NoFrameForgotten

RxInv == rx_raced \in BOOLEAN /\ (~rx_raced => RxSteady)

LEMMA AheadIs ==
    ASSUME NEW a \in Offsets, NEW b \in Offsets
    PROVE  /\ Ahead(a, b) = IF b >= a THEN b - a ELSE b - a + RingSize
           /\ Ahead(a, b) \in 0..(RingSize - 1)
<1>1. RingSize \in Nat \ {0} /\ a \in 0..(RingSize - 1) /\ b \in 0..(RingSize - 1)
    BY RxAssumption DEF Offsets
<1>2. CASE b >= a
    BY <1>1, <1>2 DEF Ahead
<1>3. CASE b < a
    BY <1>1, <1>3 DEF Ahead
<1> QED
    BY <1>1, <1>2, <1>3

\* Going less than once round the ring.
LEMMA RoundIs ==
    ASSUME NEW a \in Offsets, NEW n \in 0..(RingSize - 1)
    PROVE  /\ (a + n) % RingSize = IF a + n < RingSize THEN a + n ELSE a + n - RingSize
           /\ (a + n) % RingSize \in 0..(RingSize - 1)
           /\ n % 4 = 0 => (a + n) % RingSize \in Offsets
<1>1. RingSize \in Nat \ {0} /\ RingSize % 4 = 0 /\ a \in 0..(RingSize - 1) /\ a % 4 = 0
    BY RxAssumption DEF Offsets
<1>2. (a + n) % RingSize = IF a + n < RingSize THEN a + n ELSE a + n - RingSize
  <2>1. CASE a + n < RingSize
    BY <1>1, <2>1
  <2>2. CASE a + n >= RingSize
    BY <1>1, <2>2
  <2> QED
    BY <1>1, <2>1, <2>2
<1>3. (a + n) % RingSize \in 0..(RingSize - 1)
    BY <1>1, <1>2
<1>4. n % 4 = 0 => (IF a + n < RingSize THEN a + n ELSE a + n - RingSize) % 4 = 0
    BY <1>1
<1> QED
    BY <1>2, <1>3, <1>4 DEF Offsets

LEMMA StoredIs ==
    ASSUME NEW l \in Nat
    PROVE  /\ Stored(l) \in Nat /\ Stored(l) % 4 = 0 /\ Stored(l) >= 4
           /\ \A o \in Offsets : Beyond(o, l) = (o + Stored(l)) % RingSize
<1>1. Stored(l) \in Nat /\ Stored(l) % 4 = 0 /\ Stored(l) >= 4
    BY DEF Stored
<1>2. ASSUME NEW o \in Offsets
      PROVE  ((o + l + 4 + 3) \div 4) * 4 = o + Stored(l)
    BY DEF Stored, Offsets
<1> QED
    BY <1>1, <1>2 DEF Beyond

LEMMA LengthsNat == \A l \in Lengths : l \in Nat /\ l >= 4 /\ l <= MaxLength /\ l # 0
BY RxAssumption

LEMMA StoredNat == \A l \in Lengths : Stored(l) \in Nat /\ Stored(l) >= 4
BY LengthsNat, StoredIs

LEMMA AheadInt == \A a, b \in Offsets : Ahead(a, b) \in Int /\ Ahead(a, b) >= 0
BY AheadIs, RxAssumption

\* Going on from w by less than what is left of the ring.
LEMMA AheadPlus ==
    ASSUME NEW c \in Offsets, NEW w \in Offsets, NEW k \in Nat, NEW x \in Offsets,
           Ahead(c, w) + k < RingSize, x = (w + k) % RingSize
    PROVE  Ahead(c, x) = Ahead(c, w) + k
<1>1. /\ RingSize \in Nat \ {0}
      /\ w \in 0..(RingSize - 1) /\ c \in 0..(RingSize - 1) /\ x \in 0..(RingSize - 1)
    BY RxAssumption DEF Offsets
<1>2. Ahead(c, w) = IF w >= c THEN w - c ELSE w - c + RingSize
    BY AheadIs
<1>3. Ahead(c, x) = IF x >= c THEN x - c ELSE x - c + RingSize
    BY AheadIs
<1>4. k \in 0..(RingSize - 1)
    BY <1>1, <1>2
<1>5. x = IF w + k < RingSize THEN w + k ELSE w + k - RingSize
    BY <1>4, RoundIs
<1> QED
    BY <1>1, <1>2, <1>3, <1>4, <1>5

LEMMA FrameRoom ==
    ASSUME NEW c \in Offsets, NEW w \in Offsets, NEW l \in Lengths,
           Ahead(c, w) + Stored(l) < RingSize
    PROVE  /\ Stored(l) \in 4..(RingSize - 1)
           /\ (w + Stored(l)) % RingSize \in Offsets
           /\ Ahead(c, (w + Stored(l)) % RingSize) = Ahead(c, w) + Stored(l)
           /\ \A x \in Offsets : Ahead(c, x) < Ahead(c, w) =>
                 x # w /\ x \notin {(w + k) % RingSize : k \in 0..(Stored(l) - 1)}
<1>1. Stored(l) \in Nat /\ Stored(l) >= 4 /\ Stored(l) % 4 = 0
    BY LengthsNat, StoredIs
<1>2. Ahead(c, w) \in Int /\ Ahead(c, w) >= 0 /\ RingSize \in Nat
    BY AheadInt, RxAssumption
<1>3. Stored(l) \in 4..(RingSize - 1) /\ Stored(l) \in 0..(RingSize - 1)
    BY <1>1, <1>2
<1>4. (w + Stored(l)) % RingSize \in Offsets
    BY <1>1, <1>3, RoundIs
<1>5. Ahead(c, (w + Stored(l)) % RingSize) = Ahead(c, w) + Stored(l)
    BY <1>1, <1>4, AheadPlus
<1>6. ASSUME NEW x \in Offsets, Ahead(c, x) < Ahead(c, w),
             NEW k \in 0..(Stored(l) - 1), x = (w + k) % RingSize
      PROVE  FALSE
  <2>1. k \in Nat /\ Ahead(c, w) + k < RingSize
    BY <1>1, <1>2
  <2>2. Ahead(c, x) = Ahead(c, w) + k
    BY <2>1, <1>6, AheadPlus
  <2> QED
    BY <2>1, <2>2, <1>2, <1>6
<1>7. \A x \in Offsets : Ahead(c, x) < Ahead(c, w) => x # w
    BY <1>2
<1> QED
    BY <1>3, <1>4, <1>5, <1>6, <1>7

\* The ring once the card has stored a frame.
WithFrame(r, w, l) ==
    [o \in Offsets |-> IF o = w THEN l
                       ELSE IF o \in {(w + k) % RingSize : k \in 0..(Stored(l) - 1)} THEN 0
                       ELSE r[o]]

\* A frame behind the others leaves them as they are.
LEMMA Extends ==
    ASSUME NEW s \in Seq(Offsets), s # <<>>, NEW r \in [Offsets -> {0} \cup Lengths],
           NEW c \in Offsets, NEW w \in Offsets, NEW l \in Lengths, NEW r2, NEW w2,
           s[Len(s)] = w, LaidOut(s, r, c),
           Ahead(c, w) + Stored(l) < RingSize,
           r2 = WithFrame(r, w, l),
           w2 = (w + Stored(l)) % RingSize
    PROVE  /\ LaidOut(Append(s, w2), r2, c) /\ w2 \in Offsets
           /\ r2 \in [Offsets -> {0} \cup Lengths]
           /\ \A k \in 1..(Len(s) - 1) : r2[s[k]] = r[s[k]]
<1> DEFINE n == Len(s)
<1>1. /\ n \in Nat \ {0} /\ \A k \in 1..n : s[k] \in Offsets
      /\ RingSize \in Nat \ {0}
    BY RxAssumption
<1>2. Stored(l) \in 4..(RingSize - 1)
    BY FrameRoom
<1>3. w2 \in Offsets /\ Ahead(c, w2) = Ahead(c, w) + Stored(l)
    BY FrameRoom
<1>4. ASSUME NEW x \in Offsets, Ahead(c, x) < Ahead(c, w)
      PROVE  r2[x] = r[x]
    BY <1>4, FrameRoom DEF WithFrame
<1>5. \A k \in 1..(n - 1) :
          /\ r[s[k]] \in Lengths /\ r2[s[k]] = r[s[k]]
          /\ Ahead(c, s[k + 1]) = Ahead(c, s[k]) + Stored(r[s[k]])
  <2> TAKE k \in 1..(n - 1)
  <2>1. r[s[k]] \in Lengths /\ Ahead(c, s[k + 1]) = Ahead(c, s[k]) + Stored(r[s[k]])
    BY DEF LaidOut
  <2>2. Ahead(c, s[k]) + Stored(r[s[k]]) <= Ahead(c, w)
    BY <1>1 DEF LaidOut
  <2>3. Stored(r[s[k]]) \in Nat /\ Stored(r[s[k]]) >= 4
    BY <2>1, LengthsNat, StoredIs
  <2>4. s[k] \in Offsets
    BY <1>1
  <2>5. Ahead(c, s[k]) \in Int /\ Ahead(c, w) \in Int
    BY <2>4, AheadInt, Zenon
  <2>6. Ahead(c, s[k]) < Ahead(c, w)
    BY <2>2, <2>3, <2>5
  <2> QED
    BY <2>1, <2>4, <2>6, <1>4
<1>6. r2[w] = l
    BY DEF WithFrame
<1> DEFINE t == Append(s, w2)
<1>7. /\ Len(t) = n + 1 /\ t[n + 1] = w2 /\ \A k \in 1..n : t[k] = s[k]
      /\ t[n] = w
    BY <1>1
<1> HIDE DEF t, n
<1>8. t[1] = c
    BY <1>1, <1>7 DEF LaidOut
<1>9. ASSUME NEW k \in 1..(Len(t) - 1)
      PROVE  r2[t[k]] \in Lengths /\ Ahead(c, t[k + 1]) = Ahead(c, t[k]) + Stored(r2[t[k]])
  <2>1. CASE k = n
    BY <2>1, <1>1, <1>3, <1>6, <1>7
  <2>2. CASE k # n
    <3>1. k \in 1..(n - 1) /\ k + 1 \in 1..n /\ k \in 1..n
      BY <2>2, <1>1, <1>7
    <3> QED
      BY <3>1, <1>5, <1>7
  <2> QED
    BY <2>1, <2>2
<1>10. ASSUME NEW j \in 1..Len(t), NEW k \in 1..Len(t), j < k
       PROVE  Ahead(c, t[j]) + Stored(r2[t[j]]) <= Ahead(c, t[k])
  <2>1. CASE k # n + 1
    <3>1. j \in 1..(n - 1) /\ k \in 1..n /\ j \in 1..n
      BY <2>1, <1>10, <1>1, <1>7
    <3>2. Ahead(c, s[j]) + Stored(r[s[j]]) <= Ahead(c, s[k])
      BY <3>1, <1>10 DEF LaidOut, n
    <3> QED
      BY <3>1, <3>2, <1>5, <1>7
  <2>2. CASE k = n + 1 /\ j = n
    <3>1. Ahead(c, w2) \in Int
      BY <1>3, AheadInt
    <3> QED
      BY <2>2, <1>3, <1>6, <1>7, <3>1
  <2>3. CASE k = n + 1 /\ j # n
    <3>1. j \in 1..(n - 1) /\ j \in 1..n
      BY <2>3, <1>10, <1>1, <1>7
    <3>2. Ahead(c, s[j]) + Stored(r[s[j]]) <= Ahead(c, w)
      BY <3>1, <1>1 DEF LaidOut, n
    <3>3. r2[s[j]] = r[s[j]] /\ r[s[j]] \in Lengths /\ s[j] \in Offsets
      BY <3>1, <1>5, <1>1
    <3>4. Ahead(c, s[j]) \in Int /\ Stored(r[s[j]]) \in Int /\ Ahead(c, w) \in Int
      <4>1. Ahead(c, s[j]) \in Int /\ Ahead(c, w) \in Int
        BY <3>3, AheadInt, Zenon
      <4>2. Stored(r[s[j]]) \in Int
        BY <3>3, StoredNat
      <4> QED
        BY <4>1, <4>2
    <3>5. Ahead(c, s[j]) + Stored(r2[s[j]]) <= Ahead(c, w2)
      BY <3>2, <3>3, <3>4, <1>2, <1>3
    <3> QED
      BY <3>5, <3>1, <2>3, <1>7
  <2> QED
    BY <2>1, <2>2, <2>3
<1>11. r2 \in [Offsets -> {0} \cup Lengths]
    BY DEF WithFrame
<1>12. LaidOut(t, r2, c)
    BY <1>8, <1>9, <1>10 DEF LaidOut
<1> QED
    BY <1>3, <1>5, <1>11, <1>12 DEF t, n

\* The first frame taken away, the others lie behind its end.
LEMMA Shortens ==
    ASSUME NEW s \in Seq(Offsets), Len(s) >= 2, NEW r \in [Offsets -> {0} \cup Lengths],
           NEW c \in Offsets, LaidOut(s, r, c)
    PROVE  /\ Beyond(c, r[c]) = s[2]
           /\ LaidOut(Tail(s), r, s[2])
<1>1. /\ Len(s) \in Nat /\ \A k \in 1..Len(s) : s[k] \in Offsets
      /\ RingSize \in Nat \ {0}
    BY RxAssumption
<1>2. s[1] = c /\ s[2] \in Offsets /\ 1 \in 1..(Len(s) - 1)
    BY <1>1 DEF LaidOut
<1>3. r[c] \in Lengths /\ Ahead(c, s[2]) = Ahead(c, c) + Stored(r[c])
    BY <1>2 DEF LaidOut
<1> DEFINE d == s[2]
           z == Stored(r[c])
<1>4. d \in Offsets /\ c \in 0..(RingSize - 1) /\ d \in 0..(RingSize - 1)
    BY <1>2 DEF Offsets
<1>5. z \in Nat /\ z >= 4 /\ Beyond(c, r[c]) = (c + z) % RingSize
    BY <1>3, LengthsNat, StoredIs
<1>6. Ahead(c, d) = z
  <2>1. Ahead(c, c) = 0
    BY <1>1, <1>4, AheadIs
  <2> QED
    BY <2>1, <1>3, <1>5
<1> HIDE DEF d, z
<1>7. Ahead(c, d) = (IF d >= c THEN d - c ELSE d - c + RingSize)
    BY <1>4, AheadIs
<1>8. z \in 0..(RingSize - 1)
    BY <1>1, <1>4, <1>5, <1>6, <1>7
<1>9. (c + z) % RingSize = d
  <2>1. (c + z) % RingSize = IF c + z < RingSize THEN c + z ELSE c + z - RingSize
    BY <1>8, RoundIs
  <2> QED
    BY <2>1, <1>1, <1>4, <1>6, <1>7, <1>8
\* Whatever is not before d is as much nearer to d as d is ahead of c.
<1>10. ASSUME NEW x \in Offsets, Ahead(c, x) >= z
       PROVE  Ahead(d, x) = Ahead(c, x) - z
  <2>1. x \in 0..(RingSize - 1)
    BY DEF Offsets
  <2>2. Ahead(c, x) = (IF x >= c THEN x - c ELSE x - c + RingSize)
    BY AheadIs
  <2>3. Ahead(d, x) = (IF x >= d THEN x - d ELSE x - d + RingSize)
    BY <1>4, AheadIs
  <2> QED
    BY <2>1, <2>2, <2>3, <1>1, <1>4, <1>6, <1>7, <1>8, <1>10
<1>11. \A k \in 2..Len(s) : Ahead(d, s[k]) = Ahead(c, s[k]) - z /\ Ahead(c, s[k]) \in Int
  <2> TAKE k \in 2..Len(s)
  <2>1. k \in 1..Len(s) /\ 1 < k /\ 1 \in 1..Len(s) /\ s[k] \in Offsets
    BY <1>1
  <2>2. Ahead(c, s[1]) + Stored(r[s[1]]) <= Ahead(c, s[k])
    BY <2>1 DEF LaidOut
  <2>3. Ahead(c, s[k]) \in Int /\ Ahead(c, c) \in Int /\ Ahead(c, c) >= 0
    BY <2>1, AheadInt, Zenon
  <2>4. Ahead(c, s[k]) >= z
    BY <2>2, <2>3, <1>2, <1>5 DEF z
  <2> QED
    BY <2>1, <2>3, <2>4, <1>10
<1> DEFINE t == Tail(s)
<1>12. Len(t) = Len(s) - 1 /\ \A k \in 1..Len(t) : t[k] = s[k + 1]
    BY <1>1
<1> HIDE DEF t
<1>13. t[1] = d
    BY <1>1, <1>12 DEF d
<1>14. ASSUME NEW k \in 1..(Len(t) - 1)
       PROVE  r[t[k]] \in Lengths /\ Ahead(d, t[k + 1]) = Ahead(d, t[k]) + Stored(r[t[k]])
  <2>1. /\ k + 1 \in 1..(Len(s) - 1) /\ k + 1 \in 2..Len(s) /\ k + 2 \in 2..Len(s)
        /\ k \in 1..Len(t) /\ k + 1 \in 1..Len(t) /\ k + 1 + 1 = k + 2
    BY <1>1, <1>12
  <2>2. t[k] = s[k + 1] /\ t[k + 1] = s[k + 2]
    BY <2>1, <1>12
  <2>3. r[s[k + 1]] \in Lengths /\ Ahead(c, s[k + 2]) = Ahead(c, s[k + 1]) + Stored(r[s[k + 1]])
    BY <2>1 DEF LaidOut
  <2>4. Stored(r[s[k + 1]]) \in Nat
    BY <2>3, LengthsNat, StoredIs
  <2>5. /\ Ahead(d, s[k + 1]) = Ahead(c, s[k + 1]) - z /\ Ahead(c, s[k + 1]) \in Int
        /\ Ahead(d, s[k + 2]) = Ahead(c, s[k + 2]) - z /\ Ahead(c, s[k + 2]) \in Int
    BY <2>1, <1>11
  <2> QED
    BY <2>2, <2>3, <2>4, <2>5, <1>5
<1>15. ASSUME NEW j \in 1..Len(t), NEW k \in 1..Len(t), j < k
       PROVE  Ahead(d, t[j]) + Stored(r[t[j]]) <= Ahead(d, t[k])
  <2>1. /\ j + 1 \in 1..Len(s) /\ k + 1 \in 1..Len(s) /\ j + 1 < k + 1
        /\ j + 1 \in 2..Len(s) /\ k + 1 \in 2..Len(s) /\ j + 1 \in 1..(Len(s) - 1)
    BY <1>1, <1>12, <1>15
  <2>2. t[j] = s[j + 1] /\ t[k] = s[k + 1]
    BY <1>12
  <2>3. Ahead(c, s[j + 1]) + Stored(r[s[j + 1]]) <= Ahead(c, s[k + 1])
    BY <2>1 DEF LaidOut
  <2>4. r[s[j + 1]] \in Lengths
    BY <2>1 DEF LaidOut
  <2>5. Stored(r[s[j + 1]]) \in Nat
    BY <2>4, LengthsNat, StoredIs
  <2>6. /\ Ahead(d, s[j + 1]) = Ahead(c, s[j + 1]) - z /\ Ahead(c, s[j + 1]) \in Int
        /\ Ahead(d, s[k + 1]) = Ahead(c, s[k + 1]) - z /\ Ahead(c, s[k + 1]) \in Int
    BY <2>1, <1>11
  <2> QED
    BY <2>2, <2>3, <2>5, <2>6, <1>5
<1>16. LaidOut(t, r, d)
    BY <1>13, <1>14, <1>15 DEF LaidOut
<1> QED
    BY <1>5, <1>9, <1>16 DEF t, d, z

\* What the ring looks like to a caller.
LEMMA MarksAre ==
    ASSUME RxTyped
    PROVE  /\ Marks \in Seq(Offsets) /\ Marks # <<>> /\ Marks[Len(Marks)] = write_offset
           /\ Len(Marks) = 1 + Len(backlog) + IF Taken THEN 1 ELSE 0
           /\ Taken => Tail(Marks) = Append(backlog, write_offset)
<1>0. backlog \in Seq(Offsets) /\ capr \in Offsets /\ write_offset \in Offsets
    BY DEF RxTyped
<1>1. ASSUME NEW q \in Seq(Offsets), Marks = Append(q, write_offset)
      PROVE  /\ Marks \in Seq(Offsets) /\ Marks # <<>> /\ Marks[Len(Marks)] = write_offset
             /\ Len(Marks) = 1 + Len(q)
             /\ q # <<>> => Tail(Marks) = Append(Tail(q), write_offset)
    BY <1>0, <1>1
<1>2. CASE Taken
  <2> DEFINE q == <<capr>> \o backlog
  <2>1. q \in Seq(Offsets) /\ Len(q) = 1 + Len(backlog) /\ q # <<>>
    BY <1>0
  <2>2. Tail(q) = backlog
    BY <1>0
  <2>3. Marks = Append(q, write_offset)
    BY <1>2 DEF Marks
  <2> HIDE DEF q
  <2>4. Len(Marks) = 1 + Len(backlog) + 1
    BY <2>1, <2>3, <1>0, <1>1
  <2>5. Tail(Marks) = Append(backlog, write_offset)
    BY <2>1, <2>2, <2>3, <1>1, Zenon
  <2> QED
    BY <2>1, <2>3, <2>4, <2>5, <1>1, <1>2, Zenon
<1>3. CASE ~Taken
  <2>1. Marks = Append(backlog, write_offset)
    BY <1>3 DEF Marks
  <2>2. Len(Marks) = 1 + Len(backlog) + 0
    BY <2>1, <1>0, <1>1
  <2> QED
    BY <2>1, <2>2, <1>0, <1>1, <1>3, Zenon
<1> QED
    BY <1>2, <1>3, Zenon

\* With a frame in the ring, the oldest begins at capr and the ring is not empty.
LEMMA OldestIs ==
    ASSUME RxSteady, Taken \/ backlog # <<>>
    PROVE  /\ Len(Marks) >= 2 /\ ring[capr] \in Lengths /\ write_offset # capr
           /\ HeaderLengths = {ring[capr]}
<1>1. /\ Marks \in Seq(Offsets) /\ Marks[Len(Marks)] = write_offset
      /\ Len(Marks) = 1 + Len(backlog) + IF Taken THEN 1 ELSE 0
    BY MarksAre DEF RxSteady
<1>2. Len(backlog) \in Nat /\ (backlog # <<>> => Len(backlog) >= 1)
    BY DEF RxSteady, RxTyped
<1>3. Len(Marks) \in Nat /\ Len(Marks) >= 2
    BY <1>1, <1>2
<1>4. /\ Marks[1] = capr /\ ring[capr] \in Lengths
      /\ Ahead(capr, capr) + Stored(ring[capr]) <= Ahead(capr, write_offset)
    BY <1>1, <1>3 DEF RxSteady, LaidOut
<1>5. Ahead(capr, capr) \in Int /\ Stored(ring[capr]) \in Nat /\ Stored(ring[capr]) >= 4
  <2>1. capr \in Offsets
    BY DEF RxSteady, RxTyped
  <2> QED
    BY <2>1, <1>4, AheadInt, StoredNat, Zenon
<1>6. write_offset # capr
    BY <1>4, <1>5
<1>7. ring[capr] # 0 /\ g_rx_read_offset = capr
    BY <1>4, LengthsNat DEF RxSteady, RxTyped
<1> QED
    BY <1>3, <1>4, <1>6, <1>7 DEF HeaderLengths

LEMMA ReceiveSteady ==
    ASSUME RxSteady, ~rx_raced, NEW length \in Lengths, Receive(length)
    PROVE  RxSteady'
<1>1. RxTyped
    BY DEF RxSteady
<1>2. /\ Marks \in Seq(Offsets) /\ Marks # <<>> /\ Marks[Len(Marks)] = write_offset
    BY <1>1, MarksAre
<1>3. /\ LaidOut(Marks, ring, capr) /\ write_offset \in Offsets /\ capr \in Offsets
      /\ ring \in [Offsets -> {0} \cup Lengths] /\ backlog \in Seq(Offsets)
    BY DEF RxSteady, RxTyped
<1>4. /\ Ahead(capr, write_offset) + Stored(length) < RingSize
      /\ ring' = WithFrame(ring, write_offset, length)
      /\ write_offset' = (write_offset + Stored(length)) % RingSize
    BY DEF Receive, Ahead, WithFrame
<1>5. /\ backlog' = Append(backlog, write_offset) /\ isr' = TRUE
      /\ g_rx_read_offset' = g_rx_read_offset /\ capr' = capr /\ rx_pc' = rx_pc
      /\ hold' = hold /\ processed' = processed /\ Taken' = Taken
    BY DEF Receive, Taken
<1> DEFINE m2 == Append(Marks, write_offset')
<1>6. /\ LaidOut(m2, ring', capr) /\ write_offset' \in Offsets
      /\ ring' \in [Offsets -> {0} \cup Lengths]
      /\ \A k \in 1..(Len(Marks) - 1) : ring'[Marks[k]] = ring[Marks[k]]
  <2> PICK m \in Seq(Offsets) : m = Marks
    BY <1>2
  <2> PICK w2 : w2 = write_offset'
    OBVIOUS
  <2> PICK r2 : r2 = ring'
    OBVIOUS
  <2>1. LaidOut(m, ring, capr) /\ m # <<>> /\ m[Len(m)] = write_offset
    BY <1>2, <1>3
  <2>2. /\ LaidOut(Append(m, w2), r2, capr) /\ w2 \in Offsets
        /\ r2 \in [Offsets -> {0} \cup Lengths]
        /\ \A k \in 1..(Len(m) - 1) : r2[m[k]] = ring[m[k]]
    BY <1>3, <1>4, <2>1, Extends
  <2> QED
    BY <2>2
<1>7. Marks' = m2
  <2>1. CASE Taken
    <3>1. <<capr>> \o Append(backlog, write_offset) = Append(<<capr>> \o backlog, write_offset)
      BY <1>3
    <3> QED
      BY <2>1, <3>1, <1>5 DEF Marks
  <2>2. CASE ~Taken
    BY <2>2, <1>5 DEF Marks
  <2> QED
    BY <2>1, <2>2
<1> HIDE DEF m2
<1>8. RxTyped'
    BY <1>1, <1>3, <1>5, <1>6 DEF RxTyped
<1>9. backlog' # <<>>
    BY <1>3, <1>5
<1>10. Polling'
  <2>1. ASSUME NEW c \in Callers, rx_pc[c] = "advance"
        PROVE  ring'[capr] = ring[capr]
    <3>1. Taken
      BY <2>1 DEF Taken
    <3>2. Len(Marks) >= 2 /\ Len(Marks) \in Nat
      BY <3>1, <1>2, OldestIs
    <3>3. Marks[1] = capr /\ 1 \in 1..(Len(Marks) - 1)
      BY <3>2, <1>3 DEF LaidOut
    <3> QED
      BY <3>3, <1>6
  <2> QED
    BY <2>1, <1>5, <1>9 DEF Polling, RxSteady
<1> QED
    BY <1>5, <1>6, <1>7, <1>8, <1>10 DEF RxSteady, NoFrameForgotten

\* Steps that leave the ring and the frames alone.
LEMMA IdleSteady ==
    ASSUME RxSteady,
           UNCHANGED <<write_offset, ring, g_rx_read_offset, capr, hold, backlog>>,
           rx_pc' \in [Callers -> {"off", "check", "header", "advance"}],
           processed' \in [Callers -> Nat],
           \A c \in Callers : rx_pc'[c] = "advance" <=> rx_pc[c] = "advance",
           \A c \in Callers : rx_pc'[c] = "header" => Taken \/ backlog # <<>>,
           rx_pc["irq"] = "advance" => rx_pc'["main"] \in {"off", "check"},
           NoFrameForgotten'
    PROVE  RxSteady'
<1>1. Taken' = Taken
    BY DEF Taken
<1>2. Marks' = Marks
    BY <1>1 DEF Marks
<1>3. RxTyped'
    BY DEF RxSteady, RxTyped
<1>4. Polling'
    BY <1>1 DEF RxSteady, Polling, Callers
<1> QED
    BY <1>2, <1>3, <1>4 DEF RxSteady

LEMMA HandlerSteady ==
    ASSUME RxSteady, net_handle_irq
    PROVE  RxSteady'
<1>1. /\ rx_pc \in [Callers -> {"off", "check", "header", "advance"}]
      /\ processed \in [Callers -> Nat] /\ Polling /\ "irq" \in Callers /\ "main" \in Callers
    BY DEF RxSteady, RxTyped, Callers
<1>2. /\ rx_pc["irq"] = "off" /\ rx_pc' = [rx_pc EXCEPT !["irq"] = "check"]
      /\ processed' = [processed EXCEPT !["irq"] = 0]
      /\ UNCHANGED <<write_offset, ring, g_rx_read_offset, capr, hold, backlog>>
    BY DEF net_handle_irq
<1>3. rx_pc' \in [Callers -> {"off", "check", "header", "advance"}] /\ rx_pc'["irq"] = "check"
    BY <1>1, <1>2
<1>4. processed' \in [Callers -> Nat]
    BY <1>1, <1>2
<1>5. NoFrameForgotten'
    BY <1>1, <1>3 DEF NoFrameForgotten
<1>6. \A c \in Callers : rx_pc'[c] = rx_pc[c] \/ (rx_pc[c] = "off" /\ rx_pc'[c] = "check")
    BY <1>1, <1>2
<1>7. \A c \in Callers : rx_pc'[c] = "header" => Taken \/ backlog # <<>>
    BY <1>1, <1>6 DEF Polling
<1> QED
    BY <1>1, <1>2, <1>3, <1>4, <1>5, <1>6, <1>7, IdleSteady

LEMMA BeginSteady ==
    ASSUME RxSteady, poll_begin
    PROVE  RxSteady'
<1>1. /\ rx_pc \in [Callers -> {"off", "check", "header", "advance"}]
      /\ processed \in [Callers -> Nat] /\ Polling /\ "irq" \in Callers /\ "main" \in Callers
    BY DEF RxSteady, RxTyped, Callers
<1>2. /\ rx_pc["main"] = "off" /\ rx_pc' = [rx_pc EXCEPT !["main"] = "check"]
      /\ processed' = [processed EXCEPT !["main"] = 0] /\ rx_pc["irq"] = "off"
      /\ UNCHANGED <<write_offset, ring, g_rx_read_offset, capr, hold, backlog>>
    BY DEF poll_begin, card, Runs
<1>3. rx_pc' \in [Callers -> {"off", "check", "header", "advance"}] /\ rx_pc'["main"] = "check"
    BY <1>1, <1>2
<1>4. processed' \in [Callers -> Nat]
    BY <1>1, <1>2
<1>5. NoFrameForgotten'
    BY <1>1, <1>3 DEF NoFrameForgotten
<1>6. \A c \in Callers : rx_pc'[c] = rx_pc[c] \/ (rx_pc[c] = "off" /\ rx_pc'[c] = "check")
    BY <1>1, <1>2
<1>7. \A c \in Callers : rx_pc'[c] = "header" => Taken \/ backlog # <<>>
    BY <1>1, <1>6 DEF Polling
<1> QED
    BY <1>1, <1>2, <1>3, <1>4, <1>5, <1>6, <1>7, IdleSteady

LEMMA CheckSteady ==
    ASSUME RxSteady, NEW c \in Callers, poll_check(c)
    PROVE  RxSteady'
<1>1. /\ rx_pc \in [Callers -> {"off", "check", "header", "advance"}]
      /\ processed \in [Callers -> Nat] /\ Polling /\ "irq" \in Callers /\ "main" \in Callers
    BY DEF RxSteady, RxTyped, Callers
<1>2. /\ rx_pc[c] = "check" /\ (c = "main" => rx_pc["irq"] = "off")
      /\ rx_pc' = [rx_pc EXCEPT ![c] = IF write_offset = capr THEN "off" ELSE "header"]
      /\ UNCHANGED <<write_offset, ring, g_rx_read_offset, capr, hold, backlog, processed>>
    BY DEF poll_check, card, Runs
<1>3. rx_pc' \in [Callers -> {"off", "check", "header", "advance"}]
    BY <1>1, <1>2
<1>4. write_offset = capr => ~Taken /\ backlog = <<>>
    BY OldestIs
<1>5. write_offset # capr => Taken \/ backlog # <<>>
  <2> SUFFICES ASSUME ~Taken, backlog = <<>>
               PROVE  write_offset = capr
    OBVIOUS
  <2>1. Marks = <<write_offset>>
    BY DEF Marks
  <2> QED
    BY <2>1 DEF RxSteady, LaidOut
<1>6. NoFrameForgotten'
  <2>1. CASE write_offset = capr
    BY <2>1, <1>2, <1>4 DEF NoFrameForgotten
  <2>2. CASE write_offset # capr
    <3>1. rx_pc'[c] = "header"
      BY <2>2, <1>1, <1>2
    <3> QED
      BY <3>1 DEF NoFrameForgotten
  <2> QED
    BY <2>1, <2>2
<1>7. \A d \in Callers : d # c => rx_pc'[d] = rx_pc[d]
    BY <1>1, <1>2
<1>8. rx_pc'[c] = IF write_offset = capr THEN "off" ELSE "header"
    BY <1>1, <1>2
<1>9. \A d \in Callers : rx_pc'[d] = "advance" <=> rx_pc[d] = "advance"
    BY <1>2, <1>7, <1>8
<1>10. \A d \in Callers : rx_pc'[d] = "header" => Taken \/ backlog # <<>>
    BY <1>1, <1>5, <1>7, <1>8 DEF Polling
<1>11. rx_pc["irq"] = "advance" => rx_pc'["main"] \in {"off", "check"}
    BY <1>1, <1>2, <1>7 DEF Polling
<1>12. processed' \in [Callers -> Nat]
    BY <1>1, <1>2
<1> QED
    BY <1>2, <1>3, <1>6, <1>9, <1>10, <1>11, <1>12, IdleSteady

\* As long as the driver is in step, every header it looks at is a frame's.
LEMMA HeaderGood ==
    ASSUME RxSteady, NEW c \in Callers, poll_bad_header(c)
    PROVE  FALSE
<1>1. rx_pc[c] = "header"
    BY DEF poll_bad_header
<1>2. Taken \/ backlog # <<>>
    BY <1>1 DEF RxSteady, Polling
<1>3. ring[capr] \in Lengths /\ HeaderLengths = {ring[capr]}
    BY <1>2, OldestIs
<1>4. PICK length \in HeaderLengths : length < 4 \/ length > MaxLength
    BY DEF poll_bad_header
<1>5. length \in Lengths
    BY <1>3, <1>4
<1> QED
    BY <1>4, <1>5, LengthsNat, RxAssumption

LEMMA FrameSteady ==
    ASSUME RxSteady, ~rx_raced, ~rx_raced', NEW c \in Callers, poll_frame(c)
    PROVE  RxSteady'
<1>1. /\ rx_pc \in [Callers -> {"off", "check", "header", "advance"}]
      /\ backlog \in Seq(Offsets) /\ Polling /\ RxTyped /\ LaidOut(Marks, ring, capr)
      /\ g_rx_read_offset = capr /\ DOMAIN hold = Callers
    BY DEF RxSteady, RxTyped
<1>2. /\ rx_pc[c] = "header" /\ (c = "main" => rx_pc["irq"] = "off")
      /\ rx_pc' = [rx_pc EXCEPT ![c] = "advance"]
      /\ (c = "irq" => rx_pc["main"] \notin {"header", "advance"})
      /\ backlog' = Tail(backlog)
      /\ UNCHANGED <<write_offset, ring, g_rx_read_offset, capr, processed>>
    BY DEF poll_frame, card, Runs
<1>3. ~Taken
    BY <1>1, <1>2 DEF Taken, Callers
<1>4. backlog # <<>>
    BY <1>1, <1>2, <1>3 DEF Polling
<1>5. rx_pc'[c] = "advance" /\ \A d \in Callers : d # c => rx_pc'[d] = rx_pc[d]
    BY <1>1, <1>2
<1>6. Taken'
    BY <1>5 DEF Taken
<1>7. hold' = [hold EXCEPT ![c] = <<capr, ring[capr]>>]
  <2>1. PICK length \in HeaderLengths : hold' = [hold EXCEPT ![c] = <<g_rx_read_offset, length>>]
    BY DEF poll_frame
  <2>2. HeaderLengths = {ring[capr]}
    BY <1>4, OldestIs
  <2> QED
    BY <2>1, <2>2, <1>1
<1>8. Marks' = Marks
  <2>1. Marks = Append(backlog, write_offset)
    BY <1>3 DEF Marks
  <2>2. Marks[1] = backlog[1] /\ Marks[1] = capr
    BY <2>1, <1>1, <1>4 DEF LaidOut
  <2>3. <<backlog[1]>> \o Tail(backlog) = backlog
    BY <1>1, <1>4
  <2>4. Marks' = Append(<<capr>> \o Tail(backlog), write_offset)
    BY <1>2, <1>6 DEF Marks
  <2> QED
    BY <2>1, <2>2, <2>3, <2>4
<1>9. RxTyped'
  <2>1. Tail(backlog) \in Seq(Offsets)
    BY <1>1, <1>4
  <2>2. rx_pc' \in [Callers -> {"off", "check", "header", "advance"}]
    BY <1>1, <1>2
  <2>3. DOMAIN hold' = Callers
    BY <1>1, <1>7
  <2> QED
    BY <2>1, <2>2, <2>3, <1>1, <1>2 DEF RxTyped
<1>10. Polling'
  <2>1. \A d \in Callers : rx_pc'[d] = "advance" => hold'[d] = <<capr', ring'[capr']>>
    <3>1. \A d \in Callers : d # c => rx_pc'[d] # "advance"
      BY <1>3, <1>5 DEF Taken
    <3>2. hold'[c] = <<capr, ring[capr]>>
      BY <1>1, <1>7
    <3> QED
      BY <3>1, <3>2, <1>2
  <2>2. rx_pc'["irq"] = "advance" => rx_pc'["main"] \in {"off", "check"}
    <3>1. CASE c = "irq"
      BY <3>1, <1>1, <1>2, <1>5 DEF Callers
    <3>2. CASE c = "main"
      BY <3>2, <1>2, <1>5 DEF Callers
    <3> QED
      BY <3>1, <3>2 DEF Callers
  <2> QED
    BY <2>1, <2>2, <1>6 DEF Polling
<1>11. NoFrameForgotten'
    BY <1>5 DEF NoFrameForgotten
<1>12. LaidOut(Marks', ring', capr')
    BY <1>1, <1>2, <1>8
<1> QED
    BY <1>9, <1>10, <1>11, <1>12 DEF RxSteady

LEMMA AdvanceSteady ==
    ASSUME RxSteady, NEW c \in Callers, poll_advance(c)
    PROVE  RxSteady'
<1>1. /\ rx_pc \in [Callers -> {"off", "check", "header", "advance"}]
      /\ backlog \in Seq(Offsets) /\ Polling /\ RxTyped /\ LaidOut(Marks, ring, capr)
      /\ g_rx_read_offset = capr /\ DOMAIN hold = Callers /\ processed \in [Callers -> Nat]
      /\ capr \in Offsets /\ ring \in [Offsets -> {0} \cup Lengths]
    BY DEF RxSteady, RxTyped
<1>2. /\ rx_pc[c] = "advance" /\ (c = "main" => rx_pc["irq"] = "off")
      /\ rx_pc' = [rx_pc EXCEPT ![c] = IF processed'[c] > Budget THEN "off" ELSE "check"]
      /\ UNCHANGED <<write_offset, ring, backlog>> /\ capr' = g_rx_read_offset'
      /\ processed' = [processed EXCEPT ![c] = @ + 1] /\ capped' = (processed'[c] > Budget)
      /\ hold' = [hold EXCEPT ![c] = <<0, 0>>]
    BY DEF poll_advance, card, Runs
<1>3. Taken /\ hold[c] = <<capr, ring[capr]>>
    BY <1>1, <1>2 DEF Taken, Polling
<1>4. g_rx_read_offset' = Beyond(capr, ring[capr])
    BY <1>1, <1>3 DEF poll_advance
<1>5. /\ Marks \in Seq(Offsets) /\ Len(Marks) >= 2
      /\ Tail(Marks) = Append(backlog, write_offset)
    BY <1>1, <1>3, MarksAre, OldestIs
<1>6. capr' = Marks[2] /\ LaidOut(Tail(Marks), ring, Marks[2])
    BY <1>1, <1>2, <1>4, <1>5, Shortens
<1>7. \A d \in Callers : d # c => rx_pc'[d] = rx_pc[d] /\ rx_pc[d] \in {"off", "check"}
    BY <1>1, <1>2 DEF Callers, Polling
<1>8. rx_pc'[c] = IF processed'[c] > Budget THEN "off" ELSE "check"
    BY <1>1, <1>2
<1>9. \A d \in Callers : rx_pc'[d] \in {"off", "check"}
    BY <1>7, <1>8
<1>10. ~Taken'
    BY <1>9 DEF Taken
<1>11. Marks' = Tail(Marks)
    BY <1>2, <1>5, <1>10 DEF Marks
<1>12. capr' \in Offsets
    BY <1>5, <1>6
<1>13. RxTyped'
  <2>1. rx_pc' \in [Callers -> {"off", "check", "header", "advance"}]
    BY <1>1, <1>2
  <2>2. processed' \in [Callers -> Nat]
    BY <1>1, <1>2
  <2>3. DOMAIN hold' = Callers
    BY <1>1, <1>2
  <2> QED
    BY <2>1, <2>2, <2>3, <1>1, <1>2, <1>12 DEF RxTyped
<1>14. Polling'
    BY <1>9 DEF Polling, Callers
<1>15. NoFrameForgotten'
  <2>1. CASE processed'[c] > Budget
    BY <2>1, <1>2 DEF NoFrameForgotten
  <2>2. CASE ~(processed'[c] > Budget)
    BY <2>2, <1>8 DEF NoFrameForgotten
  <2> QED
    BY <2>1, <2>2
<1>16. LaidOut(Marks', ring', capr')
    BY <1>2, <1>6, <1>11
<1> QED
    BY <1>13, <1>14, <1>15, <1>16 DEF RxSteady

LEMMA RxInvInit == RxInit => RxInv
<1> SUFFICES ASSUME RxInit PROVE RxSteady
    BY DEF RxInv, RxInit
<1>1. 0 \in Offsets
    BY RxAssumption DEF Offsets
<1>2. RxTyped
    BY <1>1 DEF RxInit, RxTyped
<1>3. ~Taken /\ Marks = <<0>>
    BY DEF RxInit, Taken, Marks
<1>4. LaidOut(Marks, ring, capr)
    BY <1>3 DEF RxInit, LaidOut
<1>5. Polling
    BY DEF RxInit, Polling, Callers
<1> QED
    BY <1>2, <1>4, <1>5 DEF RxSteady, NoFrameForgotten, RxInit

LEMMA RxInvNext == RxInv /\ [RxNext]_rxVars => RxInv'
<1> SUFFICES ASSUME RxInv, [RxNext]_rxVars
             PROVE  RxInv'
    OBVIOUS
<1>1. rx_raced' \in BOOLEAN /\ (rx_raced => rx_raced')
    BY DEF RxInv, RxNext, rxVars, Receive, net_handle_irq, poll_begin, rtl_poll_rx, poll_check,
           poll_bad_header, poll_frame, poll_advance
<1> SUFFICES ASSUME ~rx_raced' PROVE RxSteady'
    BY <1>1 DEF RxInv
<1>2. ~rx_raced /\ RxSteady
    BY <1>1 DEF RxInv
<1>3. ASSUME NEW length \in Lengths, Receive(length) PROVE RxSteady'
    BY <1>2, <1>3, ReceiveSteady
<1>4. ASSUME NEW c \in Callers, rtl_poll_rx(c) PROVE RxSteady'
    BY <1>2, <1>4, CheckSteady, HeaderGood, FrameSteady, AdvanceSteady DEF rtl_poll_rx
<1>5. CASE UNCHANGED rxVars
  <2>1. /\ Taken' = Taken /\ Polling' = Polling /\ RxTyped' = RxTyped
        /\ NoFrameForgotten' = NoFrameForgotten
    BY <1>5 DEF rxVars, Taken, Polling, RxTyped, NoFrameForgotten
  <2>2. Marks' = Marks /\ ring' = ring /\ capr' = capr
    BY <1>5, <2>1 DEF rxVars, Marks
  <2> QED
    BY <2>1, <2>2, <1>2 DEF RxSteady
<1> QED
    BY <1>2, <1>3, <1>4, <1>5, HandlerSteady, BeginSteady DEF RxNext

LEMMA RxInvariance == RxSpec => []RxInv
BY RxInvInit, RxInvNext, PTL DEF RxSpec

\* The driver's offset stays in step with the card's ring.
THEOREM ReceiverInStep == RxSpec => []RxInSync
<1>1. RxInv => RxInSync
  <2> SUFFICES ASSUME RxInv, ~rx_raced, \A c \in Callers : rx_pc[c] \in {"off", "check"}
               PROVE  g_rx_read_offset = IF backlog = <<>> THEN write_offset ELSE Head(backlog)
    BY DEF RxInSync
  <2>1. ~Taken
    BY DEF Taken
  <2>2. Marks = Append(backlog, write_offset) /\ Marks[1] = capr /\ g_rx_read_offset = capr
    BY <2>1 DEF Marks, RxInv, RxSteady, RxTyped, LaidOut
  <2>3. backlog \in Seq(Offsets)
    BY DEF RxInv, RxSteady, RxTyped
  <2>4. CASE backlog = <<>>
    BY <2>2, <2>4
  <2>5. CASE backlog # <<>>
    BY <2>2, <2>3, <2>5
  <2> QED
    BY <2>4, <2>5
<1> QED
    BY <1>1, RxInvariance, PTL

\* As long as the handler took no frame from under the main thread, no poll ever
\* gives up on a header: the driver looks only where a frame begins.
THEOREM HeadersGood == RxSpec => [][~rx_raced => \A c \in Callers : ~poll_bad_header(c)]_rxVars
<1>1. RxInv => (~rx_raced => \A c \in Callers : ~poll_bad_header(c))
    BY HeaderGood DEF RxInv
<1>2. RxInv /\ [RxNext]_rxVars => [~rx_raced => \A c \in Callers : ~poll_bad_header(c)]_rxVars
    BY <1>1
<1> QED
    BY <1>2, RxInvariance, PTL DEF RxSpec

\* No frame is left in the ring with nobody to fetch it.
THEOREM FramesFetched == RxSpec => []NoFrameForgotten
<1>1. RxInv => NoFrameForgotten
    BY DEF RxInv, RxSteady, NoFrameForgotten
<1> QED
    BY <1>1, RxInvariance, PTL

----------------------------------------------------------------------------
(* The ARP cache (Arp) *)

Learning == {"scan", "valid", "ip", "mac1", "mac2"}
Filling == {"mac1", "mac2"}

\* An entry that was never used has no address; whoever is being resolved or
\* learnt from is a host; a resolution under way has no result.
Entered ==
    /\ \A s \in Slots : ~valid[s] => ip[s] = Nobody
    /\ pc = "ip" => valid[slot]
    /\ pc \in Learning => sender \in Hosts
    /\ pc # "idle" => result = "none" /\ target \in Hosts

\* No address has two entries, and all but the one being filled in are true.
Unique == \A s, t \in Slots : \A h \in Hosts : Holds(s, h) /\ Holds(t, h) => s = t
EntriesTrue ==
    \A s \in Slots : \A h \in Hosts :
        Holds(s, h) /\ ~(s = slot /\ pc \in Filling) => mac[s] = <<h, h>>

\* The scan.  It has passed the sender's entry only if the interrupt added it
\* since: to the free entry that the scan has found or, in a full cache, to the
\* first entry.  Either way that is the entry the scan will choose.
Scanned ==
    pc = "scan" =>
        /\ \A s \in Slots : s < i /\ Holds(s, sender) =>
              IF free_slot = MaxCache THEN s = 0 /\ \A t \in Slots : valid[t] ELSE s = free_slot
        /\ \A s \in Slots : s < i /\ ~valid[s] => free_slot <= s
        /\ free_slot # MaxCache => free_slot < i /\ (~valid[free_slot] \/ Holds(free_slot, sender))

\* The entry in hand.
InHand ==
    /\ pc \in {"valid", "ip"} => \A s \in Slots : Holds(s, sender) => s = slot
    /\ pc \in Filling => Holds(slot, sender)
    /\ pc = "mac2" => mac[slot][1] = sender
    /\ pc \in {"copy1", "copy2"} => Holds(slot, target)
    /\ pc = "copy2" => got[1] = target

Sound ==
    /\ Unique /\ EntriesTrue /\ Scanned /\ InHand
    /\ result = "found" => got = <<target, target>>

\* Each request moves the time of the next one on.
Spaced == probes * ProbeGap <= next_probe /\ next_probe <= now + ProbeGap

ArpInv == ArpTypeOK /\ Entered /\ Spaced /\ (~raced => Sound)

----------------------------------------------------------------------------

LEMMA Least ==
    ASSUME NEW S, S \subseteq Nat, S # {}
    PROVE  \E s \in S : \A t \in S : s <= t
<1> DEFINE R == OpToRel(<, Nat)
<1>1. IsWellFoundedOn(R, Nat)
    BY NatLessThanWellFounded, Zenon
<1>2. \A s, t \in Nat : t < s => <<t, s>> \in R
    BY DEF OpToRel
<1> HIDE DEF R
<1>3. PICK s \in S : \A t \in S : ~(<<t, s>> \in R)
    BY <1>1, WFMin, Zenon
<1>4. \A t \in S : ~(t < s)
    BY <1>2, <1>3, Zenon
<1> QED
    BY <1>4

\* Where arp_cache_update, run at one go, puts a host.
LEMMA EntryForIs ==
    ASSUME ArpTypeOK, NEW h \in Hosts
    PROVE  /\ EntryFor(h) \in Slots
           /\ \/ Holds(EntryFor(h), h)
              \/ /\ \A t \in Slots : ~Holds(t, h)
                 /\ \/ /\ ~valid[EntryFor(h)]
                       /\ \A t \in Slots : ~valid[t] => EntryFor(h) <= t
                    \/ EntryFor(h) = 0 /\ \A t \in Slots : valid[t]
<1> DEFINE least(S) == CHOOSE s \in S : \A t \in S : s <= t
           own == {s \in Slots : Holds(s, h)}
           free == {s \in Slots : ~valid[s]}
<1>1. EntryFor(h) = IF own # {} THEN least(own) ELSE IF free # {} THEN least(free) ELSE 0
    BY DEF EntryFor
<1>2. own \subseteq Nat /\ free \subseteq Nat
    BY ArpAssumption DEF Slots
<1>3. ASSUME NEW S, S \subseteq Nat, S # {}
      PROVE  least(S) \in S /\ \A t \in S : least(S) <= t
    BY <1>3, Least, Zenon
<1>4. CASE own # {}
    BY <1>1, <1>2, <1>3, <1>4, Zenon
<1>5. CASE own = {} /\ free # {}
    BY <1>1, <1>2, <1>3, <1>5, Zenon
<1>6. CASE own = {} /\ free = {}
  <2>1. 0 \in Slots
    BY ArpAssumption DEF Slots
  <2> QED
    BY <1>1, <1>6, <2>1
<1> QED
    BY <1>4, <1>5, <1>6

\* The interrupt's update, entry by entry.
LEMMA IrqIs ==
    ASSUME ArpTypeOK, NEW h \in Hosts, Irq(h)
    PROVE  LET s == EntryFor(h)
           IN  /\ valid' \in [Slots -> BOOLEAN] /\ ip' \in [Slots -> Address]
               /\ mac' \in [Slots -> Address \X Address]
               /\ \A t \in Slots : /\ valid'[t] <=> valid[t] \/ t = s
                                   /\ ip'[t] = IF t = s THEN h ELSE ip[t]
                                   /\ mac'[t] = IF t = s THEN <<h, h>> ELSE mac[t]
               /\ \A t \in Slots : \A g : Holds(t, g)' <=> IF t = s THEN g = h ELSE Holds(t, g)
<1> DEFINE s == EntryFor(h)
<1>1. s \in Slots
    BY EntryForIs
<1> HIDE DEF s
<1>2. /\ valid' = [valid EXCEPT ![s] = TRUE] /\ ip' = [ip EXCEPT ![s] = h]
      /\ mac' = [mac EXCEPT ![s] = <<h, h>>]
    BY DEF Irq, s
<1>3. h \in Address
    BY DEF Address
<1>4. /\ valid' \in [Slots -> BOOLEAN] /\ ip' \in [Slots -> Address]
      /\ mac' \in [Slots -> Address \X Address]
    BY <1>1, <1>2, <1>3, Zenon DEF ArpTypeOK
<1>5. \A t \in Slots : valid'[t] = IF t = s THEN TRUE ELSE valid[t]
    BY <1>1, <1>2, Zenon DEF ArpTypeOK
<1>6. \A t \in Slots : /\ ip'[t] = IF t = s THEN h ELSE ip[t]
                       /\ mac'[t] = IF t = s THEN <<h, h>> ELSE mac[t]
    BY <1>1, <1>2, Zenon DEF ArpTypeOK
<1>7. \A t \in Slots : valid[t] \in BOOLEAN
    BY Zenon DEF ArpTypeOK
<1>8. \A t \in Slots : valid'[t] <=> valid[t] \/ t = s
    BY <1>5, <1>7, Zenon
<1>9. \A t \in Slots : \A g : Holds(t, g)' <=> IF t = s THEN g = h ELSE Holds(t, g)
    BY <1>5, <1>6, <1>7, Zenon DEF Holds
<1> QED
    BY <1>4, <1>6, <1>8, <1>9 DEF s

LEMMA ArpInvInit == ArpInit => ArpInv
<1> SUFFICES ASSUME ArpInit PROVE ArpInv
    OBVIOUS
<1>1. ArpTypeOK
  <2>1. MaxCache \in Nat /\ MaxCache > 0 /\ Timeout \in Nat /\ ProbeGap \in Nat
    BY ArpAssumption
  <2>2. Nobody \in Address
    BY DEF Address
  <2>3. valid \in [Slots -> BOOLEAN] /\ raced \in BOOLEAN
    BY Zenon DEF ArpInit
  <2> QED
    BY <2>1, <2>2, <2>3 DEF ArpInit, ArpTypeOK, Slots
<1>2. Entered
    BY DEF ArpInit, Entered, Learning
<1>3. Spaced
    BY ArpAssumption DEF ArpInit, Spaced
<1>4. \A s \in Slots : \A h : ~Holds(s, h)
    BY DEF ArpInit, Holds
<1>5. Sound
    BY <1>4 DEF ArpInit, Sound, Unique, EntriesTrue, Scanned, InHand, Filling
<1> QED
    BY <1>1, <1>2, <1>3, <1>5 DEF ArpInv

LEMMA Numbers ==
    ASSUME ArpTypeOK
    PROVE  /\ now \in Nat /\ now <= Timeout /\ Timeout \in Nat /\ next_probe \in Nat /\ probes \in Nat
           /\ ProbeGap \in Nat /\ ProbeGap > 0
           /\ MaxCache \in Nat /\ MaxCache > 0 /\ i \in Nat /\ i <= MaxCache /\ 0 \in Slots
           /\ free_slot \in Nat /\ free_slot <= MaxCache
           /\ \A s \in Slots : s \in Nat /\ s < MaxCache
           /\ \A n \in Nat : n < MaxCache => n \in Slots
<1>1. /\ MaxCache \in Nat /\ MaxCache > 0 /\ Timeout \in Nat /\ ProbeGap \in Nat /\ ProbeGap > 0
    BY ArpAssumption
<1>2. now \in 0..Timeout /\ next_probe \in 0..(Timeout + ProbeGap) /\ probes \in 0..Timeout
      /\ i \in 0..MaxCache /\ free_slot \in 0..MaxCache
    BY Zenon DEF ArpTypeOK
<1> QED
    BY <1>1, <1>2 DEF Slots

----------------------------------------------------------------------------
(* The interrupts.                                                         *)

LEMMA IrqTyped == ArpTypeOK /\ (\E h \in Hosts : Irq(h)) => ArpTypeOK'
<1> SUFFICES ASSUME ArpTypeOK, NEW h \in Hosts, Irq(h) PROVE ArpTypeOK'
    OBVIOUS
<1>1. /\ valid' \in [Slots -> BOOLEAN] /\ ip' \in [Slots -> Address]
      /\ mac' \in [Slots -> Address \X Address]
    BY IrqIs, Zenon
<1>2. raced' \in BOOLEAN
    BY Zenon DEF Irq, ArpTypeOK
<1> QED
    BY <1>1, <1>2, Zenon DEF Irq, ArpTypeOK, time

LEMMA IrqArpInv == ArpInv /\ (\E h \in Hosts : Irq(h)) => ArpInv'
<1> SUFFICES ASSUME ArpInv, NEW h \in Hosts, Irq(h) PROVE ArpInv'
    OBVIOUS
<1> DEFINE s == EntryFor(h)
<1>1. ArpTypeOK /\ ArpTypeOK'
    BY IrqTyped DEF ArpInv
<1>2. /\ s \in Slots
      /\ \/ Holds(s, h)
         \/ /\ \A t \in Slots : ~Holds(t, h)
            /\ \/ ~valid[s] /\ \A t \in Slots : ~valid[t] => s <= t
               \/ s = 0 /\ \A t \in Slots : valid[t]
    BY <1>1, EntryForIs
<1>3. /\ \A t \in Slots : /\ valid'[t] <=> valid[t] \/ t = s
                          /\ ip'[t] = IF t = s THEN h ELSE ip[t]
                          /\ mac'[t] = IF t = s THEN <<h, h>> ELSE mac[t]
      /\ \A t \in Slots : \A g : Holds(t, g)' <=> IF t = s THEN g = h ELSE Holds(t, g)
    BY <1>1, IrqIs
<1>4. /\ UNCHANGED <<target, sender, i, free_slot, slot, got, result, now, next_probe, probes>>
      /\ pc' = IF pc = "wait" THEN "loop" ELSE pc
      /\ raced' = (raced \/ Disturbs(s, h))
    BY DEF Irq, time
<1> HIDE DEF s
<1>5. Entered'
    BY <1>1, <1>2, <1>3, <1>4, Zenon DEF ArpInv, Entered, Learning, ArpTypeOK
<1>6. Spaced'
    BY <1>4 DEF ArpInv, Spaced
<1>7. ASSUME ~raced' PROVE Sound'
  <2>1. Sound /\ ~Disturbs(s, h)
    BY <1>4, <1>7, Zenon DEF ArpInv
  <2>2. Unique'
    <3>1. Unique
      BY <2>1 DEF Sound
    <3>2. \A t \in Slots : Holds(t, h) => t = s
      BY <1>2, <3>1 DEF Unique
    <3> SUFFICES ASSUME NEW u \in Slots, NEW t \in Slots, NEW g \in Hosts,
                        Holds(u, g)', Holds(t, g)'
                 PROVE  u = t
      BY DEF Unique
    <3>3. CASE g = h
      BY <1>3, <3>2, <3>3
    <3>4. CASE g # h
      BY <1>3, <3>1, <3>4 DEF Unique
    <3> QED
      BY <3>3, <3>4
  <2>3. EntriesTrue'
    BY <1>3, <1>4, <2>1 DEF Sound, EntriesTrue, Filling
  <2>4. slot \in Slots
    BY <1>1, Zenon DEF ArpTypeOK
  <2>5. CASE Holds(s, h)
    <3>1. \A t \in Slots : /\ valid'[t] <=> valid[t]
                           /\ \A g : Holds(t, g)' <=> Holds(t, g)
      BY <1>3, <2>5 DEF Holds
    <3>2. Scanned'
      <4> SUFFICES ASSUME pc = "scan", pc' = "scan" PROVE Scanned'
        BY <1>4 DEF Scanned
      <4>1. free_slot # MaxCache => free_slot \in Slots
        BY <1>1, ArpAssumption DEF ArpTypeOK, Slots
      <4> QED
        BY <1>4, <2>1, <3>1, <4>1 DEF Sound, Scanned
    <3>3. InHand'
      <4>1. pc = "mac2" => mac'[slot][1] = sender
        <5> SUFFICES ASSUME pc = "mac2" PROVE mac'[slot][1] = sender
          OBVIOUS
        <5>1. mac[slot][1] = sender /\ Holds(slot, sender)
          BY <2>1 DEF Sound, InHand, Filling
        <5>2. slot = s => sender = h
          BY <2>5, <5>1 DEF Holds
        <5>3. mac'[slot] = IF slot = s THEN <<h, h>> ELSE mac[slot]
          BY <1>3, <2>4
        <5> QED
          BY <5>1, <5>2, <5>3
      <4> QED
        BY <1>4, <2>1, <2>4, <3>1, <4>1 DEF Sound, InHand, Filling
    <3> QED
      BY <1>4, <2>1, <2>2, <2>3, <3>2, <3>3 DEF Sound
  <2>6. CASE ~Holds(s, h)
    <3>1. /\ pc \notin {"valid", "ip", "mac1", "mac2", "copy1", "copy2"}
          /\ ~(pc = "scan" /\ s = free_slot /\ h # sender)
      BY <2>1, <2>6 DEF Disturbs
    <3>2. InHand'
      BY <1>4, <3>1 DEF InHand, Filling
    <3>3. Scanned'
      <4> SUFFICES ASSUME pc = "scan", pc' = "scan" PROVE Scanned'
        BY <1>4 DEF Scanned
      <4>1. /\ \A t \in Slots : t < i /\ Holds(t, sender) =>
                  IF free_slot = MaxCache THEN t = 0 /\ \A u \in Slots : valid[u] ELSE t = free_slot
            /\ \A t \in Slots : t < i /\ ~valid[t] => free_slot <= t
            /\ free_slot # MaxCache => free_slot < i /\ (~valid[free_slot] \/ Holds(free_slot, sender))
        BY <2>1 DEF Sound, Scanned
      <4>2. /\ free_slot \in 0..MaxCache /\ MaxCache \in Nat /\ i \in 0..MaxCache
            /\ free_slot # MaxCache => free_slot \in Slots
            /\ \A t \in Slots : t \in Nat /\ t < MaxCache
        BY <1>1, ArpAssumption, SMTT(60) DEF ArpTypeOK, Slots
      <4>3. ASSUME NEW t \in Slots, t < i, Holds(t, sender)'
            PROVE  IF free_slot = MaxCache THEN t = 0 /\ \A u \in Slots : valid'[u] ELSE t = free_slot
        <5>1. CASE t # s
          BY <1>3, <1>4, <4>1, <4>3, <5>1 DEF Holds
        <5>2. CASE t = s
          <6>1. h = sender /\ \A u \in Slots : ~Holds(u, sender)
            BY <1>2, <1>3, <1>4, <2>6, <4>3, <5>2 DEF Holds
          <6>2. CASE ~valid[s] /\ \A u \in Slots : ~valid[u] => s <= u
            <7>1. free_slot <= s
              BY <4>1, <4>3, <5>2, <6>2
            <7>2. free_slot \in Slots /\ free_slot # MaxCache
              BY <1>2, <4>2, <7>1
            <7>3. ~valid[free_slot]
              BY <4>1, <6>1, <7>2
            <7> QED
              BY <1>2, <4>2, <5>2, <6>2, <7>1, <7>2, <7>3
          <6>3. CASE s = 0 /\ \A u \in Slots : valid[u]
            <7>1. free_slot = MaxCache
              BY <4>1, <4>2, <6>1, <6>3
            <7> QED
              BY <1>3, <5>2, <6>3, <7>1
          <6> QED
            BY <1>2, <2>6, <6>2, <6>3
        <5> QED
          BY <5>1, <5>2
      <4>4. \A t \in Slots : t < i /\ ~valid'[t] => free_slot <= t
        BY <1>3, <4>1
      <4>5. free_slot # MaxCache => free_slot < i /\ (~valid'[free_slot] \/ Holds(free_slot, sender)')
        BY <1>3, <1>4, <3>1, <4>1, <4>2 DEF Holds
      <4> QED
        BY <1>4, <4>3, <4>4, <4>5 DEF Scanned, Holds
    <3> QED
      BY <1>4, <2>1, <2>2, <2>3, <3>2, <3>3 DEF Sound
  <2> QED
    BY <2>5, <2>6
<1> QED
    BY <1>1, <1>5, <1>6, <1>7 DEF ArpInv

LEMMA TickArpInv == ArpInv /\ Tick => ArpInv'
<1> SUFFICES ASSUME ArpInv, Tick PROVE ArpInv'
    OBVIOUS
<1>1. /\ UNCHANGED <<valid, ip, mac, target, sender, i, free_slot, slot, got, result, next_probe,
                     probes, raced>>
      /\ pc' = IF pc = "wait" THEN "loop" ELSE pc
      /\ now' = IF now < Timeout THEN now + 1 ELSE now
    BY DEF Tick, cache
<1>0. /\ now \in Nat /\ now <= Timeout /\ Timeout \in Nat /\ ProbeGap \in Nat
      /\ next_probe \in Nat /\ next_probe <= now + ProbeGap
    BY Numbers DEF ArpInv, Spaced
<1>2. now' \in Nat /\ now' \in 0..Timeout /\ now <= now'
    BY <1>0, <1>1
<1>3. ArpTypeOK'
    BY <1>1, <1>2, Zenon DEF ArpInv, ArpTypeOK, Slots
<1>4. Entered'
    BY <1>1 DEF ArpInv, Entered, Learning, Tick
<1>6. Spaced'
  <2>1. next_probe <= now' + ProbeGap
    BY <1>0, <1>1, <1>2
  <2> QED
    BY <1>1, <2>1 DEF ArpInv, Spaced
<1>5. Sound => Sound'
    BY <1>1 DEF Sound, Unique, EntriesTrue, Scanned, InHand, Holds, Filling
<1> QED
    BY <1>1, <1>3, <1>4, <1>5, <1>6 DEF ArpInv

----------------------------------------------------------------------------
(* The main thread: the resolution.                                        *)

LEMMA ResolveArpInv == ArpInv /\ (\E h \in Hosts : net_resolve_arp(h)) => ArpInv'
<1> SUFFICES ASSUME ArpInv, NEW h \in Hosts, net_resolve_arp(h) PROVE ArpInv'
    OBVIOUS
<1>0. i' = 0 /\ now' = 0 /\ next_probe' = 0 /\ probes' = 0
    BY Zenon DEF net_resolve_arp
<1>1. /\ UNCHANGED <<valid, ip, mac, sender, free_slot, slot, raced>>
      /\ pc = "idle" /\ pc' = "first lookup" /\ target' = h /\ result' = "none"
      /\ got' = <<Nobody, Nobody>>
    BY Zenon DEF net_resolve_arp, At, cache
<1>2. h \in Address /\ Nobody \in Address
    BY DEF Address
<1>3. ArpTypeOK'
  <2>1. /\ MaxCache \in Nat /\ Timeout \in Nat /\ ProbeGap \in Nat
    BY Numbers DEF ArpInv
  <2>2. i' \in 0..MaxCache /\ now' \in 0..Timeout /\ next_probe' \in 0..(Timeout + ProbeGap)
        /\ probes' \in 0..Timeout
    BY <1>0, <2>1
  <2> QED
    BY <1>1, <1>2, <2>2, Zenon DEF ArpInv, ArpTypeOK, Slots
<1>4. Entered'
    BY <1>1, Zenon DEF ArpInv, Entered, Learning
<1>5. Spaced'
  <2>1. ProbeGap \in Nat
    BY ArpAssumption
  <2>2. 0 * ProbeGap <= 0 /\ 0 <= 0 + ProbeGap
    BY <2>1
  <2> QED
    BY <1>0, <2>2 DEF Spaced
<1>6. Sound => Sound'
    BY <1>1, Zenon DEF Sound, Unique, EntriesTrue, Scanned, InHand, Holds, Filling
<1> QED
    BY <1>1, <1>3, <1>4, <1>5, <1>6, Zenon DEF ArpInv

\* The index stays in the cache.
LEMMA IndexRange ==
    ASSUME ArpTypeOK
    PROVE  i \in 0..MaxCache /\ 0 \in 0..MaxCache /\ (i < MaxCache => i + 1 \in 0..MaxCache)
    BY Numbers

LEMMA LookupArpInv == ArpInv /\ (Lookup("first lookup", "loop") \/ Lookup("lookup", "wait")) => ArpInv'
<1> SUFFICES ASSUME ArpInv, Lookup("first lookup", "loop") \/ Lookup("lookup", "wait") PROVE ArpInv'
    BY Zenon
<1>1. /\ UNCHANGED <<valid, ip, mac, target, sender, free_slot, got, result, now, next_probe, probes,
                     raced>>
      /\ pc \in {"first lookup", "lookup"}
      /\ \/ /\ i < MaxCache /\ Holds(i, target) /\ slot' = i /\ pc' = "copy1" /\ i' = i
         \/ i < MaxCache /\ i' = i + 1 /\ slot' = slot /\ pc' = pc
         \/ i' = 0 /\ slot' = slot /\ pc' \in {"loop", "wait"}
    BY Zenon DEF Lookup, cache, time
<1>2. ArpTypeOK'
  <2>0. /\ i \in Nat /\ i <= MaxCache /\ MaxCache \in Nat /\ slot \in Slots
        /\ i < MaxCache => i \in Slots
    BY Numbers, Zenon DEF ArpInv, ArpTypeOK
  <2>1. slot' \in Slots
    BY <1>1, <2>0, Zenon
  <2>2. i' = i \/ (i < MaxCache /\ i' = i + 1) \/ i' = 0
    BY <1>1, Zenon
  <2>3. i' \in 0..MaxCache
    BY <2>2, IndexRange, Zenon DEF ArpInv
  <2> QED
    BY <1>1, <2>1, <2>3, Zenon DEF ArpInv, ArpTypeOK, Slots
<1>3. Entered'
    BY <1>1, Zenon DEF ArpInv, Entered, Learning
<1>4. Spaced'
    BY <1>1, Zenon DEF ArpInv, Spaced
<1>5. Sound => Sound'
    BY <1>1, Zenon DEF Sound, Unique, EntriesTrue, Scanned, InHand, Holds, Filling
<1> QED
    BY <1>1, <1>2, <1>3, <1>4, <1>5, Zenon DEF ArpInv

LEMMA CopyArpInv == ArpInv /\ (Copy1 \/ Copy2) => ArpInv'
<1> SUFFICES ASSUME ArpInv, Copy1 \/ Copy2 PROVE ArpInv'
    OBVIOUS
<1>1. /\ UNCHANGED <<valid, ip, mac, target, sender, free_slot, now, next_probe, probes, raced>>
      /\ \/ /\ pc = "copy1" /\ pc' = "copy2" /\ UNCHANGED <<i, slot, result>>
            /\ got' = <<mac[slot][1], got[2]>>
         \/ /\ pc = "copy2" /\ pc' = "idle" /\ i' = 0 /\ slot' = 0 /\ result' = "found"
            /\ got' = <<got[1], mac[slot][2]>>
    BY DEF Copy1, Copy2, At, cache, time
<1>0. 0 \in Slots /\ 0 \in 0..MaxCache
    BY Numbers DEF ArpInv
<1>2. slot \in Slots /\ got \in Address \X Address /\ mac[slot] \in Address \X Address
    BY Zenon DEF ArpInv, ArpTypeOK
<1>3. ArpTypeOK'
  <2>1. /\ mac[slot][1] \in Address /\ mac[slot][2] \in Address
        /\ got[1] \in Address /\ got[2] \in Address
    BY <1>2
  <2>2. got' = <<mac[slot][1], got[2]>> \/ got' = <<got[1], mac[slot][2]>>
    BY <1>1
  <2>3. got' \in Address \X Address
    BY <2>1, <2>2
  <2> QED
    BY <1>0, <1>1, <1>2, <2>3, Zenon DEF ArpInv, ArpTypeOK, Slots
<1>4. Entered'
    BY <1>1 DEF ArpInv, Entered, Learning
<1>5. Spaced'
    BY <1>1 DEF ArpInv, Spaced
<1>6. ASSUME Sound PROVE Sound'
  <2>1. target \in Hosts /\ mac[slot] = <<target, target>>
    BY <1>1, <1>2, <1>6 DEF ArpInv, Entered, Sound, EntriesTrue, InHand, Filling
  <2>2. Unique' /\ EntriesTrue' /\ Scanned'
    BY <1>1, <1>6 DEF Sound, Unique, EntriesTrue, Scanned, Holds, Filling
  <2>3. CASE pc = "copy1" /\ pc' = "copy2"
    <3>1. slot' = slot /\ result' = result /\ got' = <<target, got[2]>> /\ Holds(slot, target)
      BY <1>1, <1>6, <2>1, <2>3 DEF Sound, InHand
    <3>2. result' # "found"
      BY <3>1, <2>3 DEF ArpInv, Entered
    <3>3. Holds(slot, target)' /\ target' = target /\ got'[1] = target
      BY <3>1, <1>1 DEF Holds
    <3>4. InHand'
      BY <3>1, <3>3, <2>3 DEF InHand, Filling
    <3> QED
      BY <1>1, <2>2, <3>2, <3>4 DEF Sound
  <2>4. CASE pc = "copy2" /\ pc' = "idle"
    <3>1. got' = <<target, target>> /\ target' = target
      BY <1>1, <1>6, <2>1, <2>4 DEF Sound, InHand
    <3>2. InHand'
      BY <2>4 DEF InHand, Filling
    <3> QED
      BY <2>2, <3>1, <3>2 DEF Sound
  <2> QED
    BY <1>1, <2>3, <2>4
<1> QED
    BY <1>1, <1>3, <1>4, <1>5, <1>6 DEF ArpInv

\* The head of the loop: the next request is due only once the last one is a
\* gap old.
LEMMA LoopArpInv == ArpInv /\ Loop => ArpInv'
<1> SUFFICES ASSUME ArpInv, Loop PROVE ArpInv'
    OBVIOUS
<1>1. /\ UNCHANGED <<valid, ip, mac, target, sender, i, free_slot, slot, got, now, raced>>
      /\ pc = "loop"
      /\ \/ pc' = "poll" /\ result' = result /\ now < Timeout /\ Ask
         \/ pc' = "idle" /\ result' = "failed" /\ UNCHANGED <<probes, next_probe>>
    BY DEF Loop, At, cache
<1>2. \/ UNCHANGED <<probes, next_probe>>
      \/ now < Timeout /\ now >= next_probe /\ probes' = probes + 1 /\ next_probe' = now + ProbeGap
    BY <1>1 DEF Ask, arp_send_request
<1>3. /\ now \in Nat /\ Timeout \in Nat /\ next_probe \in Nat /\ probes \in Nat
      /\ ProbeGap \in Nat /\ ProbeGap > 0 /\ probes \in 0..Timeout
      /\ next_probe \in 0..(Timeout + ProbeGap)
      /\ probes * ProbeGap <= next_probe /\ next_probe <= now + ProbeGap
    BY Numbers, Zenon DEF ArpInv, ArpTypeOK, Spaced
<1>4. /\ probes' * ProbeGap <= next_probe' /\ next_probe' <= now + ProbeGap
      /\ probes' \in 0..Timeout /\ next_probe' \in 0..(Timeout + ProbeGap)
  <2>1. CASE UNCHANGED <<probes, next_probe>>
    BY <1>3, <2>1
  <2>2. CASE now < Timeout /\ now >= next_probe /\ probes' = probes + 1
             /\ next_probe' = now + ProbeGap
    <3>1. (probes + 1) * ProbeGap = probes * ProbeGap + ProbeGap
      BY <1>3
    <3>2. probes <= probes * ProbeGap
      BY <1>3
    <3> DEFINE pg == probes * ProbeGap
    <3>3. pg \in Nat
      BY <1>3
    <3>4. pg <= next_probe /\ probes <= pg
      BY <1>3, <3>2
    <3>5. (probes + 1) * ProbeGap = pg + ProbeGap
      BY <3>1
    <3> HIDE DEF pg
    <3>6. pg + ProbeGap <= now + ProbeGap /\ probes + 1 <= Timeout
      BY <1>3, <2>2, <3>3, <3>4
    <3> QED
      BY <1>3, <2>2, <3>5, <3>6
  <2> QED
    BY <1>2, <2>1, <2>2
<1>5. ArpTypeOK'
    BY <1>1, <1>4, Zenon DEF ArpInv, ArpTypeOK, Slots
<1>6. Entered'
    BY <1>1 DEF ArpInv, Entered, Learning
<1>7. Spaced'
    BY <1>1, <1>4, SMTT(60) DEF Spaced
<1>8. Sound => Sound'
    BY <1>1 DEF ArpInv, Entered, Sound, Unique, EntriesTrue, Scanned, InHand, Holds, Filling
<1> QED
    BY <1>1, <1>5, <1>6, <1>7, <1>8 DEF ArpInv

----------------------------------------------------------------------------
(* The main thread: learning from a frame.                                 *)

LEMMA PollArpInv == ArpInv /\ (PollDone \/ \E h \in Hosts : PollFrame(h)) => ArpInv'
<1> SUFFICES ASSUME ArpInv, PollDone \/ \E h \in Hosts : PollFrame(h) PROVE ArpInv'
    OBVIOUS
<1>1. /\ UNCHANGED <<valid, ip, mac, target, slot, got, result, now, next_probe, probes, raced>>
      /\ pc = "poll" /\ i' = 0
      /\ \/ pc' = "lookup" /\ UNCHANGED <<sender, free_slot>>
         \/ pc' = "scan" /\ sender' \in Hosts /\ free_slot' = MaxCache
    BY DEF PollDone, PollFrame, At, cache, time
<1>2. i' \in 0..MaxCache /\ MaxCache \in 0..MaxCache
    BY <1>1, Numbers DEF ArpInv
<1>3. sender' \in Address
    BY <1>1 DEF ArpInv, ArpTypeOK, Address
<1>4. ArpTypeOK'
    BY <1>1, <1>2, <1>3, Zenon DEF ArpInv, ArpTypeOK, Slots
<1>5. Entered'
    BY <1>1 DEF ArpInv, Entered, Learning
<1>6. Spaced'
    BY <1>1 DEF ArpInv, Spaced
<1>7. ASSUME Sound PROVE Sound'
  <2>1. \A s \in Slots : ~(s < i')
    BY <1>1, Numbers DEF ArpInv
  <2>2. Scanned'
    BY <1>1, <2>1 DEF Scanned
  <2> QED
    BY <1>1, <1>7, <2>2 DEF Sound, Unique, EntriesTrue, InHand, Holds, Filling
<1> QED
    BY <1>1, <1>4, <1>5, <1>6, <1>7 DEF ArpInv

\* The scan passes an entry, finds the sender's, or ends with the free one or
\* the first.
LEMMA ScanArpInv == ArpInv /\ Scan => ArpInv'
<1> SUFFICES ASSUME ArpInv, Scan PROVE ArpInv'
    OBVIOUS
<1>1. /\ UNCHANGED <<valid, ip, mac, target, sender, got, result, now, next_probe, probes, raced>>
      /\ pc = "scan"
    BY DEF Scan, cache, time
<1>2. /\ MaxCache \in Nat /\ MaxCache > 0 /\ i \in Nat /\ i <= MaxCache /\ 0 \in Slots
      /\ free_slot \in Nat /\ free_slot <= MaxCache /\ slot \in Slots
      /\ \A s \in Slots : s \in Nat /\ s < MaxCache
      /\ \A n \in Nat : n < MaxCache => n \in Slots
    BY Numbers, Zenon DEF ArpInv, ArpTypeOK
<1>3. Spaced'
    BY <1>1 DEF ArpInv, Spaced
<1>4. CASE i < MaxCache /\ Holds(i, sender) /\ pc' = "mac1" /\ slot' = i /\ UNCHANGED <<i, free_slot>>
  <2>1. ArpTypeOK'
    BY <1>1, <1>2, <1>4 DEF ArpInv, ArpTypeOK, Slots
  <2>2. Entered'
    BY <1>1, <1>4 DEF ArpInv, Entered, Learning
  <2>3. Sound => Sound'
    BY <1>1, <1>4 DEF Sound, Unique, EntriesTrue, Scanned, InHand, Holds, Filling
  <2> QED
    BY <1>1, <1>3, <2>1, <2>2, <2>3 DEF ArpInv
<1>5. CASE /\ i < MaxCache /\ ~Holds(i, sender) /\ i' = i + 1 /\ UNCHANGED <<pc, slot>>
           /\ free_slot' = IF ~valid[i] /\ free_slot = MaxCache THEN i ELSE free_slot
  <2>1. i' \in 0..MaxCache /\ free_slot' \in 0..MaxCache
    BY <1>2, <1>5
  <2>2. ArpTypeOK'
    BY <1>1, <1>5, <2>1 DEF ArpInv, ArpTypeOK, Slots
  <2>3. Entered'
    BY <1>1, <1>5 DEF ArpInv, Entered, Learning
  <2>4. ASSUME Sound PROVE Sound'
    <3>1. /\ \A s \in Slots : s < i /\ Holds(s, sender) =>
                IF free_slot = MaxCache THEN s = 0 /\ \A t \in Slots : valid[t] ELSE s = free_slot
          /\ \A s \in Slots : s < i /\ ~valid[s] => free_slot <= s
          /\ free_slot # MaxCache => free_slot < i /\ (~valid[free_slot] \/ Holds(free_slot, sender))
      BY <1>1, <2>4 DEF Sound, Scanned
    <3>2. i \in Slots /\ \A s \in Slots : s < i + 1 => s < i \/ s = i
      BY <1>2, <1>5
    <3>3. ASSUME NEW s \in Slots, s < i + 1, Holds(s, sender)
          PROVE  IF free_slot' = MaxCache THEN s = 0 /\ \A t \in Slots : valid[t] ELSE s = free_slot'
      BY <1>2, <1>5, <3>1, <3>2, <3>3
    <3>4. ASSUME NEW s \in Slots, s < i + 1, ~valid[s]
          PROVE  free_slot' <= s
      BY <1>2, <1>5, <3>1, <3>2, <3>4
    <3>5. free_slot' # MaxCache =>
             free_slot' < i + 1 /\ (~valid[free_slot'] \/ Holds(free_slot', sender))
      BY <1>2, <1>5, <3>1
    <3>6. Scanned'
      BY <1>1, <1>5, <3>3, <3>4, <3>5 DEF Scanned, Holds
    <3> QED
      BY <1>1, <1>5, <2>4, <3>6 DEF Sound, Unique, EntriesTrue, InHand, Holds, Filling
  <2> QED
    BY <1>1, <1>3, <2>2, <2>3, <2>4 DEF ArpInv
<1>6. CASE /\ i = MaxCache /\ pc' = "valid" /\ UNCHANGED <<i, free_slot>>
           /\ slot' = (IF free_slot = MaxCache THEN 0 ELSE free_slot)
  <2>1. slot' \in Slots
    BY <1>2, <1>6
  <2>2. ArpTypeOK'
    BY <1>1, <1>6, <2>1 DEF ArpInv, ArpTypeOK, Slots
  <2>3. Entered'
    BY <1>1, <1>6, SMTT(60) DEF ArpInv, Entered, Learning
  <2>4. ASSUME Sound PROVE Sound'
    <3>1. \A s \in Slots : Holds(s, sender) => s = slot'
      BY <1>1, <1>2, <1>6, <2>4 DEF Sound, Scanned
    <3> QED
      BY <1>1, <1>6, <2>4, <3>1 DEF Sound, Unique, EntriesTrue, Scanned, InHand, Holds, Filling
  <2> QED
    BY <1>1, <1>3, <2>2, <2>3, <2>4 DEF ArpInv
<1> QED
    BY <1>4, <1>5, <1>6 DEF Scan

\* The entry is written.
LEMMA SetValidArpInv == ArpInv /\ SetValid => ArpInv'
<1> SUFFICES ASSUME ArpInv, SetValid PROVE ArpInv'
    OBVIOUS
<1>1. /\ UNCHANGED <<ip, mac, target, sender, i, free_slot, slot, got, result, now, next_probe, probes,
                     raced>>
      /\ pc = "valid" /\ pc' = "ip" /\ valid' = [valid EXCEPT ![slot] = TRUE]
    BY DEF SetValid, At, time
<1>2. /\ slot \in Slots /\ valid \in [Slots -> BOOLEAN] /\ valid' \in [Slots -> BOOLEAN]
      /\ valid'[slot] /\ \A s \in Slots : s # slot => valid'[s] = valid[s]
    BY <1>1 DEF ArpInv, ArpTypeOK
<1>3. ArpTypeOK'
    BY <1>1, <1>2 DEF ArpInv, ArpTypeOK, Slots
<1>4. Entered'
    BY <1>1, <1>2 DEF ArpInv, Entered, Learning
<1>5. Spaced'
    BY <1>1, SMTT(60) DEF ArpInv, Spaced
<1>6. ASSUME Sound PROVE Sound'
  <2>1. Nobody \notin Hosts
    BY ArpAssumption
  <2>2. \A s \in Slots : \A h \in Hosts : Holds(s, h)' <=> Holds(s, h)
    BY <1>1, <1>2, <2>1 DEF ArpInv, Entered, Holds
  <2>3. sender \in Hosts /\ sender' = sender
    BY <1>1 DEF ArpInv, Entered, Learning
  <2>4. Unique' /\ EntriesTrue'
    <3>1. Unique'
      BY <1>6, <2>2, Zenon DEF Sound, Unique
    <3>2. mac' = mac /\ slot' = slot /\ pc \notin Filling /\ pc' \notin Filling
      BY <1>1 DEF Filling
    <3>3. EntriesTrue'
      BY <1>6, <2>2, <3>2, Zenon DEF Sound, EntriesTrue
    <3> QED
      BY <3>1, <3>3
  <2>5. \A s \in Slots : Holds(s, sender)' => s = slot
    BY <1>1, <1>2, <1>6, <2>1, <2>3 DEF ArpInv, Entered, Sound, InHand, Holds
  <2> QED
    BY <1>1, <1>6, <2>4, <2>5 DEF Sound, Scanned, InHand, Filling, ArpInv, Entered
<1> QED
    BY <1>1, <1>3, <1>4, <1>5, <1>6 DEF ArpInv

LEMMA SetIpArpInv == ArpInv /\ SetIp => ArpInv'
<1> SUFFICES ASSUME ArpInv, SetIp PROVE ArpInv'
    OBVIOUS
<1>1. /\ UNCHANGED <<valid, mac, target, sender, i, free_slot, slot, got, result, now, next_probe,
                     probes, raced>>
      /\ pc = "ip" /\ pc' = "mac1" /\ ip' = [ip EXCEPT ![slot] = sender]
    BY DEF SetIp, At, time
<1>2. /\ slot \in Slots /\ ip \in [Slots -> Address] /\ ip' \in [Slots -> Address]
      /\ ip'[slot] = sender /\ \A s \in Slots : s # slot => ip'[s] = ip[s]
    BY <1>1 DEF ArpInv, ArpTypeOK
<1>3. ArpTypeOK'
    BY <1>1, <1>2 DEF ArpInv, ArpTypeOK, Slots
<1>4. Entered'
    BY <1>1, <1>2 DEF ArpInv, Entered, Learning
<1>5. Spaced'
    BY <1>1, SMTT(60) DEF ArpInv, Spaced
<1>6. ASSUME Sound PROVE Sound'
  <2>1. /\ valid[slot] /\ \A s \in Slots : \A h : s # slot => (Holds(s, h)' <=> Holds(s, h))
        /\ \A h : Holds(slot, h)' <=> h = sender
    BY <1>1, <1>2 DEF ArpInv, Entered, Holds
  <2>2. \A s \in Slots : Holds(s, sender) => s = slot
    BY <1>1, <1>6 DEF Sound, InHand
  <2>3. Unique'
    <3> SUFFICES ASSUME NEW s \in Slots, NEW t \in Slots, NEW h \in Hosts, valid[s], ip'[s] = h,
                        valid[t], ip'[t] = h
                 PROVE  s = t
      BY <1>1 DEF Unique, Holds
    <3>1. CASE s # slot /\ t # slot
      BY <1>2, <1>6, <3>1 DEF Sound, Unique, Holds
    <3>2. CASE s = slot \/ t = slot
      BY <1>2, <2>2, <3>2 DEF Holds
    <3> QED
      BY <3>1, <3>2
  <2>4. EntriesTrue'
    BY <1>1, <1>6, <2>1 DEF Sound, EntriesTrue, Filling
  <2>5. Holds(slot, sender)'
    BY <1>1, <1>2 DEF ArpInv, Entered, Holds
  <2> QED
    BY <1>1, <1>6, <2>3, <2>4, <2>5 DEF Sound, Scanned, InHand, Filling
<1> QED
    BY <1>1, <1>3, <1>4, <1>5, <1>6 DEF ArpInv

LEMMA SetMacArpInv == ArpInv /\ (SetMac1 \/ SetMac2) => ArpInv'
<1> SUFFICES ASSUME ArpInv, SetMac1 \/ SetMac2 PROVE ArpInv'
    OBVIOUS
<1>1. /\ UNCHANGED <<valid, ip, target, got, result, now, next_probe, probes, raced>>
      /\ \/ /\ pc = "mac1" /\ pc' = "mac2" /\ UNCHANGED <<sender, i, free_slot, slot>>
            /\ mac' = [mac EXCEPT ![slot][1] = sender]
         \/ /\ pc = "mac2" /\ pc' = "poll" /\ sender' = Nobody /\ i' = 0 /\ free_slot' = MaxCache
            /\ slot' = 0 /\ mac' = [mac EXCEPT ![slot][2] = sender]
    BY DEF SetMac1, SetMac2, At, time
<1>2. /\ slot \in Slots /\ mac \in [Slots -> Address \X Address] /\ sender \in Address
    BY Zenon DEF ArpInv, ArpTypeOK
<1>3. mac' \in [Slots -> Address \X Address]
    BY <1>1, <1>2
<1>4. \A s \in Slots : s # slot => mac'[s] = mac[s]
    BY <1>1, <1>2
<1>5. /\ pc = "mac1" => mac'[slot][1] = sender
      /\ pc = "mac2" => mac'[slot] = <<mac[slot][1], sender>>
    BY <1>1, <1>2
<1>6. 0 \in Slots /\ 0 \in 0..MaxCache /\ MaxCache \in 0..MaxCache /\ Nobody \in Address
    BY Numbers, SMTT(60) DEF ArpInv, Address
<1>7. ArpTypeOK'
  <2>1. i' \in 0..MaxCache /\ free_slot' \in 0..MaxCache /\ slot' \in Slots /\ sender' \in Address
    BY <1>1, <1>2, <1>6, Zenon DEF ArpInv, ArpTypeOK
  <2> QED
    BY <1>1, <1>3, <2>1, Zenon DEF ArpInv, ArpTypeOK, Slots
<1>8. Entered'
    BY <1>1 DEF ArpInv, Entered, Learning
<1>9. Spaced'
    BY <1>1 DEF ArpInv, Spaced
<1>10. ASSUME Sound PROVE Sound'
  <2>1. Holds(slot, sender) /\ (pc = "mac2" => mac[slot][1] = sender)
    BY <1>1, <1>10 DEF Sound, InHand, Filling
  <2>2. Unique'
    BY <1>1, <1>10 DEF Sound, Unique, Holds
  <2>3. EntriesTrue'
    BY <1>1, <1>2, <1>4, <1>5, <1>10, <2>1 DEF Sound, EntriesTrue, Filling, Holds
  <2>4. InHand' /\ Scanned'
    BY <1>1, <1>5, <2>1 DEF InHand, Scanned, Filling, Holds
  <2> QED
    BY <1>1, <1>10, <2>2, <2>3, <2>4 DEF Sound
<1> QED
    BY <1>1, <1>7, <1>8, <1>9, <1>10 DEF ArpInv

----------------------------------------------------------------------------
(* What holds of every behaviour.                                          *)

LEMMA ArpInvNext == ArpInv /\ [ArpNext]_arpVars => ArpInv'
<1> SUFFICES ASSUME ArpInv, [ArpNext]_arpVars PROVE ArpInv'
    OBVIOUS
<1>1. ASSUME Main PROVE ArpInv'
    BY <1>1, LookupArpInv, CopyArpInv, LoopArpInv, PollArpInv, ScanArpInv, SetValidArpInv, SetIpArpInv, SetMacArpInv, Zenon
       DEF Main
<1>2. ASSUME NEW h \in Hosts, net_resolve_arp(h) \/ PollFrame(h) \/ Irq(h) PROVE ArpInv'
    BY <1>2, ResolveArpInv, PollArpInv, IrqArpInv
<1>3. CASE UNCHANGED arpVars
  <2>1. ArpTypeOK'
    BY <1>3, ZenonT(60) DEF arpVars, cache, time, ArpInv, ArpTypeOK
  <2>2. Entered' /\ Spaced' /\ (~raced => Sound)'
    BY <1>3 DEF arpVars, cache, time, ArpInv, Entered, Learning, Spaced, Sound, Unique, EntriesTrue, Scanned,
                InHand, Holds, Filling
  <2> QED
    BY <2>1, <2>2 DEF ArpInv
<1> QED
    BY <1>1, <1>2, <1>3, TickArpInv DEF ArpNext

\* The inductive invariant of the cache and of the resolution.
THEOREM ArpInvariance == ArpSpec => []ArpInv
    BY ArpInvInit, ArpInvNext, PTL DEF ArpSpec

\* As long as no host is added while the main thread fills in an entry: the
\* cache, which the main thread and the interrupt update without a lock, never
\* has two entries of an address, every complete entry has the hardware address
\* of its host, and net_resolve_arp returns the one asked for.
THEOREM CacheIsTrue == ArpSpec => []CacheTrue
<1>1. ArpInv => CacheTrue
    BY DEF ArpInv, Sound, Unique, EntriesTrue, CacheTrue, Filling
<1> QED
    BY <1>1, ArpInvariance, PTL

\* net_resolve_arp sends at most one request in ProbeGap ticks, however often
\* the interrupts wake it.
THEOREM RequestsSpaced == ArpSpec => []ProbesSpaced
<1>1. ArpInv => ProbesSpaced
  <2> SUFFICES ASSUME ArpInv PROVE ProbesSpaced
      OBVIOUS
  <2> DEFINE q == now \div ProbeGap
             r == now % ProbeGap
  <2>1. now \in Nat /\ probes \in Nat /\ ProbeGap \in Nat /\ ProbeGap > 0
      BY Numbers DEF ArpInv
  <2>2. q \in Nat /\ r \in Nat /\ now = ProbeGap * q + r /\ r < ProbeGap
      BY <2>1
  <2>3. probes * ProbeGap <= now + ProbeGap
      BY Numbers DEF ArpInv, Spaced
  <2> HIDE DEF q, r
  <2>4. probes * ProbeGap < ProbeGap * q + ProbeGap + ProbeGap
      BY <2>1, <2>2, <2>3
  <2>5. probes <= q + 1
    <3> SUFFICES ASSUME probes >= q + 2 PROVE FALSE
      BY <2>1, <2>2
    <3>1. probes * ProbeGap >= (q + 2) * ProbeGap
      BY <2>1, <2>2
    <3>2. (q + 2) * ProbeGap = ProbeGap * q + ProbeGap + ProbeGap
      BY <2>1, <2>2
    <3> QED
      BY <2>1, <2>2, <2>4, <3>1, <3>2
  <2> QED
      BY <2>5 DEF ProbesSpaced, q
<1> QED
    BY <1>1, ArpInvariance, PTL
=============================================================================
