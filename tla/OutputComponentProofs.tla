----------------------- MODULE OutputComponentProofs -----------------------
(***************************************************************************)
(* For every capacity of the buffer, size of packet, length of the engine's *)
(* queue and limit of the counters: the variables keep their types, every   *)
(* byte the player wrote is accounted for, a graceful close finds nothing   *)
(* in the buffer, and silence comes at the end of the audio only.           *)
(***************************************************************************)
EXTENDS OutputComponent, TLAPS

\* The place k bytes behind i in the ring, as (i + k) % Capacity gives it.
Offset(i, k) == IF i + k < Capacity THEN i + k ELSE i + k - Capacity

\* The write end is behind the read end by what is unread.
WellShaped(r) == r.write = Offset(r.read, Unread(r))

\* The k-th unread byte.
ByteAt(r, k) == r.bytes[Offset(r.read, k - 1)]

InOrder(s) == \A i, j \in 1 .. Len(s) : i < j => s[i] < s[j]

Elements(s) == {s[i] : i \in 1 .. Len(s)}

-----------------------------------------------------------------------------
\* Modular addition of a number that is at most the modulus.
LEMMA RemainderOfSum ==
    ASSUME NEW M \in Nat \ {0}, NEW i \in 0 .. M - 1, NEW k \in 0 .. M
    PROVE  (i + k) % M = IF i + k < M THEN i + k ELSE i + k - M
  OBVIOUS

\* What the code computes with a remainder is a place in the ring.
LEMMA OffsetIsRemainder ==
    ASSUME NEW i \in Place, NEW k \in 0 .. Capacity
    PROVE  /\ (i + k) % Capacity = Offset(i, k)
           /\ Offset(i, k) \in Place
<1>1. Capacity \in Nat \ {0} /\ i \in 0 .. Capacity - 1
  BY BufferAssumption DEF Place
<1>2. (i + k) % Capacity = IF i + k < Capacity THEN i + k ELSE i + k - Capacity
  BY ONLY <1>1, k \in 0 .. Capacity, RemainderOfSum
<1>3. QED
  BY <1>1, <1>2 DEF Offset, Place

\* Going on from a place is going further from where one came.
LEMMA OffsetAdds ==
    ASSUME NEW i \in Place, NEW a \in Nat, NEW b \in Nat, a + b <= Capacity
    PROVE  /\ Offset(i, a + b) \in Place
           /\ Offset(Offset(i, a), b) = Offset(i, a + b)
<1>1. Capacity \in Nat \ {0} /\ i \in 0 .. Capacity - 1
  BY BufferAssumption DEF Place
<1>2. CASE i + a < Capacity
  <2>1. Offset(i, a) = i + a
    BY <1>2 DEF Offset
  <2>2. QED
    BY <1>1, <1>2, <2>1 DEF Offset, Place
<1>3. CASE ~(i + a < Capacity)
  <2>1. Offset(i, a) = i + a - Capacity
    BY <1>3 DEF Offset
  <2>2. i + a - Capacity + b < Capacity /\ ~(i + (a + b) < Capacity)
    BY <1>1, <1>3
  <2>3. Offset(Offset(i, a), b) = i + a - Capacity + b /\ Offset(i, a + b) = i + (a + b) - Capacity
    BY <2>1, <2>2 DEF Offset
  <2>4. QED
    BY <1>1, <1>3, <2>1, <2>2, <2>3 DEF Place
<1>4. QED
  BY <1>2, <1>3

\* What is written, n bytes behind the unread ones of which k fit before the
\* end of the memory, touches no unread byte.
LEMMA PlacesApart ==
    ASSUME NEW read \in Place, NEW unread \in 0 .. Capacity, NEW n \in 0 .. Capacity - unread,
           NEW write \in Place, write = Offset(read, unread),
           NEW k \in 0 .. n, write + k <= Capacity, k = n \/ write + k = Capacity,
           NEW i \in 1 .. unread
    PROVE  /\ Offset(read, i - 1) \in Place
           /\ Offset(read, i - 1) \notin write .. write + k - 1
           /\ ~(Offset(read, i - 1) < n - k)
<1>1. /\ Capacity \in Nat \ {0}
      /\ read \in 0 .. Capacity - 1 /\ write \in 0 .. Capacity - 1
  BY BufferAssumption DEF Place
<1>2. CASE read + unread < Capacity
  <2>1. write = read + unread
    BY <1>2 DEF Offset
  <2>2. read + (i - 1) < Capacity
    BY <1>1, <1>2
  <2>3. Offset(read, i - 1) = read + (i - 1)
    BY <2>2 DEF Offset
  <2>4. k < n => write + k = Capacity
    OBVIOUS
  <2>5. QED
    BY <1>1, <2>1, <2>2, <2>3, <2>4 DEF Place
<1>3. CASE ~(read + unread < Capacity)
  <2>1. write = read + unread - Capacity
    BY <1>3 DEF Offset
  <2>2. k = n
    BY <1>1, <1>3, <2>1
  <2>3. CASE read + (i - 1) < Capacity
    <3>1. Offset(read, i - 1) = read + (i - 1)
      BY <2>3 DEF Offset
    <3>2. QED
      BY <1>1, <2>1, <2>2, <2>3, <3>1 DEF Place
  <2>4. CASE ~(read + (i - 1) < Capacity)
    <3>1. Offset(read, i - 1) = read + (i - 1) - Capacity
      BY <2>4 DEF Offset
    <3>2. QED
      BY <1>1, <2>1, <2>2, <2>4, <3>1 DEF Place
  <2>5. QED
    BY <2>3, <2>4
<1>4. QED
  BY <1>2, <1>3

\* The pieces that a packet is put together from are the bytes that are due.
LEMMA FetchGivesUnread ==
    ASSUME NEW Byte, NEW r \in RingType(Byte), WellShaped(r), NEW n \in 0 .. Unread(r)
    PROVE  /\ Fetch(r, n) \in Seq(Byte)
           /\ Len(Fetch(r, n)) = n
           /\ \A i \in 1 .. n : Fetch(r, n)[i] = ByteAt(r, i)
<1>1. /\ Capacity \in Nat \ {0}
      /\ r.read \in 0 .. Capacity - 1 /\ r.write \in 0 .. Capacity - 1
      /\ r.avail \in 0 .. Capacity /\ Unread(r) = Capacity - r.avail
      /\ r.bytes \in [Place -> Byte]
  BY BufferAssumption DEF RingType, Place, Unread
<1>2. ASSUME NEW i \in 1 .. n
      PROVE  /\ Offset(r.read, i - 1) \in Place
             /\ Fetch(r, n)[i] = ByteAt(r, i)
  <2>1. Offset(r.read, i - 1) \in Place
    BY <1>1 DEF Offset, Place
  <2>2. Fetch(r, n)[i] = IF IsContiguous(r, n) \/ i <= Capacity - r.read
                         THEN r.bytes[r.read + i - 1]
                         ELSE r.bytes[i - (Capacity - r.read) - 1]
    BY DEF Fetch
  <2>3. CASE r.read + (i - 1) < Capacity
    <3>1. i <= Capacity - r.read
      BY <1>1, <2>3
    <3>2. Offset(r.read, i - 1) = r.read + i - 1
      BY <1>1, <2>3 DEF Offset
    <3>3. QED
      BY <2>1, <2>2, <3>1, <3>2 DEF ByteAt
  <2>4. CASE ~(r.read + (i - 1) < Capacity)
    <3>1. ~(i <= Capacity - r.read)
      BY <1>1, <2>4
    <3>2. ~IsContiguous(r, n)
      BY <1>1, <2>4 DEF IsContiguous, WellShaped, Offset
    <3>3. Offset(r.read, i - 1) = i - (Capacity - r.read) - 1
      BY <1>1, <2>4 DEF Offset
    <3>4. QED
      BY <2>1, <2>2, <3>1, <3>2, <3>3 DEF ByteAt
  <2>5. QED
    BY <2>1, <2>3, <2>4
<1>3. \A i \in 1 .. n : Fetch(r, n)[i] \in Byte
  BY <1>1, <1>2 DEF ByteAt
<1>4. /\ n \in Nat
      /\ DOMAIN Fetch(r, n) = 1 .. n
      /\ Fetch(r, n) = [i \in 1 .. n |-> Fetch(r, n)[i]]
  BY <1>1 DEF Fetch
<1>5. Fetch(r, n) \in [1 .. n -> Byte]
  BY <1>3, <1>4
<1>6. QED
  BY <1>2, <1>4, <1>5

\* Reading takes the first bytes away.
LEMMA TakeKeepsRest ==
    ASSUME NEW Byte, NEW r \in RingType(Byte), WellShaped(r), NEW n \in 0 .. Unread(r)
    PROVE  /\ Take(r, n) \in RingType(Byte)
           /\ WellShaped(Take(r, n))
           /\ Unread(Take(r, n)) = Unread(r) - n
           /\ \A i \in 1 .. Unread(r) - n : ByteAt(Take(r, n), i) = ByteAt(r, n + i)
<1>1. /\ Capacity \in Nat \ {0}
      /\ r.read \in 0 .. Capacity - 1 /\ r.write \in 0 .. Capacity - 1
      /\ r.avail \in 0 .. Capacity /\ Unread(r) = Capacity - r.avail
      /\ r.bytes \in [Place -> Byte]
      /\ n \in 0 .. Capacity
  BY BufferAssumption DEF RingType, Place, Unread
<1>2. (r.read + n) % Capacity = Offset(r.read, n) /\ Offset(r.read, n) \in Place
  BY <1>1, OffsetIsRemainder DEF Place
<1>3. Take(r, n) = [avail |-> r.avail + n, read |-> Offset(r.read, n),
                    write |-> r.write, bytes |-> r.bytes]
  BY <1>2 DEF Take
<1>4. Take(r, n) \in RingType(Byte)
  BY <1>1, <1>2, <1>3 DEF RingType, Place
<1>5. Unread(Take(r, n)) = Unread(r) - n
  BY <1>1, <1>3 DEF Unread
<1>6. WellShaped(Take(r, n))
  BY <1>1, <1>3, <1>5 DEF WellShaped, Offset
<1>7. \A i \in 1 .. Unread(r) - n : ByteAt(Take(r, n), i) = ByteAt(r, n + i)
  BY <1>1, <1>3 DEF ByteAt, Offset
<1>8. QED
  BY <1>4, <1>5, <1>6, <1>7

\* Writing appends: it is seen behind what is unread, and nothing else moves.
LEMMA PutAppends ==
    ASSUME NEW Byte, NEW r \in RingType(Byte), WellShaped(r),
           NEW data \in Seq(Byte), Len(data) <= r.avail
    PROVE  /\ Put(r, data) \in RingType(Byte)
           /\ WellShaped(Put(r, data))
           /\ Unread(Put(r, data)) = Unread(r) + Len(data)
           /\ \A i \in 1 .. Unread(r) : ByteAt(Put(r, data), i) = ByteAt(r, i)
           /\ \A i \in 1 .. Len(data) : ByteAt(Put(r, data), Unread(r) + i) = data[i]
<1> DEFINE n == Len(data)
           k == FirstPart(r, n)
           filled == [i \in Place |->
             IF i \in r.write .. r.write + k - 1 THEN data[i - r.write + 1]
             ELSE IF i < n - k THEN data[k + i + 1]
             ELSE r.bytes[i]]
<1>1. /\ Capacity \in Nat \ {0}
      /\ r.read \in 0 .. Capacity - 1 /\ r.write \in 0 .. Capacity - 1
      /\ r.avail \in 0 .. Capacity /\ Unread(r) = Capacity - r.avail
      /\ r.bytes \in [Place -> Byte]
      /\ n \in 0 .. Capacity
      /\ r.write = Offset(r.read, Unread(r))
  BY BufferAssumption DEF RingType, Place, Unread, WellShaped
<1>2. (r.write + n) % Capacity = Offset(r.write, n) /\ Offset(r.write, n) \in Place
  BY <1>1, OffsetIsRemainder DEF Place
<1>3. Put(r, data) = [avail |-> r.avail - n, read |-> r.read,
                      write |-> Offset(r.write, n), bytes |-> filled]
  BY <1>2 DEF Put
<1>4. /\ k \in 0 .. n
      /\ r.write + k <= Capacity
      /\ k = n \/ r.write + k = Capacity
  <2>1. n <= r.avail
    BY <1>1
  <2>2. CASE r.write < r.read
    <3>1. k = n
      BY <2>2 DEF FirstPart, FitsAhead
    <3>2. r.avail <= r.read - r.write
      BY <1>1, <2>2 DEF Offset
    <3>3. QED
      BY <1>1, <2>1, <3>1, <3>2
  <2>3. CASE ~(r.write < r.read) /\ n <= Capacity - r.write
    <3>1. k = n
      BY <2>3 DEF FirstPart, FitsAhead
    <3>2. QED
      BY <1>1, <2>3, <3>1
  <2>4. CASE ~(r.write < r.read) /\ ~(n <= Capacity - r.write)
    <3>1. k = Capacity - r.write
      BY <2>4 DEF FirstPart, FitsAhead
    <3>2. QED
      BY <1>1, <2>4, <3>1
  <2>5. QED
    BY <2>2, <2>3, <2>4
<1>5. filled \in [Place -> Byte]
  <2>1. ASSUME NEW i \in Place PROVE filled[i] \in Byte
    <3>1. CASE i \in r.write .. r.write + k - 1
      <4>1. i - r.write + 1 \in 1 .. n
        BY <1>1, <1>4, <3>1 DEF Place
      <4>2. QED
        BY <3>1, <4>1
    <3>2. CASE i \notin r.write .. r.write + k - 1 /\ i < n - k
      <4>1. k + i + 1 \in 1 .. n
        BY <1>1, <1>4, <3>2 DEF Place
      <4>2. QED
        BY <3>2, <4>1
    <3>3. CASE i \notin r.write .. r.write + k - 1 /\ ~(i < n - k)
      BY <1>1, <3>3
    <3>4. QED
      BY <3>1, <3>2, <3>3
  <2>2. QED
    BY <2>1
<1>6. Put(r, data) \in RingType(Byte)
  <2>1. r.avail - n \in 0 .. Capacity
    BY <1>1
  <2>2. QED
    BY <1>1, <1>2, <1>3, <1>5, <2>1 DEF RingType, Place
<1>7. Unread(Put(r, data)) = Unread(r) + n
  BY <1>1, <1>3 DEF Unread
<1>8. WellShaped(Put(r, data))
  <2>1. Unread(r) + n <= Capacity
    BY <1>1
  <2>2. Offset(r.write, n) = Offset(r.read, Unread(r) + n)
    <3>1. r.read \in Place /\ Unread(r) \in Nat /\ n \in Nat
      BY <1>1 DEF Place
    <3>2. Offset(Offset(r.read, Unread(r)), n) = Offset(r.read, Unread(r) + n)
      BY <2>1, <3>1, OffsetAdds
    <3>3. QED
      BY <1>1, <3>2
  <2>3. QED
    BY <1>3, <1>7, <2>2 DEF WellShaped
<1>9. ASSUME NEW i \in 1 .. Unread(r)
      PROVE  ByteAt(Put(r, data), i) = ByteAt(r, i)
  <2> DEFINE p == Offset(r.read, i - 1)
  <2>1. p \in Place /\ p \notin r.write .. r.write + k - 1 /\ ~(p < n - k)
    <3> HIDE DEF k
    <3>1. /\ r.read \in Place /\ r.write \in Place /\ Unread(r) \in 0 .. Capacity
          /\ n \in 0 .. Capacity - Unread(r)
      BY <1>1 DEF Place
    <3>2. QED
      BY <1>1, <1>4, <3>1, PlacesApart
  <2>4. filled[p] = r.bytes[p]
    BY <2>1
  <2>5. QED
    BY <1>3, <2>4 DEF ByteAt
<1>10. ASSUME NEW i \in 1 .. n
       PROVE  ByteAt(Put(r, data), Unread(r) + i) = data[i]
  <2> DEFINE p == Offset(r.read, (Unread(r) + i) - 1)
  <2>1. p \in Place /\ p = Offset(r.write, i - 1)
    <3>1. /\ r.read \in Place /\ r.write = Offset(r.read, Unread(r))
          /\ Unread(r) + (i - 1) <= Capacity /\ Unread(r) \in Nat /\ i - 1 \in Nat
      BY <1>1 DEF Place
    <3>2. Unread(r) + (i - 1) = (Unread(r) + i) - 1
      BY <3>1
    <3>3. /\ Offset(r.read, Unread(r) + (i - 1)) \in Place
          /\ Offset(Offset(r.read, Unread(r)), i - 1) = Offset(r.read, Unread(r) + (i - 1))
      BY ONLY <3>1, OffsetAdds
    <3>4. QED
      BY ONLY <3>1, <3>2, <3>3, p = Offset(r.read, (Unread(r) + i) - 1)
  <2>0. ByteAt(Put(r, data), Unread(r) + i) = filled[p]
    <3>1. Put(r, data).bytes = filled /\ Put(r, data).read = r.read
      BY <1>3
    <3>2. ByteAt(Put(r, data), Unread(r) + i)
            = Put(r, data).bytes[Offset(Put(r, data).read, (Unread(r) + i) - 1)]
      BY DEF ByteAt
    <3>3. QED
      BY ONLY <3>1, <3>2
  <2>5. /\ i <= k => p \in r.write .. r.write + k - 1 /\ p - r.write + 1 = i
        /\ ~(i <= k) => p \notin r.write .. r.write + k - 1 /\ p < n - k /\ k + p + 1 = i
    <3> HIDE DEF k, p
    <3>1. r.write \in Place /\ n \in 0 .. Capacity
      BY <1>1 DEF Place
    <3>2. i \in 1 .. n /\ p = Offset(r.write, i - 1)
      BY <2>1
    <3> HIDE DEF n
    <3>3. Capacity \in Nat \ {0} /\ r.write \in 0 .. Capacity - 1
      BY <1>1
    <3>4. CASE i <= k
      <4>1. p = r.write + (i - 1)
        BY ONLY <1>4, <3>1, <3>2, <3>3, <3>4 DEF Offset
      <4>2. QED
        BY ONLY <1>4, <3>1, <3>2, <3>3, <3>4, <4>1
    <3>5. CASE ~(i <= k)
      <4>1. r.write + k = Capacity /\ k < n
        BY ONLY <1>4, <3>1, <3>2, <3>3, <3>5
      <4>2. p = r.write + (i - 1) - Capacity
        BY ONLY <1>4, <3>1, <3>2, <3>3, <3>5, <4>1 DEF Offset
      <4>3. /\ k \in Int /\ n \in Int /\ r.write \in Int /\ i \in Int
            /\ n <= Capacity /\ i <= n /\ k < i
        BY ONLY <1>4, <3>1, <3>2, <3>3, <3>5
      <4>4. p = i - 1 - k /\ p < r.write
        BY ONLY <3>3, <4>1, <4>2, <4>3
      <4>5. p \notin r.write .. r.write + k - 1
        BY ONLY <4>3, <4>4
      <4>6. p < n - k /\ k + p + 1 = i
        BY ONLY <4>3, <4>4
      <4>7. QED
        BY ONLY <3>5, <4>5, <4>6
    <3>6. QED
      BY ONLY <3>4, <3>5
  <2>2. CASE i <= k
    <3>1. filled[p] = data[p - r.write + 1]
      BY <2>1, <2>2, <2>5
    <3>2. QED
      BY <2>0, <2>2, <2>5, <3>1
  <2>3. CASE ~(i <= k)
    <3>1. filled[p] = data[k + p + 1]
      BY <2>1, <2>3, <2>5
    <3>2. QED
      BY <2>0, <2>3, <2>5, <3>1
  <2>4. QED
    BY <2>2, <2>3
<1>11. QED
  BY <1>6, <1>7, <1>8, <1>9, <1>10

-----------------------------------------------------------------------------
(***************************************************************************)
(* What was accepted, as the bytes that went to the engine and behind them *)
(* those that wait.                                                        *)
(***************************************************************************)
Number == 0 .. MaxBytes

Passed(h, r) == h \o Fetch(r, Unread(r))

Accounted(s, count, gone) == InOrder(s) /\ Elements(s) = (1 .. count) \ gone

LEMMA PassedByPlace ==
    ASSUME NEW r \in RingType(Number), WellShaped(r), NEW h \in Seq(Number)
    PROVE  /\ Passed(h, r) \in Seq(Number)
           /\ Len(Passed(h, r)) = Len(h) + Unread(r)
           /\ Unread(r) \in Nat /\ Len(h) \in Nat
           /\ \A i \in 1 .. Len(h) : Passed(h, r)[i] = h[i]
           /\ \A i \in 1 .. Unread(r) : Passed(h, r)[Len(h) + i] = ByteAt(r, i)
<1> DEFINE b == Fetch(r, Unread(r))
<1>1. Unread(r) \in Nat
  BY BufferAssumption DEF RingType, Unread
<1>2. /\ b \in Seq(Number)
      /\ Len(b) = Unread(r)
      /\ \A i \in 1 .. Unread(r) : b[i] = ByteAt(r, i)
  <2>1. Unread(r) \in 0 .. Unread(r)
    BY <1>1
  <2>2. QED
    BY <2>1, FetchGivesUnread
<1> HIDE DEF b
<1>3. Passed(h, r) = h \o b
  BY DEF Passed, b
<1>4. h \o b \in Seq(Number) /\ Len(h \o b) = Len(h) + Len(b) /\ Len(h) \in Nat
  BY <1>2
<1>5. \A i \in 1 .. Len(h) : (h \o b)[i] = h[i]
  BY <1>2
<1>6. \A i \in 1 .. Len(b) : (h \o b)[Len(h) + i] = b[i]
  BY <1>2
<1>7. QED
  BY <1>1, <1>2, <1>3, <1>4, <1>5, <1>6

\* The pump moves bytes from the ring to the engine, and that is all.
LEMMA PumpKeepsPassed ==
    ASSUME NEW r \in RingType(Number), WellShaped(r), NEW h \in Seq(Number),
           NEW n \in 0 .. Unread(r)
    PROVE  Passed(h \o Fetch(r, n), Take(r, n)) = Passed(h, r)
<1> DEFINE f == Fetch(r, n)
           g == h \o f
           t == Take(r, n)
<1>1. f \in Seq(Number) /\ Len(f) = n /\ \A i \in 1 .. n : f[i] = ByteAt(r, i)
  BY FetchGivesUnread
<1>2. /\ t \in RingType(Number) /\ WellShaped(t) /\ Unread(t) = Unread(r) - n
      /\ \A i \in 1 .. Unread(r) - n : ByteAt(t, i) = ByteAt(r, n + i)
  BY TakeKeepsRest
<1> HIDE DEF f, t
<1>3. /\ g \in Seq(Number) /\ Len(g) = Len(h) + n
      /\ \A i \in 1 .. Len(h) : g[i] = h[i]
      /\ \A i \in 1 .. n : g[Len(h) + i] = f[i]
  BY <1>1
<1> HIDE DEF g
<1> DEFINE old == Passed(h, r)
           new == Passed(g, t)
<1>4. /\ old \in Seq(Number) /\ Len(old) = Len(h) + Unread(r) /\ Unread(r) \in Nat
      /\ \A i \in 1 .. Len(h) : old[i] = h[i]
      /\ \A i \in 1 .. Unread(r) : old[Len(h) + i] = ByteAt(r, i)
  BY PassedByPlace
<1>5. /\ new \in Seq(Number) /\ Len(new) = Len(g) + Unread(t)
      /\ \A i \in 1 .. Len(g) : new[i] = g[i]
      /\ \A i \in 1 .. Unread(t) : new[Len(g) + i] = ByteAt(t, i)
  BY <1>2, <1>3, PassedByPlace
<1> HIDE DEF old, new
<1>6. Len(new) = Len(old) /\ Len(h) \in Nat /\ n \in Nat
  BY <1>2, <1>3, <1>4, <1>5
<1>7. ASSUME NEW i \in 1 .. Len(old)
      PROVE  new[i] = old[i]
  <2>1. CASE i <= Len(h)
    BY <1>3, <1>4, <1>5, <1>6, <2>1
  <2>2. CASE i > Len(h) /\ i <= Len(h) + n
    <3> DEFINE j == i - Len(h)
    <3>1. j \in 1 .. n /\ j \in 1 .. Unread(r) /\ i = Len(h) + j /\ i \in 1 .. Len(g)
      BY <1>3, <1>4, <1>6, <2>2
    <3>2. new[i] = f[j]
      BY <1>3, <1>5, <3>1
    <3>3. QED
      BY <1>1, <1>4, <3>1, <3>2
  <2>3. CASE i > Len(h) + n
    <3> DEFINE j == i - Len(g)
    <3>1. /\ j \in 1 .. Unread(t) /\ j \in 1 .. Unread(r) - n
          /\ i = Len(g) + j /\ n + j \in 1 .. Unread(r) /\ i = Len(h) + (n + j)
      BY <1>2, <1>3, <1>4, <1>6, <2>3
    <3>2. new[i] = ByteAt(t, j) /\ old[i] = ByteAt(r, n + j)
      BY <1>4, <1>5, <3>1
    <3>3. QED
      BY <1>2, <3>1, <3>2
  <2>4. QED
    BY <1>4, <1>6, <2>1, <2>2, <2>3
<1>8. new = old
  BY <1>4, <1>5, <1>6, <1>7
<1>9. QED
  BY <1>8 DEF new, old, f, g, t

\* A write puts the next bytes behind all that were accepted.
LEMMA WriteAccounts ==
    ASSUME NEW r \in RingType(Number), WellShaped(r), NEW h \in Seq(Number),
           NEW count \in Nat, NEW gone \in SUBSET (1 .. count),
           Accounted(Passed(h, r), count, gone),
           NEW data \in Seq(Number), Len(data) <= r.avail,
           \A i \in 1 .. Len(data) : data[i] = count + i
    PROVE  Accounted(Passed(h, Put(r, data)), count + Len(data), gone)
<1> DEFINE w == Put(r, data)
           n == Len(data)
           old == Passed(h, r)
           new == Passed(h, w)
<1>1. /\ w \in RingType(Number) /\ WellShaped(w) /\ Unread(w) = Unread(r) + n
      /\ \A i \in 1 .. Unread(r) : ByteAt(w, i) = ByteAt(r, i)
      /\ \A i \in 1 .. n : ByteAt(w, Unread(r) + i) = data[i]
      /\ n \in Nat
  BY PutAppends
<1> HIDE DEF w
<1>2. /\ old \in Seq(Number) /\ Len(old) = Len(h) + Unread(r) /\ Unread(r) \in Nat
      /\ \A i \in 1 .. Len(h) : old[i] = h[i]
      /\ \A i \in 1 .. Unread(r) : old[Len(h) + i] = ByteAt(r, i)
      /\ Len(h) \in Nat
  BY PassedByPlace
<1>3. /\ new \in Seq(Number) /\ Len(new) = Len(h) + Unread(w)
      /\ \A i \in 1 .. Len(h) : new[i] = h[i]
      /\ \A i \in 1 .. Unread(w) : new[Len(h) + i] = ByteAt(w, i)
  BY <1>1, PassedByPlace
<1>4. InOrder(old) /\ Elements(old) = (1 .. count) \ gone
  BY DEF Accounted
<1> HIDE DEF old, new, n
<1>5. Len(new) = Len(old) + n /\ Len(old) \in Nat
  BY <1>1, <1>2, <1>3
<1>6. ASSUME NEW i \in 1 .. Len(old)
      PROVE  new[i] = old[i] /\ old[i] \in (1 .. count) \ gone
  <2>1. CASE i <= Len(h)
    BY <1>2, <1>3, <1>4, <2>1 DEF Elements
  <2>2. CASE ~(i <= Len(h))
    <3> DEFINE j == i - Len(h)
    <3>1. j \in 1 .. Unread(r) /\ j \in 1 .. Unread(w) /\ i = Len(h) + j
      BY <1>1, <1>2, <2>2
    <3>2. QED
      BY <1>1, <1>2, <1>3, <1>4, <3>1 DEF Elements
  <2>3. QED
    BY <2>1, <2>2
<1>7. ASSUME NEW i \in 1 .. n
      PROVE  new[Len(old) + i] = count + i
  <2>1. /\ Unread(r) + i \in 1 .. Unread(w)
        /\ Len(old) + i = Len(h) + (Unread(r) + i)
    BY <1>1, <1>2
  <2>2. QED
    BY <1>1, <1>3, <2>1 DEF n
<1>8. InOrder(new)
  <2>1. SUFFICES ASSUME NEW i \in 1 .. Len(new), NEW j \in 1 .. Len(new), i < j
                 PROVE  new[i] < new[j]
    BY DEF InOrder
  <2>2. CASE j <= Len(old)
    <3>1. i \in 1 .. Len(old) /\ j \in 1 .. Len(old)
      BY <1>5, <2>1, <2>2
    <3>2. QED
      BY <1>4, <1>6, <2>1, <3>1 DEF InOrder
  <2>3. CASE i <= Len(old) /\ j > Len(old)
    <3> DEFINE k == j - Len(old)
    <3>1. i \in 1 .. Len(old) /\ k \in 1 .. n /\ j = Len(old) + k
      BY <1>1, <1>5, <2>3
    <3>2. new[i] \in 1 .. count /\ new[j] = count + k
      BY <1>6, <1>7, <3>1
    <3>3. QED
      BY <1>1, <3>1, <3>2
  <2>4. CASE i > Len(old)
    <3> DEFINE k == j - Len(old)
               l == i - Len(old)
    <3>1. /\ l \in 1 .. n /\ i = Len(old) + l
          /\ k \in 1 .. n /\ j = Len(old) + k
          /\ l < k
      BY <1>1, <1>5, <2>1, <2>4
    <3>2. new[i] = count + l /\ new[j] = count + k
      BY <1>7, <3>1
    <3>3. QED
      BY <1>1, <3>1, <3>2
  <2>5. QED
    BY <1>5, <2>2, <2>3, <2>4
<1>9. Elements(new) = (1 .. count + n) \ gone
  <2>1. ASSUME NEW x \in Elements(new) PROVE x \in (1 .. count + n) \ gone
    <3>1. PICK i \in 1 .. Len(new) : x = new[i]
      BY <2>1 DEF Elements
    <3>2. CASE i <= Len(old)
      <4>1. i \in 1 .. Len(old)
        BY <1>5, <3>2
      <4>2. QED
        BY <1>1, <1>6, <3>1, <4>1
    <3>3. CASE ~(i <= Len(old))
      <4> DEFINE k == i - Len(old)
      <4>1. k \in 1 .. n /\ i = Len(old) + k
        BY <1>1, <1>5, <3>3
      <4>2. x = count + k
        BY <1>7, <3>1, <4>1
      <4>3. QED
        BY <1>1, <4>1, <4>2
    <3>4. QED
      BY <3>2, <3>3
  <2>2. ASSUME NEW x \in (1 .. count + n) \ gone PROVE x \in Elements(new)
    <3>1. CASE x <= count
      <4>1. x \in Elements(old)
        BY <1>1, <1>4, <3>1
      <4>2. PICK i \in 1 .. Len(old) : x = old[i]
        BY <4>1 DEF Elements
      <4>3. i \in 1 .. Len(new) /\ x = new[i]
        BY <1>1, <1>5, <1>6, <4>2
      <4>4. QED
        BY <4>3 DEF Elements
    <3>2. CASE ~(x <= count)
      <4> DEFINE k == x - count
      <4>1. k \in 1 .. n /\ x = count + k /\ Len(old) + k \in 1 .. Len(new)
        BY <1>1, <1>5, <3>2
      <4>2. x = new[Len(old) + k]
        BY <1>7, <4>1
      <4>3. QED
        BY <4>1, <4>2 DEF Elements
    <3>3. QED
      BY <3>1, <3>2
  <2>3. QED
    BY <2>1, <2>2
<1>10. QED
  BY <1>8, <1>9 DEF Accounted, new, w, n

\* Throwing the unread bytes away leaves what went to the engine.
LEMMA DiscardAccounts ==
    ASSUME NEW r \in RingType(Number), WellShaped(r), NEW h \in Seq(Number),
           NEW count \in Nat, NEW gone \in SUBSET (1 .. count),
           Accounted(Passed(h, r), count, gone),
           NEW e \in RingType(Number), WellShaped(e), Unread(e) = 0
    PROVE  LET lost == {Fetch(r, Unread(r))[i] : i \in 1 .. Unread(r)}
           IN  /\ gone \cup lost \subseteq 1 .. count
               /\ Accounted(Passed(h, e), count, gone \cup lost)
<1> DEFINE lost == {Fetch(r, Unread(r))[i] : i \in 1 .. Unread(r)}
           old == Passed(h, r)
           new == Passed(h, e)
<1>1. /\ old \in Seq(Number) /\ Len(old) = Len(h) + Unread(r) /\ Unread(r) \in Nat
      /\ \A i \in 1 .. Len(h) : old[i] = h[i]
      /\ \A i \in 1 .. Unread(r) : old[Len(h) + i] = ByteAt(r, i)
      /\ Len(h) \in Nat
  BY PassedByPlace
<1>2. /\ new \in Seq(Number) /\ Len(new) = Len(h)
      /\ \A i \in 1 .. Len(h) : new[i] = h[i]
  BY PassedByPlace
<1>3. InOrder(old) /\ Elements(old) = (1 .. count) \ gone
  BY DEF Accounted
<1>4. lost = {old[Len(h) + i] : i \in 1 .. Unread(r)}
  <2>1. Unread(r) \in 0 .. Unread(r)
    BY <1>1
  <2>2. \A i \in 1 .. Unread(r) : Fetch(r, Unread(r))[i] = ByteAt(r, i)
    BY <2>1, FetchGivesUnread
  <2>3. QED
    BY <1>1, <2>2
<1> HIDE DEF lost, old, new
<1>5. ASSUME NEW i \in 1 .. Unread(r)
      PROVE  /\ Len(h) + i \in 1 .. Len(old)
             /\ old[Len(h) + i] \in 1 .. count
             /\ \A j \in 1 .. Len(h) : old[j] < old[Len(h) + i]
  <2>1. Len(h) + i \in 1 .. Len(old)
    BY <1>1
  <2>2. \A j \in 1 .. Len(h) : j \in 1 .. Len(old) /\ j < Len(h) + i
    BY <1>1
  <2>3. QED
    BY <1>3, <2>1, <2>2 DEF Elements, InOrder
<1>6. gone \cup lost \subseteq 1 .. count
  BY <1>4, <1>5
<1>7. \A i \in 1 .. Len(h) : /\ i \in 1 .. Len(old)
                             /\ new[i] = old[i]
                             /\ old[i] \in (1 .. count) \ gone
  BY <1>1, <1>2, <1>3 DEF Elements
<1>8. InOrder(new)
  BY <1>2, <1>3, <1>7 DEF InOrder
<1>9. Elements(new) = (1 .. count) \ (gone \cup lost)
  <2>1. ASSUME NEW x \in Elements(new) PROVE x \in (1 .. count) \ (gone \cup lost)
    <3>1. PICK i \in 1 .. Len(h) : x = old[i]
      BY <1>2, <1>7, <2>1 DEF Elements
    <3>2. x \notin lost
      <4>1. SUFFICES ASSUME x \in lost PROVE FALSE
        OBVIOUS
      <4>2. PICK j \in 1 .. Unread(r) : x = old[Len(h) + j]
        BY <1>4, <4>1
      <4>3. old[i] < old[Len(h) + j] /\ x \in 1 .. count
        BY <1>5, <1>7, <3>1
      <4>4. QED
        BY <3>1, <4>2, <4>3
    <3>3. QED
      BY <1>7, <3>1, <3>2
  <2>2. ASSUME NEW x \in (1 .. count) \ (gone \cup lost) PROVE x \in Elements(new)
    <3>1. x \in Elements(old)
      BY <1>3, <2>2
    <3>2. PICK i \in 1 .. Len(old) : x = old[i]
      BY <3>1 DEF Elements
    <3>3. CASE i <= Len(h)
      <4>1. i \in 1 .. Len(h)
        BY <1>1, <3>3
      <4>2. QED
        BY <1>2, <1>7, <3>2, <4>1 DEF Elements
    <3>4. CASE ~(i <= Len(h))
      <4> DEFINE j == i - Len(h)
      <4>1. j \in 1 .. Unread(r) /\ i = Len(h) + j
        BY <1>1, <3>4
      <4>2. QED
        BY <1>4, <2>2, <3>2, <4>1
    <3>5. QED
      BY <3>3, <3>4
  <2>3. QED
    BY <2>1, <2>2
<1>10. QED
  BY <1>6, <1>8, <1>9 DEF Accounted, lost, new

-----------------------------------------------------------------------------
(***************************************************************************)
(* The inductive invariant, in three parts: what it says of the audio, of  *)
(* the rest, and that a chain which is to be closed gracefully, and one    *)
(* that does not exist, has nothing waiting.                               *)
(***************************************************************************)
AudioInv ==
    /\ ring \in RingType(Number)
    /\ WellShaped(ring)
    /\ accepted \in Number
    /\ discarded \subseteq 1 .. accepted
    /\ heard \in Seq(Number)
    /\ silences \subseteq Nat
    /\ Accounted(Passed(heard, ring), accepted, discarded)

CallType ==
    [pc : {"idle", "pump", "count", "drain", "reopen", "start"},
     op : {"none", "write", "flush", "room", "poll", "close", "open", "resume"},
     flush : BOOLEAN, sleeps : 0 .. MaxSleeps]

PlayerInv ==
    /\ chain \in BOOLEAN /\ paused \in BOOLEAN /\ graceful \in BOOLEAN /\ deviceOpen \in BOOLEAN
    /\ polls \in 0 .. MaxPolls
    /\ call \in CallType
    /\ queued \in 0 .. QueueLength
    /\ monitor \in [pc : {"look", "close"}, count : 0 .. LongPause]

NothingLeftBehind == graceful \/ ~chain => Unread(ring) = 0

IInv == AudioInv /\ PlayerInv /\ NothingLeftBehind

\* The bounds, in the form the provers use.
LEMMA Bounds ==
    /\ QueueLength \in Nat \ {0} /\ LongPause \in Nat \ {0}
    /\ MaxSleeps \in Nat /\ MaxPolls \in Nat /\ MaxBytes \in Nat
  BY ComponentAssumption

LEMMA IInvImpliesTypeOK == IInv => TypeOK
<1> SUFFICES ASSUME AudioInv, PlayerInv PROVE TypeOK
  BY DEF IInv
<1>1. discarded \subseteq 1 .. MaxBytes
  BY Bounds DEF AudioInv, Number
<1>2. {chain, paused, graceful, deviceOpen} \subseteq BOOLEAN
  BY DEF PlayerInv
<1>3. QED
  BY <1>1, <1>2 DEF AudioInv, PlayerInv, CallType, TypeOK, Number

\* A ring that is rewound, or made anew, is empty.
LEMMA RewoundIsEmpty ==
    /\ NewRing \in RingType(Number) /\ WellShaped(NewRing) /\ Unread(NewRing) = 0
    /\ \A r \in RingType(Number) :
         Rewound(r) \in RingType(Number) /\ WellShaped(Rewound(r)) /\ Unread(Rewound(r)) = 0
<1>1. Capacity \in Nat \ {0} /\ 0 \in Place /\ 0 \in Number
  BY BufferAssumption, ComponentAssumption DEF Place, Number
<1>2. Offset(0, 0) = 0
  BY <1>1 DEF Offset
<1>3. NewRing \in RingType(Number) /\ WellShaped(NewRing) /\ Unread(NewRing) = 0
  BY <1>1, <1>2 DEF NewRing, RingType, WellShaped, Unread
<1>4. ASSUME NEW r \in RingType(Number)
      PROVE  Rewound(r) \in RingType(Number) /\ WellShaped(Rewound(r)) /\ Unread(Rewound(r)) = 0
  BY <1>1, <1>2 DEF Rewound, RingType, WellShaped, Unread
<1>5. QED
  BY <1>3, <1>4

LEMMA InitHolds == Init => IInv
<1> SUFFICES ASSUME Init PROVE IInv
  OBVIOUS
<1>1. heard \in Seq(Number) /\ Len(heard) = 0
  BY DEF Init
<1>2. ring \in RingType(Number) /\ WellShaped(ring) /\ Unread(ring) = 0
  BY RewoundIsEmpty DEF Init
<1>3. Len(Passed(heard, ring)) = 0
  <2>1. Len(Passed(heard, ring)) = Len(heard) + Unread(ring)
    BY <1>1, <1>2, PassedByPlace
  <2>2. QED
    BY <1>1, <1>2, <2>1
<1>4. accepted = 0 /\ discarded = {} /\ silences = {} /\ MaxBytes \in Nat
  BY ComponentAssumption DEF Init
<1>5. Accounted(Passed(heard, ring), accepted, discarded)
  BY <1>3, <1>4 DEF Accounted, InOrder, Elements
<1>6. AudioInv
  BY <1>1, <1>2, <1>4, <1>5 DEF AudioInv, Number
<1>7. PlayerInv
  <2>1. /\ 0 \in 0 .. MaxPolls /\ 0 \in 0 .. QueueLength
        /\ 0 \in 0 .. LongPause /\ 0 \in 0 .. MaxSleeps
    BY Bounds
  <2>2. QED
    BY <2>1 DEF Init, PlayerInv, CallType, NoCall
<1>8. NothingLeftBehind
  BY <1>2 DEF NothingLeftBehind
<1>9. QED
  BY <1>6, <1>7, <1>8 DEF IInv

\* The audio survives a discard.
LEMMA DiscardKeeps ==
    ASSUME AudioInv, NEW e \in RingType(Number), WellShaped(e), Unread(e) = 0,
           ring' = e,
           discarded' = discarded \cup {Fetch(ring, Unread(ring))[i] : i \in 1 .. Unread(ring)},
           UNCHANGED <<accepted, heard, silences>>
    PROVE  AudioInv' /\ Unread(ring') = 0
<1> DEFINE lost == {Fetch(ring, Unread(ring))[i] : i \in 1 .. Unread(ring)}
<1>1. accepted \in Nat /\ discarded \in SUBSET (1 .. accepted)
  BY ComponentAssumption DEF AudioInv, Number
<1>2. /\ discarded \cup lost \subseteq 1 .. accepted
      /\ Accounted(Passed(heard, e), accepted, discarded \cup lost)
  BY <1>1, DiscardAccounts DEF AudioInv
<1> HIDE DEF lost
<1>3. /\ ring' \in RingType(Number) /\ WellShaped(ring') /\ Unread(ring') = 0
      /\ discarded' \subseteq 1 .. accepted'
      /\ Accounted(Passed(heard', ring'), accepted', discarded')
  BY <1>2 DEF lost
<1>4. QED
  BY <1>3 DEF AudioInv

\* A write that finds room.
LEMMA WriteKeeps ==
    ASSUME AudioInv, NEW n \in Nat, n <= ring.avail, accepted + n <= MaxBytes,
           ring' = Put(ring, [i \in 1 .. n |-> accepted + i]),
           accepted' = accepted + n,
           UNCHANGED <<discarded, heard, silences>>
    PROVE  AudioInv'
<1> DEFINE data == [i \in 1 .. n |-> accepted + i]
           new == Put(ring, data)
           total == accepted + n
<1>1. MaxBytes \in Nat /\ accepted \in 0 .. MaxBytes /\ discarded \in SUBSET (1 .. accepted)
  BY ComponentAssumption DEF AudioInv, Number
<1>2. /\ data \in Seq(Number) /\ Len(data) = n
      /\ \A i \in 1 .. n : data[i] = accepted + i
  <2>1. \A i \in 1 .. n : accepted + i \in Number
    BY <1>1 DEF Number
  <2>2. data \in [1 .. n -> Number]
    BY <2>1
  <2>3. QED
    BY <2>2
<1> HIDE DEF data
<1>3. new \in RingType(Number) /\ WellShaped(new)
  BY <1>2, PutAppends DEF AudioInv
<1>4. Accounted(Passed(heard, new), total, discarded)
  BY <1>1, <1>2, WriteAccounts DEF AudioInv
<1>5. total \in Number /\ discarded \subseteq 1 .. total
  BY <1>1 DEF Number
<1>6. ring' = new /\ accepted' = total
  BY DEF data
<1> HIDE DEF new, total
<1>7. QED
  BY <1>3, <1>4, <1>5, <1>6 DEF AudioInv

\* What a turn of the pump takes: no more than there is, and less than a
\* packet only in a flush and only when nothing is left behind it.
LEMMA PumpTakes ==
    ASSUME AudioInv, PumpWrites
    PROVE  \E n \in 0 .. Unread(ring) :
             /\ ring' = Take(ring, n)
             /\ heard' = heard \o Fetch(ring, n)
             /\ UNCHANGED <<accepted, discarded>>
             /\ \/ UNCHANGED silences
                \/ /\ silences' = silences \cup {Len(heard \o Fetch(ring, n))}
                   /\ n = Unread(ring)
                   /\ call.flush
<1> DEFINE n == Smaller(Unread(ring), SinkRoom)
<1>1. Unread(ring) \in Nat /\ PacketSize \in Nat /\ SinkRoom = PacketSize
  BY BufferAssumption DEF AudioInv, RingType, Unread, PumpWrites, SinkRoom
<1>2. n \in 0 .. Unread(ring)
  BY <1>1 DEF Smaller
<1>3. Len(Fetch(ring, n)) = n
  BY <1>2, FetchGivesUnread DEF AudioInv
<1>4. n < PacketSize => n = Unread(ring) /\ call.flush
  BY <1>1 DEF Smaller, PumpWrites, WantsToWrite
<1> HIDE DEF n
<1>5. /\ ring' = Take(ring, n)
      /\ heard' = heard \o Fetch(ring, n)
      /\ silences' = IF Len(Fetch(ring, n)) < PacketSize
                     THEN silences \cup {Len(heard \o Fetch(ring, n))} ELSE silences
      /\ UNCHANGED <<accepted, discarded>>
  BY DEF PumpWrites, GivesEngine, n
<1>6. QED
  BY <1>2, <1>3, <1>4, <1>5

LEMMA PumpKeeps ==
    ASSUME AudioInv, PumpWrites
    PROVE  AudioInv' /\ (Unread(ring) = 0 => Unread(ring') = 0)
<1>1. PICK n \in 0 .. Unread(ring) :
             /\ ring' = Take(ring, n)
             /\ heard' = heard \o Fetch(ring, n)
             /\ UNCHANGED <<accepted, discarded>>
             /\ \/ UNCHANGED silences
                \/ /\ silences' = silences \cup {Len(heard \o Fetch(ring, n))}
                   /\ n = Unread(ring)
                   /\ call.flush
  BY PumpTakes
<1> DEFINE new == Take(ring, n)
           given == heard \o Fetch(ring, n)
<1>2. /\ new \in RingType(Number) /\ WellShaped(new) /\ Unread(new) = Unread(ring) - n
  BY TakeKeepsRest DEF AudioInv
<1>9. Unread(ring) \in Nat
  BY BufferAssumption DEF AudioInv, RingType, Unread
<1>3. given \in Seq(Number) /\ Len(given) \in Nat
  <2>1. Fetch(ring, n) \in Seq(Number)
    BY FetchGivesUnread DEF AudioInv
  <2>2. QED
    BY <2>1 DEF AudioInv
<1>4. Passed(given, new) = Passed(heard, ring)
  BY PumpKeepsPassed DEF AudioInv
<1>5. Unread(ring) = 0 => Unread(new) = 0
  <2> SUFFICES ASSUME Unread(ring) = 0 PROVE Unread(new) = 0
    OBVIOUS
  <2>1. n = 0
    OBVIOUS
  <2>2. Unread(new) = 0 - 0
    BY <1>2, <2>1
  <2>3. QED
    BY <2>2
<1>6. ring' = new /\ heard' = given
  BY <1>1
<1>7. silences' \subseteq Nat
  BY <1>1, <1>3 DEF AudioInv
<1> HIDE DEF new, given
<1>8. QED
  BY <1>1, <1>2, <1>3, <1>4, <1>5, <1>6, <1>7 DEF AudioInv

-----------------------------------------------------------------------------
\* The forms a call takes.
LEMMA CallForms ==
    /\ NoCall \in CallType
    /\ \A op \in {"write", "flush", "room", "poll", "close", "open"}, flush \in BOOLEAN :
         Pump(op, flush) \in CallType
    /\ \A op \in {"open", "resume"} : [NoCall EXCEPT !.pc = "reopen", !.op = op] \in CallType
    /\ \A c \in CallType, pc \in {"count", "drain", "start"} : [c EXCEPT !.pc = pc] \in CallType
    /\ \A c \in CallType : Pump(c.op, FALSE) \in CallType
<1>1. 0 \in 0 .. MaxSleeps
  BY Bounds
<1>2. QED
  BY <1>1 DEF NoCall, Pump, CallType

\* What no step of the audio touches keeps its type.
LEMMA PlayerTypes == PlayerInv /\ [Next]_vars => PlayerInv'
<1> SUFFICES ASSUME PlayerInv, [Next]_vars PROVE PlayerInv'
  OBVIOUS
<1> USE DEF PlayerInv
<1>0. 0 \in 0 .. MaxPolls /\ 0 \in 0 .. QueueLength /\ (graceful \/ ~paused) \in BOOLEAN
  BY Bounds
<1>1. ASSUME NEW n \in 1 .. MaxBytes, Write(n) PROVE PlayerInv'
  <2>1. call' \in CallType
    BY <1>1, CallForms DEF Write
  <2>2. QED
    BY <1>0, <1>1, <2>1 DEF Write, PlayerIsWriting
<1>2. CASE EndWriting
  <2>1. call' \in CallType
    BY <1>2, CallForms DEF EndWriting
  <2>2. QED
    BY <1>0, <1>2, <2>1 DEF EndWriting, PlayerIsWriting
<1>3. CASE AskRoom
  <2>1. call' \in CallType
    BY <1>3, CallForms DEF AskRoom
  <2>2. QED
    BY <1>3, <2>1 DEF AskRoom
<1>4. CASE Poll
  <2>1. call' \in CallType
    BY <1>4, CallForms DEF Poll, NothingBuffered
  <2>2. graceful' \in BOOLEAN
    BY <1>0, <1>4 DEF Poll, NothingBuffered
  <2>3. QED
    BY <1>4, <2>1, <2>2 DEF Poll, NothingBuffered
<1>5. ASSUME NEW op \in {"close", "open"}, CloseBegins(op) PROVE PlayerInv'
  <2>1. call' \in CallType
    BY <1>5, CallForms DEF CloseBegins, CloseEnds
  <2>2. QED
    BY <1>0, <1>5, <2>1 DEF CloseBegins, Discard
<1>6. CASE Reset
  BY <1>0, <1>6 DEF Reset, Discard, playerVars
<1>7. CASE Pause
  BY <1>0, <1>7 DEF Pause, Discard
<1>8. CASE Resume
  <2>1. call' \in CallType
    BY <1>8, CallForms DEF Resume
  <2>2. QED
    BY <1>8, <2>1 DEF Resume
<1>9. CASE PumpWrites
  <2>1. call' \in CallType
    BY <1>9, Bounds DEF PumpWrites, CallType
  <2>2. QED
    BY <1>9, <2>1, Bounds DEF PumpWrites, SinkRoom
<1>10. CASE PumpSleeps
  <2>1. call' \in CallType
    BY <1>10, Bounds DEF PumpSleeps, CallType
  <2>2. QED
    BY <1>10, <2>1 DEF PumpSleeps
<1>11. CASE PumpEnds
  <2>1. call' \in CallType
    BY <1>11, CallForms DEF PumpEnds, PumpReturns, AfterPump, CallGoes
  <2>2. QED
    BY <1>11, <2>1 DEF PumpEnds
<1>12. CASE PollCounts
  <2>1. call' \in CallType
    BY <1>12, CallForms DEF PollCounts, NothingBuffered, FlushForPoller
  <2>2. graceful' \in BOOLEAN
    BY <1>0, <1>12 DEF PollCounts, NothingBuffered
  <2>3. polls' \in 0 .. MaxPolls
    BY <1>0, <1>12, Bounds DEF PollCounts, NothingBuffered, PollsOften
  <2>4. QED
    BY <1>12, <2>1, <2>2, <2>3 DEF PollCounts
<1>13. CASE CloseDrains
  <2>1. call' \in CallType
    BY <1>13, CallForms DEF CloseDrains, CloseEnds
  <2>2. QED
    BY <1>13, <2>1 DEF CloseDrains
<1>14. CASE OpensDevices
  <2>1. call' \in CallType
    BY <1>14, CallForms DEF OpensDevices
  <2>2. QED
    BY <1>0, <1>14, <2>1 DEF OpensDevices
<1>15. CASE OpenEnds
  <2>1. call' \in CallType
    BY <1>15, CallForms DEF OpenEnds
  <2>2. QED
    BY <1>15, <2>1 DEF OpenEnds
<1>16. CASE MonitorLooks
  BY <1>16, Bounds DEF MonitorLooks, Smaller, playerVars
<1>17. CASE MonitorCloses
  BY <1>17, Bounds DEF MonitorCloses, playerVars
<1>18. CASE EngineSends
  BY <1>18, Bounds DEF EngineSends, playerVars
<1>19. CASE DevicesLost
  BY <1>19, Bounds DEF DevicesLost, playerVars
<1>20. CASE UNCHANGED vars
  BY <1>20 DEF vars, playerVars
<1>21. QED
  BY <1>1, <1>2, <1>3, <1>4, <1>5, <1>6, <1>7, <1>8, <1>9, <1>10, <1>11, <1>12, <1>13, <1>14,
     <1>15, <1>16, <1>17, <1>18, <1>19, <1>20 DEF Next, CallBegins, CallContinues

\* A discard, whichever call it belongs to.
LEMMA DiscardStep == AudioInv /\ Discard => AudioInv' /\ Unread(ring') = 0
<1> SUFFICES ASSUME AudioInv, Discard PROVE AudioInv' /\ Unread(ring') = 0
  OBVIOUS
<1> DEFINE e == Rewound(ring)
<1>1. e \in RingType(Number) /\ WellShaped(e) /\ Unread(e) = 0
  BY RewoundIsEmpty DEF AudioInv
<1>2. /\ ring' = e
      /\ discarded' = discarded \cup {Fetch(ring, Unread(ring))[i] : i \in 1 .. Unread(ring)}
      /\ UNCHANGED <<accepted, heard, silences>>
  BY DEF Discard
<1> HIDE DEF e
<1>3. QED
  BY <1>1, <1>2, DiscardKeeps

\* A step that leaves the audio alone.
LEMMA AudioUntouched ==
    ASSUME AudioInv, UNCHANGED audioVars
    PROVE  AudioInv' /\ Unread(ring') = Unread(ring)
  BY DEF audioVars, AudioInv

\* The audio is accounted for after every step, and what is to be closed
\* gracefully is empty.
LEMMA AudioSteps == IInv /\ [Next]_vars => AudioInv' /\ NothingLeftBehind'
<1> SUFFICES ASSUME AudioInv, PlayerInv, NothingLeftBehind, [Next]_vars
             PROVE  AudioInv' /\ NothingLeftBehind'
  BY DEF IInv
<1>1. ASSUME NEW n \in 1 .. MaxBytes, Write(n) PROVE AudioInv' /\ NothingLeftBehind'
  <2>1. CASE chain /\ n <= ring.avail
    <3>1. /\ n \in Nat /\ n <= ring.avail /\ accepted + n <= MaxBytes
          /\ ring' = Put(ring, [i \in 1 .. n |-> accepted + i])
          /\ accepted' = accepted + n
          /\ UNCHANGED <<discarded, heard, silences>>
      BY <1>1, <2>1, Bounds DEF Write
    <3>2. graceful' = FALSE /\ chain' = TRUE
      BY <1>1, <2>1 DEF Write, PlayerIsWriting, PlayerInv
    <3>3. QED
      BY <3>1, <3>2, WriteKeeps DEF NothingLeftBehind
  <2>2. CASE ~(chain /\ n <= ring.avail)
    <3>1. UNCHANGED audioVars /\ graceful' = FALSE /\ UNCHANGED chain
      BY <1>1, <2>2 DEF Write, PlayerIsWriting, audioVars
    <3>2. QED
      BY <3>1, AudioUntouched DEF NothingLeftBehind
  <2>3. QED
    BY <2>1, <2>2
<1>2. CASE PumpWrites
  <2>1. UNCHANGED <<chain, graceful>>
    BY <1>2 DEF PumpWrites
  <2>2. QED
    BY <1>2, <2>1, PumpKeeps DEF NothingLeftBehind
<1>3. ASSUME NEW op \in {"close", "open"}, CloseBegins(op) PROVE AudioInv' /\ NothingLeftBehind'
  <2>1. CASE chain /\ graceful /\ deviceOpen
    <3>1. UNCHANGED audioVars /\ Unread(ring) = 0
      BY <1>3, <2>1 DEF CloseBegins, NothingLeftBehind
    <3>2. QED
      BY <3>1, AudioUntouched DEF NothingLeftBehind
  <2>2. CASE chain /\ ~(graceful /\ deviceOpen)
    <3>1. Discard
      BY <1>3, <2>2 DEF CloseBegins
    <3>2. QED
      BY <3>1, DiscardStep DEF NothingLeftBehind
  <2>3. CASE ~chain
    <3>1. UNCHANGED audioVars /\ Unread(ring) = 0
      BY <1>3, <2>3 DEF CloseBegins, NothingLeftBehind
    <3>2. QED
      BY <3>1, AudioUntouched DEF NothingLeftBehind
  <2>4. QED
    BY <2>1, <2>2, <2>3
<1>4. CASE Reset
  <2>1. CASE Discard
    BY <2>1, DiscardStep DEF NothingLeftBehind
  <2>2. CASE UNCHANGED audioVars
    BY <1>4, <2>2, AudioUntouched DEF NothingLeftBehind, Reset, playerVars
  <2>3. QED
    BY <1>4, <2>1, <2>2 DEF Reset
<1>5. CASE Pause
  <2>1. CASE Discard
    BY <2>1, DiscardStep DEF NothingLeftBehind
  <2>2. CASE UNCHANGED audioVars
    BY <1>5, <2>2, AudioUntouched DEF NothingLeftBehind, Pause
  <2>3. QED
    BY <1>5, <2>1, <2>2 DEF Pause
<1>6. CASE OpenEnds
  <2>1. CASE deviceOpen
    <3> DEFINE e == NewRing
    <3>1. e \in RingType(Number) /\ WellShaped(e) /\ Unread(e) = 0
      BY RewoundIsEmpty
    <3>2. /\ ring' = e
          /\ discarded' = discarded \cup {Fetch(ring, Unread(ring))[i] : i \in 1 .. Unread(ring)}
          /\ UNCHANGED <<accepted, heard, silences>>
      BY <1>6, <2>1 DEF OpenEnds
    <3> HIDE DEF e
    <3>3. QED
      BY <3>1, <3>2, DiscardKeeps DEF NothingLeftBehind
  <2>2. CASE ~deviceOpen
    BY <1>6, <2>2, AudioUntouched DEF OpenEnds, NothingLeftBehind, audioVars
  <2>3. QED
    BY <2>1, <2>2
<1>7. CASE Poll
  <2>1. UNCHANGED audioVars /\ UNCHANGED chain /\ (chain => UNCHANGED graceful)
    BY <1>7 DEF Poll
  <2>2. QED
    BY <2>1, AudioUntouched DEF NothingLeftBehind
<1>8. CASE PollCounts
  <2>1. UNCHANGED audioVars /\ UNCHANGED chain /\ (Unread(ring) # 0 => UNCHANGED graceful)
    BY <1>8 DEF PollCounts
  <2>2. QED
    BY <2>1, AudioUntouched DEF NothingLeftBehind
<1>9. CASE EndWriting
  <2>1. UNCHANGED audioVars /\ UNCHANGED chain /\ graceful' = FALSE
    BY <1>9 DEF EndWriting, PlayerIsWriting
  <2>2. QED
    BY <2>1, AudioUntouched DEF NothingLeftBehind
<1>10. CASE UNCHANGED <<audioVars, chain, graceful>>
  BY <1>10, AudioUntouched DEF NothingLeftBehind
<1>11. \/ \E n \in 1 .. MaxBytes : Write(n)
       \/ PumpWrites
       \/ \E op \in {"close", "open"} : CloseBegins(op)
       \/ Reset
       \/ Pause
       \/ OpenEnds
       \/ Poll
       \/ PollCounts
       \/ EndWriting
       \/ UNCHANGED <<audioVars, chain, graceful>>
  BY DEF Next, CallBegins, CallContinues, vars, playerVars, AskRoom, Resume, PumpSleeps, PumpEnds,
         CloseDrains, OpensDevices, MonitorLooks, MonitorCloses, EngineSends, DevicesLost
<1>12. QED
  BY <1>1, <1>2, <1>3, <1>4, <1>5, <1>6, <1>7, <1>8, <1>9, <1>10, <1>11

LEMMA NextKeeps == IInv /\ [Next]_vars => IInv'
  BY PlayerTypes, AudioSteps DEF IInv

THEOREM IInvHolds == Spec => []IInv
<1>1. Init => IInv
  BY InitHolds
<1>2. IInv /\ [Next]_vars => IInv'
  BY NextKeeps
<1>3. QED
  BY <1>1, <1>2, PTL DEF Spec

\* The variables keep their types.
THEOREM TypesHold == Spec => []TypeOK
<1>1. IInv => TypeOK
  BY IInvImpliesTypeOK
<1>2. QED
  BY <1>1, IInvHolds, PTL

\* Every byte the player wrote waits in the ring, went to the engine once and
\* in order, or was thrown away by a reset (OutputBuffer.cpp:60-84, 112-158).
THEOREM BytesAccounted == Spec => []EveryByteAccountedFor
<1>1. IInv => EveryByteAccountedFor
  BY DEF IInv, AudioInv, Accounted, Passed, InOrder, Elements, EveryByteAccountedFor, Buffered
<1>2. QED
  BY <1>1, IInvHolds, PTL

\* close() waits for the audio, instead of resetting it, only when none waits
\* in the buffer.
THEOREM GracefulCloseIsEmpty == Spec => []GracefulMeansEmpty
<1>1. IInv => GracefulMeansEmpty
  BY DEF IInv, NothingLeftBehind, GracefulMeansEmpty
<1>2. QED
  BY <1>1, IInvHolds, PTL

\* The engine pads a packet in a flush only, behind the last byte there is.
THEOREM SilenceEndsTheAudio == Spec => SilenceOnlyAtTheEnd
<1>1. IInv /\ [Next]_vars => (silences' # silences => call.flush /\ Unread(ring') = 0)
  <2> SUFFICES ASSUME AudioInv, [Next]_vars, silences' # silences
               PROVE  call.flush /\ Unread(ring') = 0
    BY DEF IInv
  <2>1. PumpWrites
    BY DEF Next, CallBegins, CallContinues, vars, playerVars, audioVars, Discard, Write,
           EndWriting, AskRoom, Poll, CloseBegins, Reset, Pause, Resume, PumpSleeps, PumpEnds,
           PollCounts, CloseDrains, OpensDevices, OpenEnds, MonitorLooks, MonitorCloses,
           EngineSends, DevicesLost
  <2>2. ring' = Take(ring, Unread(ring)) /\ call.flush
    BY <2>1, PumpTakes
  <2>3. Unread(ring) \in Nat /\ Unread(ring) - Unread(ring) = 0
    BY BufferAssumption DEF AudioInv, RingType, Unread
  <2>4. Unread(Take(ring, Unread(ring))) = 0
    BY <2>3, TakeKeepsRest DEF AudioInv
  <2>5. QED
    BY <2>2, <2>4
<1>2. QED
  BY <1>1, IInvHolds, PTL DEF Spec, SilenceOnlyAtTheEnd

=============================================================================
