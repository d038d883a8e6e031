------------------------------ MODULE MicaPool ------------------------------
(***************************************************************************)
(* The circular log in which the MICA store keeps its items                *)
(* (ported-mica/alloc_pool.c), as operators on a record                    *)
(*                                                                         *)
(*   head, tail   where the oldest item starts and the next one will       *)
(*   mem          the cells of the log                                     *)
(*                                                                         *)
(* Space is counted in cells.  An item is a header cell, which carries the *)
(* size of its allocation, its key and the length of its value, followed   *)
(* by the cells of the value.  head and tail are 64-bit counters of which  *)
(* only differences and the low bits kept in the table matter, so they are *)
(* kept modulo OffsetSpace.                                                *)
(***************************************************************************)
EXTENDS Integers

CONSTANTS
    Keys,
    Values,
    OffsetSpace,    \* MEHCACHED_ITEM_OFFSET_MASK + 1
    PoolSize        \* size of the log: a power of two

NoKey == "no key"
NoValue == -1

\* "for sufficient garbage collection time"
ASSUME PoolAssumption ==
    /\ PoolSize \in Nat \ {0}
    /\ OffsetSpace \in Nat \ {0}
    /\ \E m \in 1 .. OffsetSpace : OffsetSpace = m * PoolSize
    /\ PoolSize <= (OffsetSpace - 1) \div 2
    /\ NoValue \notin Values

Offsets == 0 .. OffsetSpace - 1

Header(k, size, len) == [key |-> k, size |-> size, len |-> len, val |-> NoValue]

ValueCell(v) == [key |-> NoKey, size |-> 0, len |-> 0, val |-> v]

Cells == [key : Keys \cup {NoKey}, size : 0 .. PoolSize, len : 0 .. PoolSize,
          val : Values \cup {NoValue}]

Wrap(n) == n % OffsetSpace

\* A log as mehcached_pool_init and mehcached_pool_reset leave it.
EmptyPool(mem) == [head |-> 0, tail |-> 0, mem |-> mem]

\* mehcached_pool_item: the cell at an offset.
Cell(p, offset) == p.mem[offset % PoolSize]

InUse(p) == Wrap(p.tail - p.head)

mehcached_pool_is_valid(p, offset) == Wrap(p.tail - offset) <= PoolSize

\* The space in use after mehcached_pool_pop_head has been called until size
\* more cells fit, or -1 if an assertion fails or the calls never end.
Popped(p, size) ==
    LET pop[u \in -PoolSize .. PoolSize] ==
            LET s == Cell(p, p.tail - u).size IN
            IF u < 0 \/ u + size <= PoolSize THEN u
            ELSE IF s = 0 THEN -1 ELSE pop[u - s]
    IN  pop[InUse(p)]

PopFails(p, size) == Popped(p, size) < 0

\* A faulty variant: the head stays where it is.
PushedWithoutPop(p, size) ==
    [p EXCEPT !.tail = Wrap(@ + size),
              !.mem[p.tail % PoolSize].size = size]

\* A faulty variant: the offset is not masked.
PushedUnmasked(p, size) ==
    [p EXCEPT !.head = Wrap(p.tail - Popped(p, size)),
              !.tail = @ + size,
              !.mem[p.tail % PoolSize].size = size]

\* mehcached_pool_push_tail: the new item starts at the old tail.
Pushed(p, size) ==
    [p EXCEPT !.head = Wrap(p.tail - Popped(p, size)),
              !.tail = Wrap(@ + size),
              !.mem[p.tail % PoolSize].size = size]

\* The n cells of a value, after the header at the given offset.
WithValue(p, offset, v, n) ==
    [p EXCEPT !.mem = [c \in DOMAIN p.mem |->
        IF (c - offset) % PoolSize \in 1 .. n THEN ValueCell(v) ELSE p.mem[c]]]

\* mehcached_set_item
mehcached_set_item(p, offset, k, v, n) ==
    [WithValue(p, offset, v, n) EXCEPT
        !.mem[offset % PoolSize] = Header(k, Cell(p, offset).size, n)]

\* mehcached_set_item_value
mehcached_set_item_value(p, offset, v, n) ==
    [WithValue(p, offset, v, n) EXCEPT !.mem[offset % PoolSize].len = n]

\* The copy of move-to-head: size cells, the header with its size included.
Copied(p, from, to, size) ==
    [p EXCEPT !.mem = [c \in DOMAIN p.mem |->
        LET j == (c - to) % PoolSize IN
        IF j < size THEN Cell(p, from + j) ELSE p.mem[c]]]

\* What a reader of the item at the given offset sees: its value if all of the
\* cells hold the same one.
ReadValue(p, offset) ==
    LET n == Cell(p, offset).len IN
    {Cell(p, offset + j).val : j \in 1 .. n}

\* The log is a row of items: from the head, each header's size leads to the
\* next one and the last to the tail.
RowOfItems(p) ==
    LET walk[u \in 0 .. PoolSize] ==
            LET s == Cell(p, p.tail - u).size IN
            \/ u = 0
            \/ s \in 1 .. u /\ walk[u - s]
    IN  walk[InUse(p)]
=============================================================================
