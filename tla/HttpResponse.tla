------------------------------ MODULE HttpResponse ------------------------------
(***************************************************************************)
(* The response buffer (src/src/http/httpresponse.cpp): a block of memory  *)
(* that HttpResponse takes and gives back by itself, with a capacity and a *)
(* length kept beside it.  The operators take a response and return what   *)
(* the method makes of it.                                                 *)
(*                                                                         *)
(* A response carries the blocks it ever took: with the pool of            *)
(* OVERLOAD_NEW_AND_DELETE a block must come back live, once and with the  *)
(* size it was taken with; "sound" says that nothing else was done.  A     *)
(* content is a record with its length.                                    *)
(***************************************************************************)
EXTENDS Integers, Sequences

CONSTANT SizeMax   \* the largest size_t

NoContent == [text |-> "", size |-> 0]

\* A response that was reset or never had a content: m_content is block ptr,
\* or null if ptr is 0.  set is the content set last.
HttpResponseNew ==
  [ptr |-> 0, capacity |-> 0, len |-> 0, blocks |-> <<>>, sound |-> TRUE,
   code |-> "000", set |-> NoContent]

\* size_t arithmetic
Minus1(n) == IF n = 0 THEN SizeMax ELSE n - 1

Live(r) == {b \in DOMAIN r.blocks : r.blocks[b].live}

\* MemoryPool::deallocate(m_content, m_content_capacity), or free
Deallocate(r) ==
  [r EXCEPT !.blocks[r.ptr].live = FALSE,
            !.sound = @ /\ r.ptr \in Live(r) /\ r.blocks[r.ptr].size = r.capacity]

Allocate(r, size) ==
  [r EXCEPT !.blocks = Append(@, [size |-> size, live |-> TRUE, data |-> NoContent]),
            !.ptr = Len(r.blocks) + 1, !.capacity = size]

\* memcpy of a content into the block
Copy(r, c) ==
  [r EXCEPT !.blocks[r.ptr].data = c, !.len = c.size, !.set = c,
            !.sound = @ /\ r.ptr \in Live(r) /\ c.size <= r.blocks[r.ptr].size]

\* What-if variant: a block that is too small is not given back
MakeRoomKeeping(r, size) ==
  IF r.ptr # 0 /\ Minus1(r.capacity) >= size THEN r ELSE Allocate(r, size + 1)

\* The block is kept if the content and a terminator fit
MakeRoom(r, size) ==
  IF r.ptr = 0 THEN Allocate(r, size + 1)
  ELSE IF Minus1(r.capacity) < size THEN Allocate(Deallocate(r), size + 1)
  ELSE r

SetContent(r, c) == Copy(MakeRoom(r, c.size), c)

\* reset() gives the block back but keeps the pointer
Reset(r) ==
  [(IF r.ptr # 0 THEN Deallocate(r) ELSE r)
     EXCEPT !.capacity = 0, !.len = 0, !.code = "000", !.set = NoContent]

\* What createResponse appends to the headers
CreateResponse(r) ==
  IF r.ptr = 0 THEN NoContent
  ELSE IF r.blocks[r.ptr].data.size = r.len THEN r.blocks[r.ptr].data
  ELSE [text |-> "mixed", size |-> r.len]

Destroy(r) == IF r.ptr # 0 THEN Deallocate(r) ELSE r

\* Every block came back once and as it was taken
GivenBack(r) == r.sound /\ Live(r) = {}

=============================================================================
