------------------------------- MODULE Ranges -------------------------------
(***************************************************************************)
(* Index ranges: the parser of ua_services_attribute.c and the copying of  *)
(* parts of an array variant in ua_types.c.                                *)
(*                                                                         *)
(* The operations answer a status: they return [status, v, h].             *)
(***************************************************************************)
EXTENDS DataTypes, FiniteSetsExt

CONSTANT UINT32_RANGE   \* the numbers of a UInt32: 2^32

GOOD == 0
BADINTERNALERROR == 1
BADOUTOFMEMORY == 2
BADINDEXRANGEINVALID == 3
BADINDEXRANGENODATA == 4

Result(status, v, h) == [status |-> status, v |-> v, h |-> h]

----------------------------------------------------------------------------
(* Parsing "min:max,min:max,..." given as bytes                              *)

Digits == 48..57
Colon == 58
Comma == 44

\* [n, progress]: the number at the front of buf and its length
readNumber(buf) ==
    LET progress == CHOOSE k \in 0..Len(buf) :
                       /\ \A i \in 1..k : buf[i] \in Digits
                       /\ k < Len(buf) => buf[k + 1] \notin Digits
    IN  [n |-> InOrder(LAMBDA n, c : (n * 10 + (c - 48)) % UINT32_RANGE, 0, SubSeq(buf, 1, progress)),
         progress |-> progress]

readDimension(buf) ==
    LET lo == readNumber(buf)
        rest == SubSeq(buf, lo.progress + 2, Len(buf))
        hi == readNumber(rest)
        dim(max, progress) == [min |-> lo.n, max |-> max, progress |-> progress]
    IN  IF lo.progress = 0 THEN dim(0, 0)
        ELSE IF Len(buf) <= lo.progress \/ buf[lo.progress + 1] # Colon
        THEN dim(lo.n, lo.progress)
        ELSE dim(hi.n, IF hi.progress = 0 THEN 0 ELSE lo.progress + hi.progress + 1)

RECURSIVE ParseFrom(_, _, _, _, _)

\* The loop of parse_numericrange: dims have been read up to pos and are kept in the block
\* p, which has room for two more whenever it grows
ParseFrom(h, buf, pos, p, dims) ==
    LET grown == IF p = NULL \/ h.left = 1 THEN Alloc(h, <<>>)
                 ELSE [ok |-> TRUE, v |-> p, h |-> [h EXCEPT !.left = IF @ = 0 THEN 0 ELSE @ - 1]]
    IN  With(IF Len(dims) % 2 = 0 THEN grown ELSE [ok |-> TRUE, v |-> p, h |-> h], LAMBDA newds :
        IF ~newds.ok THEN Result(BADOUTOFMEMORY, NULL, Free(newds.h, p))
        ELSE With(readDimension(SubSeq(buf, pos + 1, Len(buf))), LAMBDA d :
             IF d.progress = 0 THEN Result(BADINDEXRANGEINVALID, NULL, Free(newds.h, newds.v))
             ELSE LET next == pos + d.progress
                      read == Append(dims, [min |-> d.min, max |-> d.max])
                  IN  IF next >= Len(buf) \/ buf[next + 1] # Comma
                      THEN Result(GOOD, newds.v, Put(newds.h, newds.v, read))
                      ELSE ParseFrom(newds.h, buf, next + 1, newds.v, read)))

\* v is the block that holds the dimensions of the range
parse_numericrange(h, str) == ParseFrom(h, h.mem[str.ptr], 0, NULL, <<>>)

----------------------------------------------------------------------------
(* Ranges of a variant                                                      *)

Dimensions(h, v) == IF v.dims.len > 0 THEN h.mem[v.dims.ptr] ELSE <<v.len>>

Product(s) == InOrder(LAMBDA a, b : a * b, 1, s)

Width(d) == d.max - d.min + 1

\* The elements per step of dimension k
Running(dims, k) == Product(SubSeq(dims, k + 1, Len(dims)))

\* [status, count, block, stride, first].  The elements are counted in a UInt32, everything
\* else in a size_t.
processRangeDefinition(h, v, range) ==
    LET dims == Dimensions(h, v)
        elements == IF v.dims.len = 0 THEN 1 ELSE InOrder(LAMBDA a, b : (a * b) % UINT32_RANGE, 1, dims)
        n == Len(dims)
        wrong == {k \in 1..n : range[k].min > range[k].max \/ range[k].max >= dims[k]}
        partial == {k \in 1..n : range[k].min # 0 \/ range[k].max + 1 # dims[k]}
        k == Max(partial)
        answer(status) == [status |-> status, count |-> 0, block |-> 1, stride |-> 0, first |-> 0]
    IN  IF v.dims.len > 0 /\ elements # v.len THEN answer(BADINTERNALERROR)
        ELSE IF Len(range) # n THEN answer(BADINDEXRANGEINVALID)
        ELSE IF wrong # {}
        THEN answer(IF range[Min(wrong)].min > range[Min(wrong)].max THEN BADINDEXRANGENODATA
                    ELSE BADINDEXRANGEINVALID)
        ELSE [status |-> GOOD,
              count |-> Product([i \in 1..n |-> Width(range[i])]),
              block |-> IF partial = {} THEN 1 ELSE Width(range[k]) * Running(dims, k),
              stride |-> IF partial = {} THEN elements ELSE dims[k] * Running(dims, k),
              first |-> InOrder(LAMBDA f, i : f + Running(dims, i) * range[i].min, 0,
                                 [i \in 1..n |-> i])]

\* The positions that are visited, counted from 1: block after block
Positions(r) == [i \in 1..r.count |-> r.first + ((i - 1) \div r.block) * r.stride
                                              + ((i - 1) % r.block) + 1]

ElementsOf(h, v) == IF v.data > 0 THEN h.mem[v.data] ELSE <<>>

\* An access outside of the array is undefined
Accessed(h, r, elements) ==
    IF \E i \in 1..r.count : Positions(r)[i] \notin DOMAIN elements THEN Undefined(h) ELSE h

ElementAt(elements, p, t) == IF p \in DOMAIN elements THEN elements[p] ELSE Zero(t)

\* Copies elements while that succeeds; v collects the copies
CopiedElements(h, elements, t) ==
    LET next(r, c) == [ok |-> c.ok, h |-> c.h, v |-> IF c.ok THEN Append(r.v, c.v) ELSE r.v]
    IN  InOrder(LAMBDA r, e : IF r.ok THEN next(r, UA_copy(r.h, e, t)) ELSE r, Good(<<>>, h), elements)

UA_Variant_copyRange(h, v, range) ==
    LET elements == ElementsOf(h, v)
        complete(w, g) ==
            IF v.dims.len = 0 THEN Result(GOOD, w, g)
            ELSE With(Alloc(g, [k \in DOMAIN range |-> Width(range[k])]), LAMBDA d :
                 IF d.ok THEN Result(GOOD, [w EXCEPT !.dims = [len |-> v.dims.len, ptr |-> d.v]], d.h)
                 ELSE Result(BADOUTOFMEMORY, ClearedVariant(w), Variant_deletemembers(d.h, w)))
    IN  With(processRangeDefinition(h, v, range), LAMBDA r :
        IF r.status # GOOD THEN Result(r.status, NoVariant, h)
        ELSE With([i \in 1..r.count |-> ElementAt(elements, Positions(r)[i], v.type)], LAMBDA wanted :
             With(Alloc(h, wanted), LAMBDA a :
             IF ~a.ok THEN Result(BADOUTOFMEMORY, NoVariant, a.h)
             ELSE With(IF fixedSize(v.type) THEN Good(wanted, Accessed(a.h, r, elements))
                       ELSE CopiedElements(Accessed(a.h, r, elements), wanted, v.type), LAMBDA c :
                  IF c.ok THEN complete([NoVariant EXCEPT !.type = v.type, !.len = r.count, !.data = a.v],
                                        Put(c.h, a.v, c.v))
                  ELSE Result(BADOUTOFMEMORY, NoVariant,
                              UA_Array_delete(Put(c.h, a.v, c.v), a.v, Len(c.v), v.type))))))

\* Replaces the range of v by the size elements at p.  Every element is deleted, then
\* copied, also after a copy has failed.
UA_Variant_setRangeCopy(h, v, p, size, range) ==
    LET elements == ElementsOf(h, v)
        stored(a, at, c) == [ok |-> a.ok /\ c.ok, h |-> c.h,
                             v |-> [k \in DOMAIN a.v |-> IF k = at THEN c.v ELSE a.v[k]]]
    IN  With(processRangeDefinition(h, v, range), LAMBDA r :
        IF r.status # GOOD THEN Result(r.status, v, h)
        ELSE IF r.count # size THEN Result(BADINDEXRANGEINVALID, v, h)
        ELSE With(InOrder(LAMBDA a, i :
                            With(Positions(r)[i], LAMBDA at :
                                 stored(a, at, UA_copy(UA_deleteMembers(a.h, ElementAt(a.v, at, v.type), v.type),
                                                       h.mem[p][i], v.type))),
                          Good(elements, Accessed(h, r, elements)), [i \in 1..r.count |-> i]), LAMBDA c :
                  Result(IF c.ok THEN GOOD ELSE BADOUTOFMEMORY, v, Put(c.h, v.data, c.v))))
=============================================================================
