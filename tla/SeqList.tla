------------------------------ MODULE SeqList ------------------------------
(* A list as its user sees it: a sequence and the last result. *)
EXTENDS ListOps

CONSTANTS Elem, MaxLen, MaxArg

VARIABLES seq, reply

seqVars == <<seq, reply>>

SeqInit == seq = <<>> /\ reply = Nil

Becomes(s, r) == reply' = r /\ seq' = s

SeqInsert(x, target, after) ==
  LET i == FirstOf(seq, target) - 1 + after IN
  \/ PositionsOf(seq, target) = {} /\ Becomes(seq, Int64(-1))
  \/ /\ PositionsOf(seq, target) # {} /\ Len(seq) < MaxLen
     /\ Becomes(InsertAt(seq, i, x), Int64(i))

SeqRemove(x, count) ==
  LET R == RemovedOf(seq, x, count) IN
  Becomes(KeepAt(seq, DOMAIN seq \ R), Int64(Cardinality(R)))

SeqSet(i, x) ==
  \/ ElementAt(seq, i) = <<>> /\ Becomes(seq, Error("index"))
  \/ ElementAt(seq, i) # <<>> /\ Becomes(PutAt(seq, i, x), Ok)

SeqPop(end) ==
  \/ seq = <<>> /\ Becomes(seq, Nil)
  \/ seq # <<>> /\ end = "left" /\ Becomes(Tail(seq), Bulk(seq[1]))
  \/ seq # <<>> /\ end = "right" /\ Becomes(SubSeq(seq, 1, Len(seq) - 1), Bulk(seq[Len(seq)]))

SeqNext ==
  \/ \E end \in {"left", "right"} : SeqPop(end)
  \/ \E x \in Elem :
       \/ Len(seq) < MaxLen /\ (Becomes(<<x>> \o seq, Ok) \/ Becomes(Append(seq, x), Ok))
       \/ \E i \in -MaxArg .. MaxArg : SeqSet(i, x) \/ SeqRemove(x, i)
       \/ \E target \in Elem, after \in {0, 1} : SeqInsert(x, target, after)
  \/ \E start, end \in -MaxArg .. MaxArg : Becomes(RangeOf(seq, start, end), Ok)

SeqSpec == SeqInit /\ [][SeqNext]_seqVars
=============================================================================
