-------------------------------- MODULE Maps --------------------------------
(***************************************************************************)
(* JavaScript Maps as functions with a changing domain, and filtered       *)
(* arrays: the data structures of the stateful classes of the repository.  *)
(***************************************************************************)
LOCAL INSTANCE Naturals
LOCAL INSTANCE FiniteSets

\* map.set(k, v)
Put(f, k, v) == [x \in DOMAIN f \cup {k} |-> IF x = k THEN v ELSE f[x]]

\* map.delete(k) for every k in S
Without(f, S) == [x \in DOMAIN f \ S |-> f[x]]

\* new Map()
EmptyMap == [x \in {} |-> x]

\* a Map with keys in K and values in V
MapOf(f, K, V) == DOMAIN f \subseteq K /\ \A k \in DOMAIN f : f[k] \in V

\* array.filter: the elements of s at the indices I, in their order.  (Sequences!SelectSeq,
\* written so that it needs no induction: the n-th of them is at the index with n - 1
\* smaller ones in I.)
Rank(I, i) == Cardinality({j \in I : j <= i})
Filtered(s, I) ==
  [n \in 1..Cardinality(I) |->
     s[CHOOSE i \in I : (\E j \in I : Rank(I, j) = n) => Rank(I, i) = n]]

=============================================================================
