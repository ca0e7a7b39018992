--------------------------- MODULE MCRecordStore ---------------------------
(* Instances of RecordStore for TLC. *)
EXTENDS RecordStore, TLC

CONSTANTS c1, c2, u1, u2, i1, i2

Families == {{u1, u2, Module}, {i1, i2}, Pool, {Prices}}

\* Every operation, multi-record ones on two records.
AllOps ==
  {SetUsersPosition({u1, u2}), SetUsersPosition({u1}), GetUsersPosition({u1, u2}),
   SetModulePosition, GetModulePosition,
   SetUserInterest({i1, i2}), GetUserInterest({i1, i2}),
   UpdatePool, UpdatePoolBalance, GetPool, GetPools,
   SetPrices, GetPrices}

\* Records of different families share no key and no call: TLC looks at the
\* behaviours of one family at a time.
OneFamily ==
  \E F \in Families : \A k \in Keys :
    store[k] # 0 \/ (\E c \in Clients : k \in op[c].keys) => k \in F

Symmetric == Permutations(Clients)
=============================================================================
