--------------------------- MODULE PolicyTransfer ---------------------------
\* One transfer of the policy from the training ranks to the rollout ranks
\* (transfer_policy_weights in engine/policy_sync.py): every rank walks the same
\* list of tensors, chunk by chunk, and takes part in the collectives of its own
\* groups.  A collective takes place when every member of the group has come to
\* one on it, whatever each of them came for.
EXTENDS Naturals, Sequences, FiniteSets, SequencesExt

CONSTANTS
  NumTensors,           \* entries of the plan
  MaxTP, MaxDP,         \* bounds on the shape of each partition
  MaxChunks, MaxOffset  \* bounds on tensor sizes, and on how the devices overlap

ASSUME TransferAssumption ==
  {NumTensors, MaxTP, MaxDP, MaxChunks} \subseteq Nat \ {0} /\ MaxOffset \in Nat

VARIABLES
  shape,    \* partitions, placement and tensors of this transfer
  relay,    \* source and bridge rank of each training row
  program,  \* collectives of each rank, in its order
  pc,       \* how many of them it has completed
  buffer,   \* _policy_sync_buffer of each rank
  written   \* chunks each rollout rank has written

vars == <<shape, relay, program, pc, buffer, written>>

Tensors == 1 .. NumTensors

\* Ranks of the training partition come first, in rows of tensor-parallel ranks.
TrainWorld == shape.trainTP * shape.trainDP
TrainRanks == 0 .. TrainWorld - 1
RolloutRanks == TrainWorld .. TrainWorld + shape.rolloutTP * shape.rolloutDP - 1
Ranks == TrainRanks \cup RolloutRanks
Rows == 0 .. shape.trainDP - 1

TPRank(r) == IF r \in TrainRanks THEN r % shape.trainTP
             ELSE (r - TrainWorld) % shape.rolloutTP
DPRank(r) == IF r \in TrainRanks THEN r \div shape.trainTP
             ELSE (r - TrainWorld) \div shape.rolloutTP

\* Training runs on devices 0, 1, ...; rollout on those from offset on.
Device(r) == IF r \in TrainRanks THEN r ELSE shape.offset + r - TrainWorld

\* The relay of a row: its first rank, and with it the first rollout rank, that
\* are on different devices.
Relays(o) ==
  {p \in TrainRanks \X RolloutRanks : DPRank(p[1]) = o /\ Device(p[1]) # Device(p[2])}

Relay(o) ==
  CHOOSE p \in Relays(o) :
    \A q \in Relays(o) : p[1] < q[1] \/ (p[1] = q[1] /\ p[2] <= q[2])

Source(o) == relay[o][1]
Bridge(o) == relay[o][2]

\* Owners: the largest tensor first, each to the row with the least so far.  The
\* size of a tensor is its number of chunks, and a tie goes to the first key.
Larger(i, j) ==
  shape.chunks[i] > shape.chunks[j] \/ (shape.chunks[i] = shape.chunks[j] /\ i < j)

BySize ==
  CHOOSE s \in [Tensors -> Tensors] :
    \A n, m \in Tensors : n < m => Larger(s[n], s[m])

Give(given, i) ==
  LET o == CHOOSE o \in Rows : \A q \in Rows :
             given.load[o] < given.load[q] \/ (given.load[o] = given.load[q] /\ o <= q)
  IN [load |-> [given.load EXCEPT ![o] = @ + shape.chunks[i]],
      owner |-> [given.owner EXCEPT ![i] = o]]

Owners ==
  LET given[n \in 0 .. NumTensors] ==
        IF n = 0 THEN [load |-> [o \in Rows |-> 0], owner |-> [i \in Tensors |-> 0]]
        ELSE Give(given[n - 1], BySize[n])
  IN given[NumTensors].owner
-----------------------------------------------------------------------------
\* The groups: a row of training ranks, its relay, a row and a column of rollout
\* ranks.
Members(g) ==
  CASE g[1] = "reduce" -> {r \in TrainRanks : DPRank(r) = g[2]}
    [] g[1] = "relay" -> {Source(g[2]), Bridge(g[2])}
    [] g[1] = "row" -> {r \in RolloutRanks : DPRank(r) = g[2]}
    [] g[1] = "column" -> {r \in RolloutRanks : TPRank(r) = g[2]}

Groups ==
  ({"reduce", "relay"} \X Rows) \cup ({"row"} \X (0 .. shape.rolloutDP - 1))
    \cup ({"column"} \X (0 .. shape.rolloutTP - 1))

When(condition, group, o, i, k) ==
  IF condition
  THEN << [group |-> group, owner |-> o, tensor |-> i, chunk |-> k] >> ELSE <<>>

\* What a rank does for one chunk of tensor i, which row o owns.
Steps(r, o, i, k) ==
  IF r \in TrainRanks
  THEN IF DPRank(r) # o THEN <<>>
       ELSE When(shape.trainTP > 1, <<"reduce", o>>, o, i, k)
            \o When(r = Source(o), <<"relay", o>>, o, i, k)
  ELSE When(r = Bridge(o), <<"relay", o>>, o, i, k)
       \o When(DPRank(r) = DPRank(Bridge(o)) /\ shape.rolloutTP > 1,
               <<"row", DPRank(r)>>, o, i, k)
       \o When(shape.rolloutDP > 1, <<"column", TPRank(r)>>, o, i, k)

Walk(r, order, owner) ==
  FlattenSeq([n \in Tensors |->
    FlattenSeq([k \in 1 .. shape.chunks[order[n]] |->
      Steps(r, owner[order[n]], order[n], k)])])

InOrder == [n \in Tensors |-> n]

\* Mutant: the publishers walk the tensors in the order they were assigned.
ProgramBySize(r) == Walk(r, IF r \in TrainRanks THEN BySize ELSE InOrder, Owners)

\* Mutant: the publishers take turns, whatever the sizes.
ProgramTurns(r) ==
  Walk(r, InOrder, IF r \in TrainRanks THEN [i \in Tensors |-> (i - 1) % shape.trainDP]
                   ELSE Owners)

Program(r) == Walk(r, InOrder, Owners)

Shapes ==
  [trainTP : 1 .. MaxTP, trainDP : 1 .. MaxDP, rolloutTP : 1 .. MaxTP,
   rolloutDP : 1 .. MaxDP, offset : 0 .. MaxOffset,
   chunks : [Tensors -> 1 .. MaxChunks],
   layout : [Tensors -> {"sharded", "replicated", "repeated"}]]

Nothing == [tensor |-> 0, chunk |-> 0, copies |-> <<>>]

Init ==
  /\ shape \in Shapes /\ \A o \in Rows : Relays(o) # {}
  /\ relay = [o \in Rows |-> Relay(o)]
  /\ program = [r \in Ranks |-> Program(r)] /\ pc = [r \in Ranks |-> 0]
  /\ buffer = [r \in Ranks |-> Nothing] /\ written = [r \in RolloutRanks |-> {}]
-----------------------------------------------------------------------------
\* Pieces of a tensor, and who publishes them: every rank its shard; the source
\* a replicated tensor; of ranks with the same output range, the first.
Pieces(i) == IF shape.layout[i] = "sharded" THEN 0 .. shape.trainTP - 1 ELSE {0}

\* Mutant: every rank of the row publishes a replicated tensor.
PublishesReplicated(r, i, p) ==
  CASE shape.layout[i] = "sharded" -> p = TPRank(r)
    [] shape.layout[i] = "replicated" -> TRUE
    [] shape.layout[i] = "repeated" -> TPRank(r) = 0

Publishes(r, i, p) ==
  CASE shape.layout[i] = "sharded" -> p = TPRank(r)
    [] shape.layout[i] = "replicated" -> r = Source(DPRank(r))
    [] shape.layout[i] = "repeated" -> TPRank(r) = 0

\* The sum of what some ranks read for a chunk: how often it has each piece.
Read(ranks, i, k) ==
  [tensor |-> i, chunk |-> k,
   copies |-> [p \in Pieces(i) |-> Cardinality({r \in ranks : Publishes(r, i, p)})]]

Finished(r) == pc[r] = Len(program[r])
Now(r) == program[r][pc[r] + 1]
ReadyFor(g) == \A r \in Members(g) : ~Finished(r) /\ Now(r).group = g

\* write_chunk follows a rollout rank's last collective for the chunk.
LastOfChunk(r) ==
  \/ pc[r] + 1 = Len(program[r])
  \/ LET next == program[r][pc[r] + 2]
     IN next.tensor # Now(r).tensor \/ next.chunk # Now(r).chunk

\* The group's ranks go on, the receivers with a value in their buffers.
Complete(g, receivers, value) ==
  LET after == [r \in Ranks |-> IF r \in receivers THEN value ELSE buffer[r]]
  IN /\ pc' = [r \in Ranks |-> pc[r] + IF r \in Members(g) THEN 1 ELSE 0]
     /\ buffer' = after
     /\ written' = [r \in RolloutRanks |->
          IF r \in Members(g) /\ LastOfChunk(r)
          THEN written[r] \cup {<<Now(r).tensor, Now(r).chunk, after[r]>>}
          ELSE written[r]]
     /\ UNCHANGED <<shape, relay, program>>

Reduce(o) ==
  LET g == <<"reduce", o>>
  IN /\ shape.trainTP > 1 /\ ReadyFor(g)
     /\ LET now == Now(Source(o))
        IN Complete(g, {Source(o)}, Read(Members(g), now.tensor, now.chunk))

RelayChunk(o) ==
  LET g == <<"relay", o>>
      now == Now(Source(o))
  IN /\ ReadyFor(g)
     /\ Complete(g, {Bridge(o)},
                 IF shape.trainTP > 1 THEN buffer[Source(o)]
                 ELSE Read({Source(o)}, now.tensor, now.chunk))

BroadcastRow(d) ==
  LET g == <<"row", d>>
  IN /\ shape.rolloutTP > 1 /\ ReadyFor(g)
     /\ \E r \in Members(g) : Complete(g, Members(g), buffer[Bridge(Now(r).owner)])

BroadcastColumn(t) ==
  LET g == <<"column", t>>
      From(r) == CHOOSE q \in Members(g) : DPRank(q) = DPRank(Bridge(Now(r).owner))
  IN /\ shape.rolloutDP > 1 /\ ReadyFor(g)
     /\ \E r \in Members(g) : Complete(g, Members(g), buffer[From(r)])

AllFinished == \A r \in Ranks : Finished(r)

Returned == AllFinished /\ UNCHANGED vars

Next ==
  \/ \E o \in Rows : Reduce(o) \/ RelayChunk(o)
  \/ \E d \in 0 .. shape.rolloutDP - 1 : BroadcastRow(d)
  \/ \E t \in 0 .. shape.rolloutTP - 1 : BroadcastColumn(t)
  \/ Returned

\* A collective all members have come to takes place.
Spec == Init /\ [][Next]_vars /\ WF_vars(Next)
-----------------------------------------------------------------------------
\* Ranks that meet in a collective are at the same chunk of the same tensor, on
\* every group and however far ranks of other groups are.
Matched ==
  \A g \in Groups : ReadyFor(g) => \A r, q \in Members(g) : Now(r) = Now(q)

\* All chunks, and what a chunk is with each of its pieces once.
Chunks == UNION {{i} \X (1 .. shape.chunks[i]) : i \in Tensors}
Whole(i, k) == [tensor |-> i, chunk |-> k, copies |-> [p \in Pieces(i) |-> 1]]

\* What a rollout rank writes to a chunk is that chunk, each of its pieces once,
\* and in the end it has written all of them.
Delivered ==
  \A r \in RolloutRanks :
    /\ \A w \in written[r] : w[3] = Whole(w[1], w[2])
    /\ AllFinished => {<<w[1], w[2]>> : w \in written[r]} = Chunks

\* The transfer ends: no two groups wait for each other.
Completes == <>AllFinished
=============================================================================
