---------------------------- MODULE PrefixIndex ----------------------------
(***************************************************************************)
(* The copy-on-write prefix index, src/rfsn_kv/prefix_index.py: branches   *)
(* are chains of nodes, a fork shares a prefix of its source's chain and   *)
(* adds nodes of its own, and every node counts the branches it is in.     *)
(* Page ranges, hashes and provenance are left out: the range of a common  *)
(* prefix is a function of its nodes.                                      *)
(*                                                                         *)
(* The index trusts its client: the nodes a fork shares are a prefix of    *)
(* its source and the others are fresh.  A client may also share a prefix  *)
(* by registering a branch with nodes the index already has, as the tests  *)
(* of get_common_prefix do.  It chooses the ref_count of the nodes it      *)
(* brings (1 by default; the tests of gc bring 0), and may make an index   *)
(* with nodes of no branch.  A branch id is the beginning of a packet hash *)
(* and may come back.                                                      *)
(***************************************************************************)
EXTENDS Integers, Sequences, FiniteSets, SequencesExt, Subsequences

CONSTANTS
    BranchIds,
    NodeIds,
    NoNode,        \* NodeId("empty")
    Given,         \* the ref_count that a client makes a node with
    MaxBranches    \* bound on the number of branches

PrefixIndexAssumption ==
    /\ NoNode \notin NodeIds
    /\ MaxBranches \in Nat
    /\ Given \in [NodeIds -> Nat]

VARIABLES
    branches,   \* in the order they were made
    nodes       \* the nodes of the index, with their ref_count

vars == <<branches, nodes>>

Branch == [id : BranchIds, root : NodeIds \cup {NoNode}, chain : Seq(NodeIds)]

Node == [id : NodeIds, refs : Nat]

TypeOK ==
    /\ branches \in Seq(Branch)
    /\ nodes \in Seq(Node)

-----------------------------------------------------------------------------

Known == {nodes[i].id : i \in DOMAIN nodes}

\* get_branch: the first branch with the id, which must be there.
GetBranch(id) == branches[SelectInSeq(branches, LAMBDA b : b.id = id)]

BranchKnown(id) == SelectInSeq(branches, LAMBDA b : b.id = id) # 0

\* Nodes as a client makes them.
Fresh(chain) == [i \in DOMAIN chain |-> [id |-> chain[i], refs |-> Given[chain[i]]]]

\* Chains of some nodes.
Chains(ids) ==
    {<<>>} \cup {<<n>> : n \in ids} \cup {c \in ids \X ids : c[1] # c[2]}

\* Chains of fresh nodes that a client may bring.
FreshChains == Chains(NodeIds \ Known)

\* The constructor: nodes that no branch has.
Init == branches = <<>> /\ nodes \in {Fresh(chain) : chain \in Chains(NodeIds)}

\* The beginnings of known chains that a client may bring along.
KnownPrefixes ==
    {<<>>} \cup UNION {Prefixes(branches[i].chain) : i \in DOMAIN branches}

\* register_branch adds all the nodes it is given.
RegisterBranch(id, chain) ==
    /\ Len(branches) < MaxBranches
    /\ branches' = Append(branches, [id |-> id, chain |-> chain,
                                     root |-> IF chain = <<>> THEN NoNode ELSE chain[1]])
    /\ nodes' = nodes \o Fresh(chain)

Mutant_Shared_LastOnly(kept) ==
    [i \in DOMAIN nodes |->
        IF kept # <<>> /\ nodes[i].id = Last(kept) THEN [nodes[i] EXCEPT !.refs = @ + 1]
        ELSE nodes[i]]

\* The nodes of the index once the ones in kept are shared by one more branch.
Shared(kept) ==
    [i \in DOMAIN nodes |->
        IF nodes[i].id \in ToSet(kept) THEN [nodes[i] EXCEPT !.refs = @ + 1] ELSE nodes[i]]

ForkNodes(kept, chain) == Shared(kept) \o Fresh(chain)

\* fork_branch: keep a prefix of the source, add a chain.  The root is the first
\* new node when there is one.
ForkBranch(source, id, length, chain) ==
    LET kept == SubSeq(source.chain, 1, length) IN
    /\ Len(branches) < MaxBranches
    /\ branches' = Append(branches, [id |-> id, chain |-> kept \o chain,
                                     root |-> IF chain = <<>> THEN source.root ELSE chain[1]])
    /\ nodes' = ForkNodes(kept, chain)

Referenced == UNION {ToSet(branches[i].chain) : i \in DOMAIN branches}

Mutant_Survives_SharedOnly(node) == node.refs > 1

\* gc keeps a node that is counted or referenced.
Survives(node) == node.refs > 0 \/ node.id \in Referenced

GC == nodes' = Kept(nodes, {node \in Node : Survives(node)}) /\ UNCHANGED branches

Next ==
    \/ \E id \in BranchIds, kept \in KnownPrefixes, chain \in FreshChains :
          RegisterBranch(id, kept \o chain)
    \/ \E from \in BranchIds, id \in BranchIds, chain \in FreshChains :
          /\ BranchKnown(from)
          /\ \E length \in 0..Len(GetBranch(from).chain) :
                ForkBranch(GetBranch(from), id, length, chain)
    \/ GC

Spec == Init /\ [][Next]_vars

\* get_common_prefix, as the nodes of the range it returns; <<>> for None.
CommonPrefix(a, b) ==
    LET known(chain) == Kept(chain, Known)
    IN LongestCommonPrefix({known(GetBranch(a).chain), known(GetBranch(b).chain)})

-----------------------------------------------------------------------------
(* Properties.                                                             *)

\* "Branches that share a common prefix reference the same nodes (ref_count > 1)"
\* (prefix_index.py 191-192): the first branch with a node takes it with the
\* ref_count it was given and every other one adds 1, after any sequence of
\* registrations, forks of forks and collections; so that with the default of 1
\* it is the number of branches with the node in their chain.  Not for a node
\* that is there twice: register_branch adds another copy of a node it is given
\* again, and counts nothing.
RefCountsExact ==
    \A i \in DOMAIN nodes :
        LET node == nodes[i]
            users == Cardinality({b \in DOMAIN branches : node.id \in ToSet(branches[b].chain)})
        IN (\A j \in DOMAIN nodes : nodes[j].id = node.id => i = j) =>
              node.refs = Given[node.id] + (IF users = 0 THEN 0 ELSE users - 1)

\* All that two branches share is their common prefix: what get_common_prefix
\* reports can be reused and nothing after it is in both.
SharedIsCommonPrefix ==
    \A a, b \in {branches[i].id : i \in DOMAIN branches} :
        ToSet(CommonPrefix(a, b)) = ToSet(GetBranch(a).chain) \cap ToSet(GetBranch(b).chain)
=============================================================================
