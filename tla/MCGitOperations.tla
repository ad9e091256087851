---------------------------- MODULE MCGitOperations ----------------------------
(***************************************************************************)
(* Small repositories for model-checking GitOperations.                    *)
(***************************************************************************)
EXTENDS GitOperations, TLC

\* Commits: c0 <- c1 <- c2 is a chain, s1 a second child of c0.
\* m11 is the clean merge of s1 into c1; merging c1 into s1 conflicts.
ForkOids == {"c0", "c1", "s1", "m11"}
SmallOids == {"c0", "c1", "c2"}
Parents == {<<"c0", "c1">>, <<"c1", "c2">>, <<"c0", "c2">>, <<"c0", "s1">>,
            <<"c0", "m11">>, <<"c1", "m11">>, <<"s1", "m11">>}
AncestryOf(oids) == {t \in oids \X oids : t[1] = t[2] \/ t \in Parents}
ForkAncestry == AncestryOf(ForkOids)
SmallAncestry == AncestryOf(SmallOids)
ForkMerges == {<<"c1", "s1", "m11">>}
NoMerges == {}

ForkPack == {{}, {"c1"}}
OnePack == {{}, {"c1", "c2"}}

TwoRefs == {"main", "topic"}
MainOnly == [r \in Refs |-> IF r = "main" THEN "c0" ELSE NoOid]
TopicAhead == [r \in Refs |-> IF r = "main" THEN "c0" ELSE "c1"]
Forked == [r \in Refs |-> IF r = "main" THEN "c0" ELSE "s1"]

\* Merges differ in their names only.
MergeSymmetry == Permutations(Merges)
================================================================================
