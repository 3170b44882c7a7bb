----------------------------- MODULE ContentParts -----------------------------
(***************************************************************************)
(* The content rules: the exceptions to them, and the trie they are        *)
(* compiled to.  The parts share no state here: what a sync compiles are   *)
(* any lines of a list.                                                    *)
(***************************************************************************)
CONSTANTS
    Name, PublicSuffix,
    SourceId, Category, Id, MaxEntries,
    RuleSources, Sections, MatchMode, MaxLines

VARIABLES
    snapshot, loaded,
    compiled, staging, section, source, staged, offered

E == INSTANCE AdblockExceptions

T == INSTANCE RuleTrie WITH Sources <- RuleSources, trie <- compiled

(* AdblockExceptions!LiftsExactly: an accepted exception can apply, and it  *)
(* lifts the rules it names.                                                *)
LiftsExactly == E!LiftsExactly

(* RuleTrie!RulesDecide: the deepest rule that covers a name answers, the   *)
(* cache file keeps every decision, and a hit counted as still blocked is   *)
(* blocked after the flip to exact mode.                                    *)
RulesDecide == T!RulesDecide
=============================================================================
