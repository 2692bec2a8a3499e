------------------------------- MODULE LrmMsg -------------------------------
(***************************************************************************)
(* src/lib/lrm/lrm_msg.c: the string-table helpers copy_str_table(),     *)
(* merge_str_tables() (which merges the parameters of a new operation     *)
(* with the stored ones) and free_str_table(), and the create_lrm_*msg    *)
(* builders of the LRM's IPC messages.  A GHashTable of strings is a      *)
(* function from a finite set of keys to values; a NULL table or string  *)
(* is the model value Null.  The foreach loops visit the keys in hash     *)
(* order; FoldSet fixes one order.  No other order can give another       *)
(* table: the keys of old are distinct, so merge_pair() finds a key of    *)
(* old in merged only when new put it there.  A behaviour makes one merge *)
(* of every pair of input tables, frees its result, and makes one builder *)
(* call with any arguments.                                               *)
(***************************************************************************)
EXTENDS SequencesExt, TLC

CONSTANTS
  Keys,       \* key strings
  MetaKeys,   \* the keys with strncmp(key, "CRM_meta_", 9) == 0
  Vals,       \* value strings (never NULL: they come from ha_msg fields)
  Null        \* a NULL GHashTable*

ASSUME MetaKeys \subseteq Keys /\ Null \notin Vals

\* Every table over the keys.
Table == UNION {[D -> Vals] : D \in SUBSET Keys}

\* g_hash_table_new(): the empty table.
EmptyTable == [k \in {} |-> Null]

\* g_hash_table_insert() on a table without destroy functions: the value of
\* an existing key is replaced, a new key is added.
Insert(t, k, v) == (k :> v) @@ t

\* Mutation of copy_pair: the key string duplicated as the value.
CopyPairKeyAsValue(k, t, src) == Insert(t, k, k)

\* copy_pair(): insert duplicates of one pair of src into the target.
CopyPair(k, t, src) == Insert(t, k, src[k])

\* copy_str_table(): NULL stays NULL, otherwise a fresh table into which
\* g_hash_table_foreach() copies every pair.
CopyStrTable(src) ==
  IF src = Null THEN Null
  ELSE FoldSet(LAMBDA k, t : CopyPair(k, t, src), EmptyTable, DOMAIN src)

\* Mutation of merge_pair: the lookup test dropped, old overrides new.
MergePairOverride(k, merged, old) ==
  IF k \in MetaKeys THEN merged ELSE Insert(merged, k, old[k])

\* merge_pair(): a pair of old is added unless merged already has the key
\* (g_hash_table_lookup() returns its non-NULL value) or the key is a
\* CRM_meta_ attribute.
MergePair(k, merged, old) ==
  IF k \in DOMAIN merged \/ k \in MetaKeys THEN merged
  ELSE Insert(merged, k, old[k])

\* merge_str_tables(): a NULL side yields a copy of the other; otherwise a
\* copy of new into which merge_pair() is applied to every pair of old.
MergeStrTables(old, new) ==
  CASE old = Null -> CopyStrTable(new)
    [] new = Null -> CopyStrTable(old)
    [] OTHER -> FoldSet(LAMBDA k, m : MergePair(k, m, old),
                        CopyStrTable(new), DOMAIN old)

-----------------------------------------------------------------------------
(* The message builders.  An ha_msg is the set of its field names (the    *)
(* F_LRM_* names); a string argument is NULL, "" or a non-empty string,   *)
(* a table argument NULL or a table.  ha_msg_new() and every ha_msg_add   *)
(* (cl_msg.c, outside this file) may fail; an add to the NULL message of  *)
(* a failed ha_msg_new() fails too, so a builder's outcome is the number  *)
(* of adds that succeed before the first failure.                          *)

Strs == {Null, "", "s"}

\* The builders and the arguments each takes.
Calls ==
  {[b |-> "lrm_msg", msg |-> m] : m \in Strs}
  \cup {[b |-> "reg", app |-> a] : a \in Strs}
  \cup {[b |-> "addrsc", rid |-> r, class |-> c, type |-> t, provider |-> p,
         params |-> q] :
          r, c, t, p \in {Null, "s"}, q \in {Null, "table"}}
  \cup {[b |-> "rsc", rid |-> r, msg |-> m] : r \in {Null, "s"}, m \in Strs}
  \cup {[b |-> "ret"]}

MsgFields == {"F_LRM_TYPE", "F_LRM_APP", "F_LRM_PID", "F_LRM_GID", "F_LRM_UID",
              "F_LRM_RID", "F_LRM_RCLASS", "F_LRM_RTYPE", "F_LRM_RPROVIDER",
              "F_LRM_PARAM", "F_LRM_RET"}

\* Each builder as its argument check before ha_msg_new() (ok) and the
\* fields it adds, in the order of its || chain and its optional adds.
create_lrm_msg(x) == [ok |-> x.msg \notin {Null, ""}, adds |-> <<"F_LRM_TYPE">>]

create_lrm_reg_msg(x) ==
  [ok |-> x.app \notin {Null, ""},
   adds |-> <<"F_LRM_TYPE", "F_LRM_APP", "F_LRM_PID", "F_LRM_GID", "F_LRM_UID">>]

\* The provider and the parameter table are added only when given.
create_lrm_addrsc_msg(x) ==
  [ok |-> Null \notin {x.rid, x.class, x.type},
   adds |-> <<"F_LRM_TYPE", "F_LRM_RID", "F_LRM_RCLASS", "F_LRM_RTYPE">>
            \o (IF x.provider # Null THEN <<"F_LRM_RPROVIDER">> ELSE <<>>)
            \o (IF x.params # Null THEN <<"F_LRM_PARAM">> ELSE <<>>)]

create_lrm_rsc_msg(x) ==
  [ok |-> x.rid # Null /\ x.msg \notin {Null, ""},
   adds |-> <<"F_LRM_TYPE", "F_LRM_RID">>]

\* No argument check: the int arguments need none.
create_lrm_ret(x) == [ok |-> TRUE, adds |-> <<"F_LRM_TYPE", "F_LRM_RET">>]

Builder(x) ==
  CASE x.b = "lrm_msg" -> create_lrm_msg(x)
    [] x.b = "reg"     -> create_lrm_reg_msg(x)
    [] x.b = "addrsc"  -> create_lrm_addrsc_msg(x)
    [] x.b = "rsc"     -> create_lrm_rsc_msg(x)
    [] x.b = "ret"     -> create_lrm_ret(x)

Adds(x) == Builder(x).adds

\* What the builder returns when the first k adds succeed: a failed add
\* runs ha_msg_del(msg), LOG_BASIC_ERROR and return NULL.
Built(x, k) ==
  IF ~Builder(x).ok \/ k < Len(Adds(x)) THEN Null ELSE ToSet(Adds(x))

\* No builder was called yet.
NoCall == [b |-> "none"]

VARIABLES
  oldTable,   \* the old argument
  newTable,   \* the new argument
  merged,     \* the returned table
  called,     \* merge_str_tables() has returned
  freed,      \* free_str_table() was called on the merged table
  bcall,      \* the builder call made, or NoCall
  built       \* the message it returned: a set of fields, or Null

vars == <<oldTable, newTable, merged, called, freed, bcall, built>>

Init ==
  /\ oldTable \in Table \cup {Null}
  /\ newTable \in Table \cup {Null}
  /\ merged = Null
  /\ called = FALSE
  /\ freed = FALSE
  /\ bcall = NoCall
  /\ built = Null

Merge ==
  /\ ~called
  /\ merged' = MergeStrTables(oldTable, newTable)
  /\ called' = TRUE
  /\ UNCHANGED <<oldTable, newTable, freed, bcall, built>>

\* free_str_table() on the merged table: every pair is freed, then the
\* table.  A NULL table (merge_str_tables(NULL, NULL)) is passed to glib
\* unchecked, whose g_return_if_fail guards only log a warning.
FreeStrTable ==
  /\ called /\ ~freed
  /\ freed' = TRUE
  /\ UNCHANGED <<oldTable, newTable, merged, called, bcall, built>>

\* One builder call, with any arguments, k adds succeeding.
Build ==
  /\ bcall = NoCall
  /\ \E x \in Calls, k \in 0..5 :
       /\ k <= Len(Adds(x))
       /\ bcall' = x
       /\ built' = Built(x, k)
  /\ UNCHANGED <<oldTable, newTable, merged, called, freed>>

Returned == called /\ freed /\ bcall # NoCall /\ UNCHANGED vars

Next == Merge \/ FreeStrTable \/ Build \/ Returned

Spec == Init /\ [][Next]_vars /\ WF_vars(Merge)

-----------------------------------------------------------------------------
TypeOK ==
  /\ oldTable \in Table \cup {Null} /\ newTable \in Table \cup {Null}
  /\ merged \in Table \cup {Null}
  /\ called \in BOOLEAN
  /\ freed \in BOOLEAN
  /\ bcall \in Calls \cup {NoCall}
  /\ built \in SUBSET MsgFields \cup {Null}

\* The merge that merge_pair()'s comment "Never repopulate CRM meta
\* attributes" (line 68) and the 1.26 change log describe for a given new
\* table: every pair of new, plus the pairs of old whose key new lacks and
\* that are no CRM_meta_ attributes.  A NULL old contributes nothing.
ReferenceMerge(old, new) ==
  new @@ [k \in (IF old = Null THEN {} ELSE DOMAIN old) \ MetaKeys |-> old[k]]

\* merge_str_tables(old, new) with a non-NULL new returns the reference
\* merge: new's values win, no CRM_meta_ attribute of old comes back, and
\* every other pair of old is kept.  (With new NULL the code returns a
\* copy of old, CRM_meta_ pairs included: see the README.)
MergeMatchesReference ==
  called /\ newTable # Null => merged = ReferenceMerge(oldTable, newTable)
=============================================================================
