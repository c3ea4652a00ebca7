----------------------------- MODULE MatchTable -----------------------------
(* match_table.c: entries for exact matches in a hash table, the others in a *)
(* list from the highest priority to the lowest.  An operation takes the     *)
(* table's mutex and is one step; it is written here as the tables that it   *)
(* leaves.  No entry is NoEntryData.                                         *)
EXTENDS Match, LinkedList, FiniteSetsExt

NoEntryData == <<>>

VARIABLES
    exact_table,       \* match -> data
    wildcards_table    \* sequence of [match, priority, data]

matchtablevars == <<exact_table, wildcards_table>>

init_match_table == exact_table = <<>> /\ wildcards_table = create_list

allocate_match_entry(match, priority, data) == [match |-> match, priority |-> priority, data |-> data]

(* Keys of the hash table are equal when the matches are strictly equal.     *)
lookup_exact_match_strict_entry(match) == {m \in DOMAIN exact_table : compare_match_strict(m, match)}

insert_exact_match_entry(match, data) ==
    IF lookup_exact_match_strict_entry(match) # {} THEN exact_table
    ELSE [m \in DOMAIN exact_table \cup {match} |-> IF m = match THEN data ELSE exact_table[m]]

update_exact_match_entry(match, data) ==
    [m \in DOMAIN exact_table |-> IF compare_match_strict(m, match) THEN data ELSE exact_table[m]]

delete_exact_match_strict_entry(match) ==
    [m \in DOMAIN exact_table \ lookup_exact_match_strict_entry(match) |-> exact_table[m]]

(* A walk down the list ends at the first entry of a lower priority.         *)
FirstLower(table, priority) ==
    Min({i \in DOMAIN table : table[i].priority < priority} \cup {Len(table) + 1})
lookup_wildcards_match_strict_entry(match, priority) ==
    {i \in 1 .. FirstLower(wildcards_table, priority) - 1 : /\ wildcards_table[i].priority = priority
                                           /\ compare_match_strict(wildcards_table[i].match, match)}

TailOnly(table, new) == append_to_tail(table, new)
PlaceOf(table, new) ==
    LET first == FirstLower(table, new.priority)
    IN  CASE first > Len(table) -> append_to_tail(table, new)
          [] first = 1 /\ table # <<>> -> insert_in_front(table, new)
          [] OTHER -> insert_before(table, table[first], new)
insert_wildcards_match_entry(match, priority, data) ==
    IF lookup_wildcards_match_strict_entry(match, priority) # {} THEN wildcards_table
    ELSE PlaceOf(wildcards_table, allocate_match_entry(match, priority, data))

update_wildcards_match_entry(match, priority, data) ==
    [i \in DOMAIN wildcards_table |->
        IF i \in lookup_wildcards_match_strict_entry(match, priority)
        THEN [wildcards_table[i] EXCEPT !.data = data] ELSE wildcards_table[i]]

delete_wildcards_match_strict_entry(match, priority) ==
    LET found == lookup_wildcards_match_strict_entry(match, priority)
    IN  IF found = {} THEN wildcards_table ELSE delete_element(wildcards_table, wildcards_table[Min(found)])

-----------------------------------------------------------------------------
(* The operations on both tables, by the kind of match.                      *)
insert_match_entry(match, priority, data) ==
    IF IsExact(match) THEN exact_table' = insert_exact_match_entry(match, data) /\ UNCHANGED wildcards_table
    ELSE wildcards_table' = insert_wildcards_match_entry(match, priority, data) /\ UNCHANGED exact_table

lookup_match_strict_entry(match, priority) ==
    LET keys == lookup_exact_match_strict_entry(match)
        found == lookup_wildcards_match_strict_entry(match, priority)
    IN  IF IsExact(match)
        THEN IF keys = {} THEN NoEntryData ELSE exact_table[CHOOSE m \in keys : TRUE]
        ELSE IF found = {} THEN NoEntryData ELSE wildcards_table[Min(found)].data

lookup_wildcards_match_entry(match) ==
    LET found == {i \in DOMAIN wildcards_table : compare_match(wildcards_table[i].match, match)}
    IN  IF found = {} THEN NoEntryData ELSE wildcards_table[Min(found)].data

lookup_match_entry(match) ==
    LET keys == lookup_exact_match_strict_entry(match)
    IN  IF keys # {} THEN exact_table[CHOOSE m \in keys : TRUE] ELSE lookup_wildcards_match_entry(match)

update_match_entry(match, priority, data) ==
    IF IsExact(match) THEN exact_table' = update_exact_match_entry(match, data) /\ UNCHANGED wildcards_table
    ELSE wildcards_table' = update_wildcards_match_entry(match, priority, data) /\ UNCHANGED exact_table

delete_match_strict_entry(match, priority) ==
    IF IsExact(match) THEN exact_table' = delete_exact_match_strict_entry(match) /\ UNCHANGED wildcards_table
    ELSE wildcards_table' = delete_wildcards_match_strict_entry(match, priority) /\ UNCHANGED exact_table

(* The entries that map_match_table calls its function for, in its order:    *)
(* the exact ones, with the priority zero they were given, and the list.     *)
map_exact_match_table(criteria) ==
    SetToSeq({allocate_match_entry(m, 0, exact_table[m]) :
                 m \in {x \in DOMAIN exact_table : compare_filter_match(criteria, x)}})
map_wildcards_match_table(criteria) ==
    SelectSeq(wildcards_table, LAMBDA e : compare_filter_match(criteria, e.match))
map_match_table(criteria) == map_exact_match_table(criteria) \o map_wildcards_match_table(criteria)
=============================================================================
