--------------------------- MODULE ContextProjection ---------------------------
(***************************************************************************)
(* Which messages of a transcript a model request may leave out.           *)
(*                                                                         *)
(* A message has a role and the ids of the calls it makes (assistant) or   *)
(* answers (tool); ids is empty in every other message.  A unit is an      *)
(* assistant message with the tool messages that answer it, named by the   *)
(* position of its first message.  All positions are positions of the      *)
(* whole transcript, never of a projected one.                             *)
(***************************************************************************)
EXTENDS Integers, Sequences, FiniteSets, FiniteSetsExt, SequencesExt

\* The tool messages behind position i that a tool exchange takes: as long as they
\* answer one of its calls and not all of its calls are answered.
Answering(t, i) ==
  {j \in i + 1 .. Len(t) : \A k \in i + 1 .. j :
     /\ t[k].role = "tool"
     /\ t[k].ids \cap t[i].ids # {}
     /\ ~ t[i].ids \subseteq UNION {t[l].ids : l \in i + 1 .. k - 1}}

Unit(t, i) == {i} \cup IF t[i].role = "assistant" THEN Answering(t, i) ELSE {}

\* Assistant messages, and tool messages that answer none of them.
UnitStarts(t) ==
  LET assistants == {i \in DOMAIN t : t[i].role = "assistant"}
  IN  assistants \cup {i \in DOMAIN t : /\ t[i].role = "tool"
                                        /\ \A j \in assistants : i \notin Answering(t, j)}

Complete(t, i) ==
  t[i].role = "assistant" /\ t[i].ids \subseteq UNION {t[j].ids : j \in Answering(t, i)}

\* Every user message and every incomplete unit stays.
AlwaysProtected(t) ==
  {i \in DOMAIN t : t[i].role = "user"}
    \cup UNION {Unit(t, i) : i \in {s \in UnitStarts(t) : ~Complete(t, s)}}

UnitOfLatest(t, starts) == IF starts = {} THEN {} ELSE Unit(t, Max(starts))

MutantCurrentProtected(t) == AlwaysProtected(t)

\* Of the running turn, the latest unit as well.
CurrentProtected(t) == AlwaysProtected(t) \cup UnitOfLatest(t, UnitStarts(t))

\* Of the previous turn, its last response and its latest complete exchange.
RecentHistoryProtected(t) ==
  LET responses == {i \in UnitStarts(t) : Complete(t, i) /\ t[i].ids = {}}
      exchanges == {i \in UnitStarts(t) : Complete(t, i) /\ t[i].ids # {}}
  IN  AlwaysProtected(t) \cup UnitOfLatest(t, responses) \cup UnitOfLatest(t, exchanges)

Removable(t, protected) ==
  {i \in UnitStarts(t) : Complete(t, i) /\ Unit(t, i) \cap protected = {}}

\* The messages of t at the positions S, in their order.
Kept(t, S) ==
  FoldLeftDomain(LAMBDA kept, i : IF i \in S THEN Append(kept, t[i]) ELSE kept, << >>, t)

=============================================================================
