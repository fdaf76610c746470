---------------------------- MODULE HookSettings ----------------------------
(***************************************************************************)
(* The hook documents of Claude Code (settings.json) and Codex CLI         *)
(* (hooks.json) as adapters/*/installer.py change them: for each event a   *)
(* sequence of groups, each a sequence of handlers. A handler is one of    *)
(* ours, with the gateway home its command names, or somebody else's.      *)
(* A missing document, and a missing event, is one with no group.          *)
(***************************************************************************)
EXTENDS Sequences, Naturals

CONSTANTS
  Events,    \* lifecycle events WatchMyAI hooks
  Homes,     \* gateway homes
  Others     \* handlers of other tools

Targets == {"claude", "codex"}

Ours(h) == [by |-> "watchmyai", home |-> h]
Theirs(o) == [by |-> "other", name |-> o]

IsOurs(handler) == handler.by = "watchmyai"

Foreign == {Theirs(o) : o \in Others}
Handlers == {Ours(h) : h \in Homes} \cup Foreign

(* s without what is not in S.                                             *)
Filter(s, S) ==
  LET f[n \in 0..Len(s)] ==
        IF n = 0 THEN <<>> ELSE IF s[n] \in S THEN Append(f[n-1], s[n]) ELSE f[n-1]
  IN f[Len(s)]

(* The sequences in s, one after the other.                                *)
Flat(s) ==
  LET f[n \in 0..Len(s)] == IF n = 0 THEN <<>> ELSE f[n-1] \o s[n]
  IN f[Len(s)]

NoHooks == [e \in Events |-> <<>>]

HasOurs(groups) == \E i \in DOMAIN groups : \E j \in DOMAIN groups[i] : IsOurs(groups[i][j])

(* install: an event that already has a handler of ours is left alone,     *)
(* whatever home that handler names.                                       *)
Install(doc, h) ==
  [e \in Events |-> IF HasOurs(doc[e]) THEN doc[e] ELSE Append(doc[e], <<Ours(h)>>)]

Kept(group) == Filter(group, Foreign)

Strip(groups) == [i \in DOMAIN groups |-> Kept(groups[i])]

Groups == Seq(Handlers)
NotEmpty == Groups \ {<<>>}

\* Fault: a group with one of ours goes whole.
UninstallClaudeWhole(doc) ==
  [e \in Events |-> Filter(doc[e], {group \in Groups : Kept(group) = group})]

(* claude_code: a group goes only when taking ours out emptied it.         *)
UninstallClaude(doc) ==
  [e \in Events |->
     Strip(Filter(doc[e], {group \in Groups : group = <<>> \/ Kept(group) # <<>>}))]

(* codex_cli: every empty group goes, but only when something of ours did. *)
UninstallCodex(doc) ==
  IF \E e \in Events : HasOurs(doc[e])
  THEN [e \in Events |-> Filter(Strip(doc[e]), NotEmpty)]
  ELSE doc

Uninstall(target, doc) ==
  IF target = "claude" THEN UninstallClaude(doc) ELSE UninstallCodex(doc)

(* What a document says to the other tools: their handlers, in order.      *)
TheirHandlers(doc) == [e \in Events |-> Flat(Strip(doc[e]))]

Hooked(doc) == \A e \in Events : HasOurs(doc[e])
Unhooked(doc) == \A e \in Events : ~HasOurs(doc[e])
=============================================================================
