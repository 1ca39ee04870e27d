------------------------------ MODULE PageCache ------------------------------
(***************************************************************************)
(* What the paged KV cache promises its users, with none of its machinery: *)
(* no free queue, no hashes, no lineage identities, no reference counts.   *)
(*                                                                         *)
(* A request has a text (its prompt, then the sampled tokens).  A page     *)
(* stores the keys and values of some prefix of a text: attention makes    *)
(* the K/V of a position a function of every token up to that position, so *)
(* the content of a page is named by the whole prefix and not only by the  *)
(* tokens inside the page.  Several requests may hold a page at once.      *)
(*                                                                         *)
(* BlockManager (module BlockManager) is shown to implement this module.   *)
(***************************************************************************)
EXTENDS Integers, Sequences, FiniteSets

CONSTANTS
    Seqs,       \* the requests
    Token,      \* the vocabulary
    Pages,      \* the physical pages of the KV cache
    Prompts,    \* the texts a request may start with
    MaxLen      \* no text grows beyond this length (max_model_len)

ASSUME PageCacheAssumption ==
    /\ MaxLen \in Nat
    /\ \A p \in Prompts : p \in Seq(Token) /\ Len(p) \in 1 .. MaxLen

VARIABLES
    text,       \* text[s]: the tokens of request s
    holders,    \* holders[p]: the requests whose block table contains p
    content     \* content[p]: the prefix whose K/V page p is to store

vars == <<text, holders, content>>

StartsWith(t, c) ==
    \* c is a prefix of the text t.
    Len(c) <= Len(t) /\ SubSeq(t, 1, Len(c)) = c

Init ==
    /\ text \in [Seqs -> Prompts]
    /\ holders = [p \in Pages |-> {}]
    /\ content = [p \in Pages |-> <<>>]

\* Faulty variant: a text grows past MaxLen.
GrowUnbounded(s, t) ==
    /\ Len(text[s]) <= MaxLen
    /\ text' = [text EXCEPT ![s] = Append(@, t)]
    /\ UNCHANGED <<holders, content>>

Grow(s, t) ==
    \* A sampled token is appended to the text of s.
    /\ Len(text[s]) < MaxLen
    /\ text' = [text EXCEPT ![s] = Append(@, t)]
    /\ UNCHANGED <<holders, content>>

Write(s, p, n) ==
    \* s takes a page nobody holds, or extends a page that only s holds, for
    \* its first n tokens.  A page another request can read is never written.
    /\ n \in 1 .. Len(text[s])
    /\ \/ holders[p] = {}
       \/ holders[p] = {s} /\ Len(content[p]) < n
    /\ holders' = [holders EXCEPT ![p] = {s}]
    /\ content' = [content EXCEPT ![p] = SubSeq(text[s], 1, n)]
    /\ UNCHANGED text

\* Faulty variant: any page with something in it will do.
ShareAny(s, p) ==
    /\ content[p] # <<>>
    /\ holders' = [holders EXCEPT ![p] = @ \cup {s}]
    /\ UNCHANGED <<text, content>>

Share(s, p) ==
    \* s reuses a page, held by others or left over from earlier requests,
    \* that stores a prefix of its own text.
    /\ s \notin holders[p]
    /\ content[p] # <<>>
    /\ StartsWith(text[s], content[p])
    /\ holders' = [holders EXCEPT ![p] = @ \cup {s}]
    /\ UNCHANGED <<text, content>>

Drop(s, p) ==
    \* s gives the page back; what it stores stays there.
    /\ s \in holders[p]
    /\ holders' = [holders EXCEPT ![p] = @ \ {s}]
    /\ UNCHANGED <<text, content>>

Next ==
    \/ \E s \in Seqs, t \in Token : Grow(s, t)
    \/ \E s \in Seqs, p \in Pages, n \in 1 .. MaxLen : Write(s, p, n)
    \/ \E s \in Seqs, p \in Pages : Share(s, p) \/ Drop(s, p)

Spec == Init /\ [][Next]_vars

-----------------------------------------------------------------------------

(* Every variable ranges over its domain; a page never stores more than    *)
(* MaxLen tokens.                                                          *)
TypeOK ==
    /\ text \in [Seqs -> Seq(Token)]
    /\ \A s \in Seqs : Len(text[s]) \in 1 .. MaxLen
    /\ holders \in [Pages -> SUBSET Seqs]
    /\ content \in [Pages -> Seq(Token)]
    /\ \A p \in Pages : Len(content[p]) \in 0 .. MaxLen

(* The promise of prefix caching: whoever holds a page finds in it the     *)
(* keys and values of a prefix of its own text, never another request's    *)
(* (block_manager.match_prefix compares hash, tokens and lineage for it).  *)
HeldPagesMatch ==
    \A p \in Pages : \A s \in holders[p] :
        content[p] # <<>> /\ StartsWith(text[s], content[p])

=============================================================================
