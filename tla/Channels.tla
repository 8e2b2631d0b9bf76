------------------------------ MODULE Channels ------------------------------
(***************************************************************************)
(* One shared channel (channels.rs): a producer claims it, renews its      *)
(* lease and publishes frames; whoever reads it sees the latest frame,     *)
(* fading to a default once frames stop coming.                            *)
(*                                                                         *)
(* Frames travel best effort (lib.rs): any recent frame may arrive now,    *)
(* late, again, or never.  A frame is known by its count since its         *)
(* producer began; on the air it has only the low bits of that count.      *)
(***************************************************************************)
EXTENDS Integers

CONSTANTS
  Producer,
  Nobody,       \* no producer
  Priority,     \* the priorities claims are made with
  Lease,        \* how long a claim holds the channel
  Hold,         \* how long a frame stays fresh; 0 means for ever
  SeqSpace,     \* how many sequence numbers there are, 2^16 in the code
  Delay,        \* a frame this many frames older than the newest is lost
  FirstFrame, LastFrame   \* bound: a producer counts its frames between these

(* Up to half of the numbers count as ahead of the last one. *)
Half == (SeqSpace - 1) \div 2

ASSUME ChannelAssumption ==
  /\ Nobody \notin Producer
  /\ Priority \subseteq Int
  /\ Lease \in Nat /\ Hold \in Nat /\ Delay \in Nat
  /\ SeqSpace \in Nat /\ SeqSpace >= 4
  /\ Delay <= SeqSpace - Half
  /\ FirstFrame \in Nat /\ LastFrame \in Nat /\ FirstFrame <= LastFrame

VARIABLES
  owner,    \* the owner's name, priority, time left and latest sequence
  value,    \* the frame shown
  age,      \* how long ago it came, up to twice Hold
  sent,     \* the newest frame of each producer
  up        \* the producers that run

vars == <<owner, value, age, sent, up>>

NoSeq == -1
Seqs == 0..(SeqSpace - 1)
SeqNo(n) == n % SeqSpace

Frames == [from : Producer, n : Nat]
Default == [from |-> Nobody, n |-> 0]

Owner == [producer : Producer, priority : Priority, left : 0..Lease,
          last : Seqs \cup {NoSeq}]
Unowned == [producer |-> Nobody, priority |-> 0, left |-> 0, last |-> NoSeq]

Owns(p) == owner.producer = p

-----------------------------------------------------------------------------
(* Variant: the numbers are compared as they are. *)
IsNewerPlain(seq, last) == seq > last

IsNewer(seq, last) == seq # last /\ (seq - last) % SeqSpace < Half

(* Channel::take: the frame shown, and its age, are kept. *)
Take(p, priority) ==
  owner' = [producer |-> p, priority |-> priority, left |-> Lease, last |-> NoSeq]

(* Variant: an owner that renews its claim starts over. *)
RenewAfresh(priority) == Take(owner.producer, priority)

Renew(priority) ==
  owner' = [owner EXCEPT !.priority = priority, !.left = Lease]

ChannelInit ==
  /\ owner = Unowned
  /\ value = Default
  /\ age = 2 * Hold
  /\ sent = [p \in Producer |-> FirstFrame]
  /\ up = Producer

(* Variant: whoever takes the channel makes its value fresh. *)
ClaimFreshens(p, priority) ==
  /\ p \in up
  /\ \/ Owns(Nobody) /\ Take(p, priority) /\ age' = 0
     \/ Owns(p) /\ Renew(priority) /\ UNCHANGED age
     \/ /\ owner.producer \notin {p, Nobody}
        /\ priority > owner.priority
        /\ Take(p, priority)
        /\ age' = 0
  /\ UNCHANGED <<value, sent, up>>

(* A claim: of a free channel, of one's own, or over a lesser priority.    *)
(* Whether the lease has lapsed is not asked.                              *)
Claim(p, priority) ==
  /\ p \in up
  /\ \/ Owns(Nobody) /\ Take(p, priority)
     \/ Owns(p) /\ Renew(priority)
     \/ /\ owner.producer \notin {p, Nobody}
        /\ priority > owner.priority
        /\ Take(p, priority)
  /\ UNCHANGED <<value, age, sent, up>>

Release(p) ==
  /\ p \in up /\ Owns(p)
  /\ owner' = Unowned
  /\ UNCHANGED <<value, age, sent, up>>

(* A producer sends its next frame, whoever owns the channel. *)
Send(p) ==
  /\ p \in up /\ sent[p] < LastFrame
  /\ sent' = [sent EXCEPT ![p] = @ + 1]
  /\ UNCHANGED <<owner, value, age, up>>

(* A frame arrives. *)
Arrives(p, n) == n \in FirstFrame..sent[p] /\ n >= sent[p] - Delay

Publish(p, n) ==
  /\ Arrives(p, n)
  /\ Owns(p)
  /\ owner.last = NoSeq \/ IsNewer(SeqNo(n), owner.last)
  /\ owner' = [owner EXCEPT !.last = SeqNo(n)]
  /\ value' = [from |-> p, n |-> n]
  /\ age' = 0
  /\ UNCHANGED <<sent, up>>

(* Variant: only an owner that has published is held to its lease. *)
LapsedOnceHeard == owner.left = 0 /\ owner.last # NoSeq

Lapsed == owner.left = 0

Advance ==
  /\ ~Owns(Nobody) /\ Lapsed
  /\ owner' = Unowned
  /\ UNCHANGED <<value, age, sent, up>>

Lower(t) == IF t = 0 THEN 0 ELSE t - 1

Elapse ==
  /\ owner' = [owner EXCEPT !.left = Lower(@)]
  /\ age' = IF age < 2 * Hold THEN age + 1 ELSE age
  /\ UNCHANGED <<value, sent, up>>

(* The declaration of the channel is edited: it starts from its default. *)
Declare ==
  /\ owner' = Unowned
  /\ value' = Default
  /\ age' = 2 * Hold
  /\ UNCHANGED <<sent, up>>

Crash(p) == p \in up /\ up' = up \ {p} /\ UNCHANGED <<owner, value, age, sent>>

ChannelNext ==
  \/ \E p \in Producer, priority \in Priority : Claim(p, priority)
  \/ \E p \in Producer : Release(p) \/ Send(p) \/ Crash(p)
  \/ \E p \in Producer : \E n \in FirstFrame..sent[p] : Publish(p, n)
  \/ Advance
  \/ Elapse
  \/ Declare

ChannelSpec ==
  ChannelInit /\ [][ChannelNext]_vars /\ WF_vars(Advance) /\ WF_vars(Elapse)

-----------------------------------------------------------------------------
(* What an effect reads: the frame, a mix with the default, the default.   *)
Level ==
  IF Hold = 0 \/ age <= Hold THEN 2 ELSE IF age < 2 * Hold THEN 1 ELSE 0

(* Types; the number kept for the owner is that of the frame shown, which  *)
(* is the owner's own and was sent.                                        *)
ChannelTypeOK ==
  /\ owner \in Owner \cup {Unowned}
  /\ value \in Frames \cup {Default}
  /\ age \in 0..(2 * Hold)
  /\ sent \in [Producer -> FirstFrame..LastFrame]
  /\ up \subseteq Producer
  /\ owner.last # NoSeq => /\ value \in [from : {owner.producer}, n : Nat]
                           /\ value.n <= sent[value.from]
                           /\ owner.last = SeqNo(value.n)

(* As long as one producer keeps the channel, its frames are shown in the  *)
(* order they were sent: a late or repeated frame undoes nothing, across   *)
(* renewals and the wrap of the sequence number.                           *)
LatestWins ==
  [][owner.producer = owner'.producer /\ owner.last # NoSeq
       => owner'.last # NoSeq /\ value'.n >= value.n]_vars

(* An owner is never stuck: unless half of the numbers went by without one *)
(* frame getting through, its newest frame is taken when it arrives.       *)
FreshIsTaken ==
  owner.last # NoSeq
    => LET p == owner.producer
       IN  sent[p] - value.n \in 1..(Half - 1)
             => IsNewer(SeqNo(sent[p]), owner.last)

(* Only a frame that is taken makes the reading fresh again: no claim,     *)
(* renewal, handover or refused frame keeps a dead producer's value up.    *)
OnlyFramesFreshen ==
  [][Level' > Level => /\ owner'.producer = owner.producer
                       /\ owner'.last \notin {NoSeq, owner.last}]_vars

(* A producer that crashed lets go of the channel, whenever it crashed. *)
CrashedLetsGo == \A p \in Producer : p \notin up ~> ~Owns(p)
=============================================================================
