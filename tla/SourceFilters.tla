---------------------------- MODULE SourceFilters ----------------------------
(* The list of allowed networks (service/verify/whitelist/network_source.rs): parsing and
   matching as pure operators.  An entry as configured has the form "bare" (an address),
   "cidr" or "junk" (neither); an address is its number. *)
EXTENDS Naturals, Bitwise

CONSTANT Width      \* bits of an address: [v4 |-> .., v6 |-> ..]

NotParsed == [kind |-> "none"]

(* Mutant: no special case for a prefix of 0; the shift wraps to no shift at all. *)
MutMask(w, prefix) == ((2^w - 1) * 2^((w - prefix) % w)) % 2^w

(* !0 << (w - prefix), except that a prefix of 0 would shift by the whole width. *)
Mask(w, prefix) == IF prefix = 0 THEN 0 ELSE ((2^w - 1) * 2^(w - prefix)) % 2^w

ParseCidr(t) ==
    CASE t.form = "bare" -> [kind |-> "exact", family |-> t.family, network |-> t.addr, mask |-> 0]
      [] t.form = "cidr" /\ t.prefix <= Width[t.family] ->
             [kind |-> "masked", family |-> t.family, network |-> t.addr,
              mask |-> Mask(Width[t.family], t.prefix)]
      [] OTHER -> NotParsed

(* new: what does not parse is dropped. *)
AllowedNetworks(texts) == {ParseCidr(texts[i]) : i \in DOMAIN texts} \ {NotParsed}

IsAllowed(texts, ip) ==
    \E e \in AllowedNetworks(texts) :
        /\ e.family = ip.family
        /\ IF e.kind = "exact" THEN e.network = ip.addr
           ELSE (ip.addr & e.mask) = (e.network & e.mask)

-----------------------------------------------------------------------------
(* A source passes exactly when it shares the leading bits of some well-formed entry of
   its own family: a malformed entry or an overlong prefix never widens the list. *)
NetworksExact(texts, ips) ==
    \A ip \in ips :
        IsAllowed(texts, ip) <=>
            \E i \in DOMAIN texts :
                LET t == texts[i]
                    w == Width[ip.family]
                    p == IF t.form = "bare" THEN w ELSE t.prefix IN
                /\ t.form # "junk" /\ t.family = ip.family /\ p <= w
                /\ t.addr \div 2^(w - p) = ip.addr \div 2^(w - p)
==============================================================================
