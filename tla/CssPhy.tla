------------------------------- MODULE CssPhy -------------------------------
(***************************************************************************)
(* The tables of python/css_constants.py and the frame sizes that          *)
(* physical_layer of python/css_phy.py computes from them, for the rates   *)
(* 1 Mbps and 250 kbps (slow) and payloads of n bytes.  The shapes of the  *)
(* chirps themselves are left out: of a chirp sequence the model keeps     *)
(* where its four subchirps lie.                                           *)
(***************************************************************************)
EXTENDS Integers, Sequences

max_phy_packetsize_bytes == 127

\* What the constructor makes of its arguments.
phy_packetsize_bytes(n) == IF n <= max_phy_packetsize_bytes THEN n ELSE max_phy_packetsize_bytes
chirp_number(c) == IF c \in 1 .. 4 THEN c ELSE 1

bits_per_symbol(slow) == IF slow THEN 6 ELSE 3
len_cw(slow) == IF slow THEN 32 ELSE 4

Bit(x, b) == (x \div 2 ^ b) % 2

\* Both tables are Walsh functions ...
Walsh(x, j) ==
    LET common == Bit(x, 0) * Bit(j, 0) + Bit(x, 1) * Bit(j, 1) + Bit(x, 2) * Bit(j, 2)
                    + Bit(x, 3) * Bit(j, 3) + Bit(x, 4) * Bit(j, 4)
    IN  IF common % 2 = 0 THEN 1 ELSE -1

\* ... followed by their negatives: chip j of codeword x.
codewords(slow, x, j) == IF x < len_cw(slow) THEN Walsh(x, j) ELSE -Walsh(x - len_cw(slow), j)

\* 64 chips in groups of four: the groups at even places stay, the others
\* change places with one of the other half.
intlv_seq(i) ==
    LET group == i \div 4
        from == IF group % 2 = 0 THEN group ELSE 12 - group + 2 * (group % 4)
    IN  4 * from + (i % 4)

preamble(slow) == [i \in 1 .. (IF slow THEN 80 ELSE 32) |-> 1]
SFD(slow) ==
    IF slow THEN <<-1, 1, 1, 1, 1, -1, 1, -1, -1, -1, 1, -1, -1, -1, 1, 1>>
    ELSE <<-1, 1, 1, 1, -1, 1, -1, -1, 1, -1, -1, 1, 1, 1, -1, -1>>
len_hdrs(slow) == IF slow THEN 96 ELSE 48

\* Seven bits of length and five zeros.
gen_PHR(n) == [i \in 1 .. 12 |-> IF i <= 7 THEN Bit(n, 7 - i) ELSE 0]

RoundedPastOne(slow, n) ==      \* mutant: ceil(4 n / 3 + 1 / 2)
    IF slow THEN 24 * ((2 * n + 8) \div 6) - 12 - 2 * n
    ELSE 6 * ((8 * n + 8) \div 6 + 2) - 8 * n - 12

\* ceil(n / 3 + 1 / 2) and ceil(4 n / 3) + 2.
calc_padded_zeros(slow, n) ==
    IF slow THEN 24 * ((2 * n + 8) \div 6) - 12 - 2 * n
    ELSE 6 * ((4 * n + 2) \div 3 + 2) - 8 * n - 12

\* Bits over two rails, and over the code rate 3/16 or 3/4.
calc_nsym_frame(slow, n) ==
    LET nbits_payload == 12 + 8 * n + calc_padded_zeros(slow, n)
    IN  len_hdrs(slow) + (nbits_payload * (IF slow THEN 8 ELSE 2)) \div 3

n_chirp == 192
n_sub == 38
n_tau(chirp) == <<15, 10, 5, 0>>[chirp]
time_gap_1(chirp) == n_chirp - 2 * n_tau(chirp) - 4 * n_sub
time_gap_2(chirp) == n_chirp + 2 * n_tau(chirp) - 4 * n_sub

calc_nsamp_frame(slow, n, chirp) ==
    LET nchirps == calc_nsym_frame(slow, n) \div 4
    IN  IF nchirps % 2 = 0 THEN nchirps * n_chirp
        ELSE (nchirps - 1) * n_chirp + 4 * n_sub + time_gap_1(chirp)
=============================================================================
