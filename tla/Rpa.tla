-------------------------------- MODULE Rpa --------------------------------
(***************************************************************************)
(* le_impl::GenerateRpa (gd/hci/acl_manager/le_impl.h): a resolvable      *)
(* private address from an IRK and the random bytes prand.  An address is *)
(* the tuple of its six bytes, address[0] first; prand is the three bytes *)
(* the function reads of the eight os::GenerateRandom<8> returns.         *)
(*                                                                         *)
(* AES-128 is not computed: a byte of the cipher text is the term that    *)
(* names it, so two addresses agree on their hash exactly when they were  *)
(* made from the same key and the same (masked) prand.                    *)
(***************************************************************************)
EXTENDS Naturals, Sequences
LOCAL INSTANCE Bitwise

BLE_RESOLVE_ADDR_MSB == 64    \* 0x40: bits 7..6 are 01, resolvable random
BLE_RESOLVE_ADDR_MASK == 192  \* 0xc0

\* ~x as the uint8_t the compound assignment stores.
Complement8(x) == 255 - x

\* Byte i of crypto_toolbox::aes_128(irk, prand.data(), 3).
Aes128Byte(irk, r, i) == [aes_128 |-> r, irk |-> irk, byte |-> i]

\* The address: the hash in bytes 0..2, the masked prand in bytes 3..5.
RpaFrom(irk, r) ==
  << Aes128Byte(irk, r, 0), Aes128Byte(irk, r, 1), Aes128Byte(irk, r, 2),
     r[1], r[2], r[3] >>

\* Mutant: the top bits are set but the mask that clears them is missing.
GenerateRpaNoMask(irk, prand) ==
  RpaFrom(irk, <<prand[1], prand[2], prand[3] | BLE_RESOLVE_ADDR_MSB>>)

\* prand[2] &= ~MASK; prand[2] |= MSB; then hash and copy.
GenerateRpa(irk, prand) ==
  LET top == (prand[3] & Complement8(BLE_RESOLVE_ADDR_MASK)) | BLE_RESOLVE_ADDR_MSB
  IN RpaFrom(irk, <<prand[1], prand[2], top>>)

\* Reference definition (Core specification, Vol 6 Part B 1.3.2.2): the two
\* most significant bits of the most significant byte are 0 and 1.
IsResolvablePrivate(addr) == addr[6] \div 64 = 1

=============================================================================
