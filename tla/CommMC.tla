-------------------------------- MODULE CommMC --------------------------------
\* The handshake with the bytes of a SYNC: COMM_MAGIC, MSG_SYNC, seq, pos and
\* payload_len, little-endian and packed, and their CRC-32.
EXTENDS Comm

SyncMessage ==
  <<55, 19, 254, 202>> \o <<3>> \o <<0, 0>> \o <<0, 0>> \o <<0, 0, 0, 0>> \o <<62, 124, 93, 131>>
=============================================================================
