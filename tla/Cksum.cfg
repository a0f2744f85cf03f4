\* The checksum of every content, one byte at a time.
SPECIFICATION Spec
CONSTANTS
    Contents <- MCContents
INVARIANTS
    TypeOK
    RegisterIsRemainder
    ClientIsPosix
    SumsAgree
    DamageIsNoticed
    SizeIsNoticed
