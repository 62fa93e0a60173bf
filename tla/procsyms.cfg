SPECIFICATION Spec
CONSTANTS
  Tgids = {101, 102}
  vdso = vdso  prog = prog  lib = lib  low = low  jar = jar  bad = bad
  Images <- MCImages
  NULL = NULL
  VDSO = vdso
  elfAsMapped <- MCElf
  elfReplaced <- MCReplaced
  Addrs = {1, 3, 5, 8, 10, 11, 12, 14, 17}
  AddrMod = 32
  MaxChanges = 1
INVARIANTS HandedOutStays TranslationRight
CHECK_DEADLOCK FALSE
