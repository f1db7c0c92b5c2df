\* Two devices and an address that may pass between them.
CONSTANTS
  m1 = m1
  m2 = m2
  a1 = a1
  a2 = a2
  b1 = b1
  Mac = {m1, m2}
  IPv4 = {a1}
  IPv6 = {}
  Pool <- SharedPool
  NoMac = NoMac
  NoIP = NoIP
SPECIFICATION NetSpec
PROPERTY PresentIfItAnswers
