\* iptables, where the setup may fail.
CONSTANTS
  web = web
  shell = shell
  dns = dns
  Forwarded = {}
  Local = {shell}
  Protected = {}
  Tcp = {}
  Configs <- LocalOnly
  Faults <- OnlyFailures
  Packet <- MCPacket
  MaxQueueLen = 1
  MaxLeft = 5
SPECIFICATION Spec
INVARIANTS RSetTellsRules
