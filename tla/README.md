# Verification of treenity

TLA+ models of the treenity mesh library (C99, `src/`), checked with TLC on
small instances, with proofs checked by TLAPS.

## 1. The system

A treenity node is one `struct treenet`, driven by three kinds of calls:

- `treenet_rx()` copies a received frame into a ring buffer.  It may run in an
  interrupt or on another core.
- `treenet_poll()` does everything else: it drains the ring, answers and
  forwards frames, sends beacons, looks after the parent, ages tables, runs the
  transmit slots, delivers events and arms the wake timer.
- `treenet_send()` / `treenet_broadcast()` queue datagrams, in poll's context.

| Part | Code | Module | State |
|---|---|---|---|
| Receive ring | `core/ringbuf.c` | `RxQueue`, `RingBuf` | modelled, proved |
| Wrap-safe time | `core/util.h` | `WrapTime` | modelled |
| Parent selection | `routing/routing.c` | `Routing`, `RoutingNode` | modelled, proved |
| Neighbour table | `link/neighbor.c` | `RoutingNode` | partly |
| Event queue | `api/treenet.c` | `RoutingNode` | modelled |
| Tree formation and repair | several nodes | `Dodag` | modelled, proved |

## 2. Modules

Work in progress: the modules' header comments describe the abstraction.
Each module states its state, one action per handler and its properties.
