# Formal models of daily-projects

`daily-projects` is a collection of some hundred small programs in many
languages. They share no code and never talk to each other: every dated folder
is a system of its own, with its own `LEARNING.md`. This development therefore
models programs, not one architecture. It covers those whose behaviour is
hardest to test, a storage engine that may crash between any two file
operations, three network servers with different concurrency designs, a broker
whose slots and descriptors are reused while events are pending, a download
scheduler with unreliable peers, and every program of the collection that is
written in Rust and keeps state, from threaded servers to a processor core.

Contents: [inventory](#inventory) · [modules](#modules) · [runs](#runs) ·
[fairness](#fairness) · [proofs](#proofs) ·
[disagreements](#disagreements-between-code-and-documentation) ·
[what is left out](#what-is-left-out) · [plan](#plan)

To check a run: `tlc -workers 2 -config MCPrograms.cfg MCPrograms`. To check
the proofs of a module: `tlapm EpollServerProofs.tla` (from half a minute to
four minutes each, seven for `WebProofs`).
`PROJECT.json` lists the runs, the source lines behind every definition, the
hazards, and one mutation of the code per property that the property detects.

## Inventory

### The programs modelled so far

**LSM key-value store** (`2026-09-02-c-lsm-kv-store`, C). State: the log
`wal.log`, the files `NNNNNN.sst`, and in memory the memtable, the list of open
tables and the next id. Operations: `kv_open`, `kv_put`, `kv_del`, `kv_get`,
`kv_flush`, `kv_compact`, `kv_close`; the first ones call the flush when the
memtable is full and the flush calls the compaction when there are enough
tables. One process, no threads; what is hard is that it may die between, or
inside, any two file operations, and that errors leave files behind. Correct
means: a restart reads the map of the acknowledged writes, and where it cannot
read (a torn table makes `kv_open` fail) they are still on disk.

**TCP chat** (`2026-08-12-go-tcp-chat`, Go). State: the hub (members, nickname
table, one mutex), and per connection a handler goroutine, a writer goroutine
and a bounded channel between them. Operations: join, rename, broadcast,
whisper, list, leave, and the clean-up at the end of a connection. Hard: two
goroutines write to one socket, channels are closed by one goroutine and
written by others, peers stop reading, a handler panics. Correct means: unique nicknames, one
order of lines for everybody, no send on a closed channel, no goroutine leaked
once its peer is gone.

**MQTT broker** (`2026-10-21-c-mqtt-broker`, C). State: a table of client
slots, each with a descriptor, a session and an output queue. Operations: one
round of the `poll()` loop, and one handler per packet type. Hard: a handler
may close other slots that still wait for their turn in the same round, the
kernel reuses descriptor numbers, sends are partial, clients fall silent.
Correct means: one session per client id, each matching session gets each
publication once and in order, silent clients are dropped and slow ones stall
nobody. The codec (`mqtt.c`) cuts packets out of a byte stream and matches
topics against filters; correct means it agrees with a declarative definition
and reads nothing past the end.

**Concurrent servers** (`2026-09-24-c-concurrent-servers`, C). One line
protocol served three ways. The sequential and threaded servers share a
blocking loop; the epoll server keeps two tables indexed by descriptor
(connections, timers) and handles batches of events. Hard: descriptors freed
and reused within a batch, timers that outlive their connection, partial sends,
`QUIT` with output pending. Correct means: a client gets whole replies to its
own lines only, and on the threaded server nobody waits for anybody else.

**BitTorrent client** (`2026-08-22-go-bittorrent-client`, Go). State: a work
channel, a results channel, one worker goroutine per peer. Hard: peers that
lie, stall or vanish; the channel is closed by the collector while workers may
still want to send on it. Correct means: no piece lost or counted twice, no
panic, only verified data, and the download returns when it can.

**Item microservice** (`2026-08-13-rust-microservice`, Rust). State: a map of
items behind a lock and an atomic id counter beside it; one thread per
connection, one request each. Operations: the routes for list, read, create,
replace and delete. Hard: create and replace touch counter and map in two
steps, the counter has a width. Correct means: a created item gets an id that
nobody has, and no request destroys what another one stored.

**WebSocket chat** (`2026-09-05-rust-websocket-chat`, Rust). State: a registry
of the clients' write halves behind a mutex, a thread per client. Operations:
handshake, text, ping, close, broadcast, clean-up. Hard: frames are written in
pieces by several threads, lengths take one of three forms, peers go away in
the middle of a broadcast or never read, a thread may panic. Correct means:
every client reads the same texts, whole and in one order, and a session that
has ended leaves the registry.

**Notes board** (`2026-10-29-rust-simple-web-app`, Rust). State: a list behind a
mutex, and pages in browsers that name its entries by position. Operations:
show, add (with form decoding, trimming and truncation), delete. Hard: a page
is stale as soon as somebody else posts. Correct means: the note that a button
was shown for is the one that goes, and a note is what was typed.

**Todo page** (`2026-09-21-rust-wasm-todo`, Rust/WASM). State: `AppState` in
each tab and one text in `localStorage` that all tabs overwrite. Operations:
add, toggle, remove, clear, filter, load, save. Hard: the text is
escaped, split and parsed again; ids must survive a reload. Correct means: what
a tab holds is what a reload gives back, and an id names one todo.

**Text editor** (`2026-08-04-rust-text-editor`, Rust). State: rows, cursor,
scroll offset, a prompt for saving or searching, the quit counter, the file.
Hard: positions at the end of rows and of the document, saves that fail,
searches over a lower-case copy of the row. Correct means: rows and cursor
together behave as one text with one point in it, and nothing unsaved is lost
without the presses of Ctrl-Q that it takes.

**6502 core** (`2026-10-12-rust-nes-6502`, Rust). State: registers, flags,
memory. Operations: one per instruction and addressing mode, and `run`. Hard:
carry, overflow and borrow at byte boundaries, page wrap in the zero page and
the indirect jump, wrap of the stack. Correct means: flags say what the
arithmetic did, and what is pushed comes back.

**Roguelike** (`2026-10-02-rust-roguelike`, Rust). State: map, player,
monsters. Operations: the attempts of `generate`, the player's move and the
monsters' answer to it. Hard: rooms may not overlap yet must be joined, and
monsters move one after the other. Correct means: every room can be reached
and no two living actors stand on one tile.

**Linked list** (`2026-07-22-rust-linked-list`, Rust). State: boxes on the
heap and the link to the first. Operations: push, pop, peek, the three
iterators, drop. Hard: ownership moves through `take`, and dropping the naive way
recurses once per box. Correct means: every box has one owner, none leaks,
iteration yields the elements in order, drops do not nest.

**Browser engine** (`2026-08-26-rust-browser-engine`, Rust). A pipeline: HTML
parser (position in the input, recursion), selectors and cascade, block layout,
painting onto a canvas. Hard: tags closed in the wrong order, comments and
input that ends early; ties in the cascade; over-constrained widths; boxes
cut off by the canvas. Correct means: each stage agrees with a declarative
definition of its result.

**Neuroevolution** (`2026-09-13-rust-neuroevolution`, Rust). State: animals
with brains, food, the age of the generation. Operations: the tick, and at the
end of a generation selection, crossover, mutation. Hard: a brain is flattened
to a chromosome and built again, in an order that two functions must agree
on. Correct means: a weight never changes its place in the network, and the
population's size and statistics are those of the generation that ended.

### All programs

| Program | Status | What is modelled, or why it is not |
|---|---|---|
| LSM key-value store (C): store, write-ahead log, sorted tables (`2026-09-02-c-lsm-kv-store`) | modelled | Every operation of store.c, with its WAL and sstable calls as separate steps, process crashes at every step, torn records, and every file operation failing, reported or not. memtable.c and record.c are modelled by what they compute (a sorted array as a function, a record as a value that is whole or torn). main.c, the command line, is input and output only. |
| TCP chat (Go): hub and connection handlers (`2026-08-12-go-tcp-chat`) | modelled | The hub with its mutex, one handler and one writer goroutine per connection, the bounded Send channels, nickname negotiation, all commands, and the clean-up at the end of a connection, also the one a panicking handler runs before the process ends. main.go only starts the listener. |
| MQTT broker (C): poll loop, sessions, subscriptions (`2026-10-21-c-mqtt-broker`) | modelled | The poll loop with its client table, descriptor reuse, keepalive, output queues and every packet handler. Failing allocations are left out. |
| MQTT broker (C): packet framing and topic filters (`2026-10-21-c-mqtt-broker`) | partly | Variable-length integers, framing over a byte stream, filter validation and topic matching are modelled. The field parsers of CONNECT, PUBLISH and SUBSCRIBE (length checks on a complete packet) are not. |
| Concurrent servers (C): epoll server (`2026-09-24-c-concurrent-servers`) | modelled | The event loop with its connection and timer tables, batches of events, partial sends, timers for SLEEP, QUIT, descriptor reuse and generations. |
| Concurrent servers (C): sequential and threaded servers (`2026-09-24-c-concurrent-servers`) | modelled | accept, the blocking serving loop and the threads; the text of the commands is abstracted to the four kinds the servers tell apart. |
| BitTorrent client (Go): download scheduler (`2026-08-22-go-bittorrent-client`) | partly | The work queue, one worker per peer, hash verification and collection of results are modelled, with peers that answer, lie, stall or drop. The block requests inside downloadPiece are one step here. |
| BitTorrent client (Go): bencode, torrent files, tracker, wire messages (`2026-08-22-go-bittorrent-client`) | not modelled | Encoding and parsing of complete values; no state of its own. |
| Microservice (Rust): routes, store, ids (`2026-08-13-rust-microservice`) | modelled | One thread per connection with one request each, the routing table, and Store with its map behind a lock and its atomic counter; create and put as the two steps they are. The text of requests and responses is abstracted to what route tells apart; main.rs only starts the listener. |
| WebSocket chat (Rust): client threads, registry, frames (`2026-09-05-rust-websocket-chat`) | modelled | A thread per client that can panic, the registry behind a mutex that broadcast holds while it writes, Pongs written without it, partial writes, failing writes, and the frame header in a smaller base. The key of the handshake is a step without content; masking of what clients send is left out. |
| WebSocket chat (Rust): SHA-1 and base64 (`2026-09-05-rust-websocket-chat`) | not modelled | A pure function of the key; 32-bit rotations over 80 rounds say nothing at a smaller width. |
| Notes board (Rust): routes, forms, shared list (`2026-10-29-rust-simple-web-app`) | modelled | The list behind its mutex, every route that changes it, pages that grow stale between requests, form parsing and percent decoding character by character. Escaping of the page and the text of responses are left out. |
| Todo page (Rust, WebAssembly): state, storage, event handlers (`2026-09-21-rust-wasm-todo`) | modelled | AppState in several tabs, every handler with its persist, localStorage that may refuse a write, the text format with its escaping, and hash changes that arrive later. The markup that render writes is abstracted to the ids it offers. |
| Terminal text editor (Rust): rows, document, key loop, prompts (`2026-08-04-rust-text-editor`) | modelled | Every key of process_keypress, both prompts, scrolling, saving with failures, and the search with lower-casing that changes lengths. Drawing and colours are left out. |
| Terminal text editor (Rust): terminal (`2026-08-04-rust-text-editor`) | not modelled | Input and output through crossterm; no state besides the size. |
| 6502 core (Rust) (`2026-10-12-rust-nes-6502`) | modelled | Every operation, addressing mode and flag of the step function, with full-width bytes and addresses, on sample values of registers and operands. The opcode numbers are abstracted to the pair they decode to. |
| Roguelike (Rust): map generation, turns (`2026-10-02-rust-roguelike`) | modelled | generate with any outcome of its generator, player_move and monsters_act. The text log and the rendering, and main.rs which reads keys, are left out. |
| Linked list (Rust) (`2026-07-22-rust-linked-list`) | modelled | Boxes, links moved with take(), push, pop, peek_mut, the three iterators and the iterative Drop. |
| Browser engine (Rust): HTML parser (`2026-08-26-rust-browser-engine`) | modelled | The recursive descent as a stack of open elements, over documents of a few pieces, with comments, attributes, void elements, stray and missing closing tags. |
| Browser engine (Rust): selectors and cascade (`2026-08-26-rust-browser-engine`) | partly | Specificity, the two sorts, matching and the order in which declarations are applied. The tokens of css.rs (identifiers, lengths, colours) are not modelled: a pure function of the text. |
| Browser engine (Rust): layout and painting (`2026-08-26-rust-browser-engine`) | modelled | The box tree with anonymous blocks, widths, margins, positions and heights in half pixels, the display list and the canvas. Floating-point rounding is left out. |
| Neuroevolution (Rust): simulation, genetic algorithm, chromosomes (`2026-09-13-rust-neuroevolution`) | partly | The tick, meals, the end of a generation, and the way of weights through a chromosome. What a network computes from what the eye sees is any move. |
| Neuroevolution (Rust): eye and vectors (`2026-09-13-rust-neuroevolution`) | not modelled | Floating-point geometry, out of TLC's reach; main.rs prints statistics. |
| URL shortener (Go) (`2026-07-15-go-url-shortener`) | not modelled | Planned: store under a lock shared by handlers, code generation with retries, a file rewritten on every change. |
| Hash table (C) (`2026-07-21-c-hash-table`) | not modelled | Planned: open addressing with tombstones and resizing, against an abstract map. |
| Game of Life (Python) (`2026-07-23-python-game-of-life`) | not modelled | A pure function of its input, without state or interleavings; one deterministic rule on a grid. |
| Redis server (Ruby) (`2026-07-24-ruby-redis-server`) | not modelled | Planned: one thread per connection over one locked store with keys that expire when read. |
| Snake (JavaScript) (`2026-07-25-js-snake-game`) | not modelled | Planned: game state machine, with direction changes between two ticks. |
| Lox interpreter (Java) (`2026-07-26-java-lox-interpreter`) | not modelled | A pure function of its input, without state or interleavings; scanner, parser and tree walker of a language; no bounded input set says much about them. |
| Flat-file blog (PHP) (`2026-07-27-php-flat-file-blog`) | not modelled | Renders files to pages; no state of its own. |
| CHIP-8 emulator (C++) (`2026-07-28-cpp-chip8-emulator`) | not modelled | Planned: the fetch and execute step with its program counter, stack and timers. |
| LC-3 virtual machine (Lua) (`2026-07-29-lua-lc3-vm`) | not modelled | Planned: the execute step on small words. |
| Unix shell (Go) (`2026-07-31-go-shell`) | not modelled | Planned: job table, pipelines and signals. |
| minidb (TypeScript) (`2026-08-01-ts-simple-database`) | not modelled | Planned: page cache, rows in pages, and what a close and a reopening keep. |
| Memory allocator (C) (`2026-08-02-c-memory-allocator`) | not modelled | Planned: first-fit list of blocks over sbrk; the last block shrinks the break. |
| Mini Git (Ruby) (`2026-08-03-ruby-mini-git`) | not modelled | Planned: index, objects and references. |
| Blockchain (Python) (`2026-08-05-python-blockchain`) | not modelled | Planned: chain, pending transactions, mining reward, validation after tampering. |
| Redux (JavaScript) (`2026-08-06-js-redux`) | not modelled | Planned: dispatch, subscribers that change during notification, middleware. |
| Scheme interpreter (Haskell) (`2026-08-07-haskell-scheme`) | not modelled | A pure function of its input, without state or interleavings; parser and evaluator. |
| Ray tracer (C++) (`2026-08-08-cpp-raytracer`) | not modelled | Floating-point arithmetic, out of TLC's reach; renders one image. |
| HTTP server (Java) (`2026-08-09-java-http-server`) | not modelled | Planned: thread pool, keep-alive and shutdown. |
| Kaleidoscope compiler (OCaml) (`2026-08-10-ocaml-llvm-compiler`) | not modelled | A pure function of its input, without state or interleavings; parser and code generator. |
| RPG game engine (C#) (`2026-08-11-csharp-rpg-game`) | not modelled | Planned: player, quests, inventory and combat. |
| Spreadsheet (F#) (`2026-08-14-fsharp-spreadsheet`) | not modelled | Planned: recalculation and cycle detection. |
| URL shortener (Elixir) (`2026-08-15-elixir-url-shortener`) | not modelled | Planned: two Mnesia tables, codes drawn with retries, a click counter bumped by concurrent tasks. |
| Spell checker (Clojure) (`2026-08-16-clojure-spell-checker`) | not modelled | A pure function of its input, without state or interleavings; edit distance against a dictionary. |
| Regular expression engine (Scala) (`2026-08-17-scala-regex-engine`) | not modelled | Planned: matching against a denotational definition. |
| ChatBus (Erlang) (`2026-08-18-erlang-chatbus`) | not modelled | Planned: rooms as processes, monitors, crashes and restarts. |
| Ranking engine (Kotlin) (`2026-08-19-kotlin-keddit`) | not modelled | Floating-point arithmetic, out of TLC's reach; scores of posts. |
| Association rules (R) (`2026-08-20-r-association-rules`) | not modelled | A pure function of its input, without state or interleavings; statistics over a table. |
| Network stack (Ruby) (`2026-08-21-ruby-network-stack`) | not modelled | A pure function of its input, without state or interleavings; encoders and decoders of four header formats. |
| Lisp (C) (`2026-08-23-c-lisp`) | not modelled | A pure function of its input, without state or interleavings; parser and evaluator. |
| Search engine (Python) (`2026-08-24-python-search-engine`) | not modelled | Floating-point arithmetic, out of TLC's reach; ranking over an inverted index. |
| Software rasterizer (C++) (`2026-08-25-cpp-tiny-renderer`) | not modelled | Floating-point arithmetic, out of TLC's reach; renders one image. |
| Game Boy CPU (OCaml) (`2026-08-27-ocaml-gameboy-cpu`) | not modelled | Planned: the execute step and its flags. |
| Actor blockchain (Scala) (`2026-08-28-scala-actor-blockchain`) | not modelled | Planned: actors mining and exchanging blocks. |
| Virtual DOM (JavaScript) (`2026-08-29-js-virtual-dom`) | not modelled | Planned: diff and patch against the new tree. |
| Web framework (TypeScript) (`2026-08-30-ts-web-framework`) | not modelled | Planned: middleware chain. |
| REST book server (Go) (`2026-08-31-go-rest-api`) | not modelled | Planned: books with versions under a mutex, updates conditional on the version. |
| Bytecode interpreter (Python) (`2026-09-01-python-bytecode-interpreter`) | not modelled | Planned: frames, blocks and unwinding. |
| C compiler (C++) (`2026-09-03-cpp-mini-c-compiler`) | not modelled | A pure function of its input, without state or interleavings; parser and code generator. |
| IRC bot (Haskell) (`2026-09-04-haskell-irc-bot`) | not modelled | Planned: connection state and replies. |
| Todo list (JavaScript) (`2026-09-06-js-todo-list`) | not modelled | Planned: lists, ordering and local storage. |
| Weather app (TypeScript) (`2026-09-07-ts-weather-app`) | not modelled | Planned: retries with backoff, shared concurrent requests, superseded answers, stale cache. |
| Blockchain (Go) (`2026-09-08-go-blockchain`) | not modelled | Planned: mining, validation and the saved chain. |
| x86-64 JIT (Python) (`2026-09-09-python-x86-jit`) | not modelled | A pure function of its input, without state or interleavings; instruction encoding. |
| grep (PHP) (`2026-09-10-php-grep-clone`) | not modelled | A pure function of its input, without state or interleavings; regular expression matching; see the Scala engine for the plan. |
| Shell (C) (`2026-09-11-c-shell`) | not modelled | Planned: pipelines, descriptors and child processes. |
| Roguelike (C#) (`2026-09-12-csharp-roguelike`) | not modelled | Planned: turns, combat and map. |
| Matrix multiplication (C++) (`2026-09-14-cpp-matmul`) | not modelled | Floating-point arithmetic, out of TLC's reach; benchmarks. |
| User authentication (Java, Spring) (`2026-09-15-java-spring-auth`) | not modelled | Planned: registration, login and tokens. |
| Calculator (HTML and JavaScript) (`2026-09-16-html-calculator`) | not modelled | Planned: key presses as a state machine. |
| Library lending (Go, Godog) (`2026-09-17-go-bdd-library`) | not modelled | Planned: borrowing, returning and limits; the rest of the folder is vendored code. |
| Laravel CRUD application (PHP) (`2026-09-18-php-laravel-crud`) | not modelled | Mostly framework scaffolding around one table. |
| Ledger (R, Shiny) (`2026-09-19-r-shiny-ledger`) | not modelled | Floating-point arithmetic, out of TLC's reach; sums over a table. |
| Tetris (ClojureScript) (`2026-09-20-clojure-tetris`) | not modelled | Planned: board, moves and line clearing. |
| Live code reloader (C++) (`2026-09-22-cpp-live-reload`) | not modelled | Planned: watching the file time, loading the new library and swapping its symbols between ticks. |
| Microblog (Python, Flask) (`2026-09-23-python-flask-microblog`) | not modelled | Planned: followers and timelines. |
| Poly language (Haskell) (`2026-09-25-haskell-poly-lang`) | not modelled | A pure function of its input, without state or interleavings; type inference. |
| Bookstore (Go, Gin) (`2026-09-26-go-gin-bookstore`) | not modelled | Planned: books by id with an index by ISBN that must agree with them. |
| Social network (Ruby on Rails) (`2026-09-27-ruby-rails-social`) | not modelled | Planned: users who follow each other and a feed. |
| Wiki (C#) (`2026-09-28-csharp-corewiki`) | not modelled | Planned: saves conditional on the version read, unique slugs, revisions never rewritten. |
| Breakout (JavaScript) (`2026-10-01-js-breakout`) | not modelled | Floating-point arithmetic, out of TLC's reach; ball physics. |
| Pascal interpreter (Python) (`2026-10-03-python-simple-interpreter`) | not modelled | A pure function of its input, without state or interleavings; lexer, parser and evaluator. |
| SQLite-style database (C) (`2026-10-05-c-simple-database`) | not modelled | Planned: pages, pager and B-tree splits. |
| Git (Python) (`2026-10-06-python-wyag`) | not modelled | Planned: objects, references and index. |
| Tic-tac-toe AI (Python) (`2026-10-07-python-tictactoe-ai`) | not modelled | Planned: minimax never loses. |
| Terminal snake (Go) (`2026-10-08-go-terminal-snake`) | not modelled | Planned: input goroutine and game loop. |
| Tetris (C++) (`2026-10-09-cpp-tetris`) | not modelled | Planned: board, moves and line clearing. |
| Linear regression (Python) (`2026-10-10-python-linear-regression`) | not modelled | Floating-point arithmetic, out of TLC's reach; gradient descent. |
| JavaScript30 trio (`2026-10-11-js-javascript30`) | not modelled | Event handlers of a page; nothing to relate. |
| ASCII art (Python) (`2026-10-14-python-ascii-art`) | not modelled | Floating-point arithmetic, out of TLC's reach; image conversion. |
| Tiny neural net (Ruby) (`2026-10-15-ruby-tiny-neural-net`) | not modelled | Floating-point arithmetic, out of TLC's reach; training. |
| Tiny C compiler (Java) (`2026-10-16-java-c-compiler`) | not modelled | A pure function of its input, without state or interleavings; parser and code generator. |
| Explosion renderer (C++) (`2026-10-17-cpp-tinykaboom`) | not modelled | Floating-point arithmetic, out of TLC's reach; renders one image. |
| Container (Go) (`2026-10-19-go-container`) | not modelled | Calls to the kernel in a fixed order; the kernel does the work. |
| Photomosaic (Python) (`2026-10-22-python-photomosaic`) | not modelled | Floating-point arithmetic, out of TLC's reach; image conversion. |
| Neural network (Python) (`2026-10-23-python-neural-net`) | not modelled | Floating-point arithmetic, out of TLC's reach; training. |
| Flappy Bird (JavaScript) (`2026-10-26-js-flappy-bird`) | not modelled | Floating-point arithmetic, out of TLC's reach; game physics. |
| Calculator (Go) (`2026-10-30-go-wasm-calculator`) | not modelled | A pure function of its input, without state or interleavings; expression parser. |
| KNN recommender (Python) (`2026-10-31-python-knn-recommender`) | not modelled | Floating-point arithmetic, out of TLC's reach; distances. |
| Raycaster (C++) (`2026-11-01-cpp-tinyraycaster`) | not modelled | Floating-point arithmetic, out of TLC's reach; renders images. |
| Genetic algorithm (Python) (`2026-11-03-python-genetic-algorithm`) | not modelled | Floating-point arithmetic, out of TLC's reach; random search. |
| kilo text editor (C) (`2026-11-07-c-kilo-text-editor`) | not modelled | Planned: rows, cursor and scrolling. |

"Planned" means that the program has state worth modelling and no module yet;
the plan below gives the order.

## Modules

| Module | Models | Extends / instantiates |
|---|---|---|
| `KvMap` | what a key-value store promises: a map changed one key at a time | |
| `LsmStore` | `store.c`, `wal.c`, `sstable.c`, `memtable.c`, `record.c` | `KvMap` through `ImplementsMap` |
| `LsmFaults` | what is left of the store's guarantees under all faults | extends `LsmStore` |
| `LsmStoreProofs` | theorems about `LsmStore` and `LsmFaults` | extends `LsmFaults` |
| `TcpChat` | `hub.go`, `client.go`, `server.go` | |
| `TcpChatProofs` | theorems about `TcpChat` | extends `TcpChat` |
| `MqttBus` | what a broker promises to its clients, by client id | |
| `MqttBroker` | `broker.c` | `MqttBus` through `ImplementsBus` |
| `MqttBrokerProofs` | theorems about `MqttBroker` | extends `MqttBroker`, `BoundedInduction` |
| `MqttFrames`, `MqttTopics` | framing, filter validation and matching of `mqtt.c` | |
| `EpollServer` | `server_epoll.c` | |
| `EpollServerProofs` | theorems about `EpollServer` | extends `EpollServer`, `BoundedInduction` |
| `BlockingServers` | `server_sequential.c`, `server_threaded.c`, `common.c` | |
| `TorrentDownload` | `client/download.go` | |
| `NetworkProofs` | theorems about the download, the topic filters and the framing | extends `TorrentDownload`, `MqttTopics`, `MqttFrames`, `BoundedInduction` |
| `ItemStore` | microservice: `store.rs`, and the routes and connection threads of `server.rs` | |
| `WsChat` | WebSocket chat: `server.rs`, `websocket.rs` | |
| `NotesBoard` | notes board: `app.rs`, form decoding of `http.rs` | |
| `TodoApp` | todo page: `state.rs`, `dom.rs` | |
| `WebProofs` | theorems about the four web programs | extends `ItemStore`, `NotesBoard`, `WsChat`, `TodoApp`, `BoundedInduction` |
| `TextBuffer` | what an editor promises: one text, one point, edits at the point | |
| `TextEditor` | editor: `row.rs`, `document.rs`, `editor.rs` | `TextBuffer` through `EditsAsOneText` |
| `Cpu6502` | 6502 core: `lib.rs` | |
| `Roguelike` | map generation and turns | |
| `LinkedList` | the list, its iterators and `Drop` | |
| `MachinesProofs` | theorems about the list, the roguelike and the editor | extends `LinkedList`, `Roguelike`, `TextEditor`, `BoundedInduction` |
| `HtmlParser`, `StyleCascade`, `BlockLayout` | browser engine: `html_parser.rs`; selectors of `css.rs` and `style.rs`; `layout.rs` and `painting.rs` | |
| `Evolution` | neuroevolution: `simulation.rs`, `genetic_algorithm.rs`, `neural_network.rs`, `brain.rs`, `animal_individual.rs` | |
| `BoundedInduction` | no program: induction over an interval, and what loops, minima and sequences need of it, for the proof modules | |
| `MCMqttBroker`, `MCTextEditor` | constants | extend their module |
| `MCNetwork` | frames, topics, epoll, blocking servers and torrent in one run | extends `TorrentDownload`, `EpollServer`, `MqttTopics`, `MqttFrames`, instantiates `BlockingServers` |
| `MCWeb` | item service, WebSocket chat, notes board and todo page in one run | extends all four |
| `MCPrograms` | the programs that serve nobody in one run: the store twice, without and with all faults, and the other Rust programs | extends `LsmStore`, `LinkedList`, `TextEditor`, `Roguelike`, instantiates `LsmFaults` and the others |

The last three are harnesses: the variable `part` says which program a
behaviour is of and never changes. A harness extends the programs that have a
proof module, so that the run checks the very definitions that the theorems are
about; their variables rest in an initial state while another part runs. The
other programs share the state variables `v1`, `v2`, ..., and a property of one
of them is stated for the behaviours of its part. Nothing is composed that does not interact in the repository: the
programs are separate, and each behaviour is one of a single program under that
program's own fairness.

Each variable names in its comment the variable of the program it stands for, and
definitions keep the source's function names where there is one. Operators
whose comment starts with "Variant" or "As ..." are not part of the model:
they are the mutated forms that `PROJECT.json` pairs with properties.

**LsmStore.** A step is one effect on the directory with the memory updates
that follow it. `kv_flush` is three steps (`sstable_flush`, `wal_truncate`, then
possibly `sstable_compact` and one `RemoveOld` per old table), so `Crash`
may come between any two of them; `CrashInLog`, `CrashInFlush` and
`CrashInCompact` are a death inside a write. Every file operation can also fail
and let the program go on: `FlushError` and `CompactError` (a table cannot be
written, a part of it stays), `LogError` (`kv_put` returns -1 with a part of
the record in the log), `TruncateError` (`nolog`: the process goes on with no
log), `RemoveError`, and `FlushShort` and `CompactShort`, where only `fclose`
sees the error, its result is ignored, and the index has entries (`lost`) for
records that are not in the file. `Faults` selects which of these
may happen. `Contents` is what a restart reads: `Fails` as soon as a table is
torn, since `kv_open` then returns -1; `Stored` is what the directory holds
all the same. Records are key/value pairs, a torn one is marked; `Replays` says
what `wal_replay` may make of bytes behind a torn record. Keys are numbers
because the order of records in a file decides what a torn file holds.

**TcpChat.** The handler's program counter `hpc` goes `new`, `nick`
(`negotiateNick`), `serve`, `leave`, `close`, `wait`, `done`; `tell` and `bye`
are the delivery loop of a hub method, one client per step and with the mutex
held. Channels are counters: a line's text matters to no property, its order
does and is kept in `offered`/`ordered`. A `/msg` whose fields are separated by
tabs panics in `dispatch` (`MsgPanics`): the deferred clean-up still runs, and
when the handler is done the process ends (`dying`, `Running`). Lines are counted up to `MaxLines`.

**MqttBroker.** `pc` and `k` are the position in the round: `poll`, `accept`,
`serve` slot `k`, `read` (handling packets of slot `k`), `tail` (the closing
pass). `flush` and `recv` answer whatever the kernel may answer. Filters and
topics are values related by the constant `Matches`; what the relation is on
real strings is the subject of `MqttTopics`. Packet contents are the choices
of `Packet`. `MaxAge`, `MaxPubs` and `MaxOut` bound the clock, the publications
and the queues.

**MqttFrames, MqttTopics.** The decoder of the variable-length integer runs
over a stream cut into arbitrary reads; packets have bodies of bytes, and the
stream may end in a length with a digit too many, or the connection may end or be
closed by a handler at any point (`ConnEnds`). The run uses base 2 and at
most three digits instead of base 128 and four, so that every boundary is inside
the bounds; the theorem is for any base. The matcher walks two strings with two
positions as the C code does with pointers, one action per turn of its loop; the
reference definition numbers the levels of a string by the slashes in front of
them and compares levels.

**EpollServer, BlockingServers.** A line is one of four kinds, which is all
that the servers tell apart. Replies are tagged with the connection's
generation and the number of the line they answer, and consist of `Parts`
parts so that a send can stop half way. `Ready` is everything that
`epoll_wait` may report, `batch` the events still to handle.

**TorrentDownload.** Workers move between `dial`, `range`, `download`,
`verify`, `exited`. Peers in `Honest` answer and have every piece, the others
do anything. The exchange of blocks inside `downloadPiece` is one step: its
outcome is a good buffer, a bad one, or an error.

**ItemStore.** A thread reads a request, routes it, and for `POST` and `PUT`
takes two steps, because the counter is not under the map's lock. Ids have a
width: `LastId` is the largest, and adding to it wraps, or panics where the code
adds without wrapping.

**WsChat.** The mutex is the variable `lock`. A broadcast is a list of frames to
write (`todo`) that its thread works off in chunks of at most `Chunk` bytes, so
that a Pong of another thread may come between two of them. Frames are
sequences of bytes with the three forms of the length, in a base so small that
each of them occurs; `read_frame` reads a socket's bytes back. A thread ends
in three ways: `handle_client` returns and `Depart` takes the id out of the
registry; a write fails; or `vec![0u8; len]` panics on a length no `Vec` can have
(`Panics`), which skips the removal and leaves the id to the next broadcast
whose write fails. (A length that is possible and too large for the machine's
memory aborts the process; that is not modelled.)

**NotesBoard, TodoApp.** Conversions are modelled by what they do: percent
decoding character by character, `trim`, truncation; for the todo page
`escape`, `serialize`, splitting into lines and fields, `unescape`. Characters
that these functions treat specially are among the texts; so are texts that look
encoded already.

**TextEditor.** One action per key, with prompts as modes of their own that
keep the query and the position to return to; every key ends with the cursor
back in its row and the view scrolled to it, as in the code. The view is in
characters of the row, as `scroll` computes it; that a row is drawn with its tabs
expanded is left out with the drawing. Lower-casing maps a `Dotted` character to two.

**Cpu6502.** An action executes the instruction at `pc`, whatever it is: memory
is not a byte array but the values that the instruction meets, chosen from sample
bytes, and for the stack what the program itself has pushed. The
operations with their modes are the opcode table of the code.

**Roguelike, LinkedList.** Random numbers are nondeterministic choices. Boxes
of the list are numbered; `holder` says who holds the list, which is what the
borrow checker enforces.

**HtmlParser, StyleCascade, BlockLayout.** One action per step of the parser or
of the loop; the recursion of the parser is an explicit stack. Each module has a
reference definition (`Tree`, the strongest declaration, geometry of
margin boxes, the last covering box per pixel) written without following
the code. The reference tree of the parser speaks of documents whose closing
tags all have an element to close; about the others see
[below](#disagreements-between-code-and-documentation). Layout computes in half
pixels, so that halving is exact; of keywords it tells `auto` (`Auto`) from all
others (`OtherWord`, 0 pixels and not auto). The styling of one element is modelled;
`style_tree` does the same at every node.

**Evolution.** Weights carry their origin: a founder and the place in the
network. Walks of animals, selection, and for each child its coins and mutated
genes are choices. `from_weights` gives no network when the weights do not fit the
topology, which is the code's panic.

## Runs

| Run | Question | Result |
|---|---|---|
| `programs` | Store: whatever step the process dies at, does a restart that succeeds read the acknowledged map, and does the store implement `KvMap` (with a refusal as its end)? With every file operation failing as well, is a value ever lost other than by writing behind a torn record or by a table that `fclose` cut short? Others: the editor as one text, flags and stack of the 6502, connected maps, ownership in the list, HTML, cascade, layout and painting by definition, weights through the generations | holds |
| `lsm_refused` | Does the store always survive a process that died? | violated |
| `lsm_overrun` | Is the log durable when writing goes on behind a torn record? | violated |
| `chat` | Nicknames, panics, order, single writer, clean-up | holds |
| `mqtt` | Sessions, slots, stale poll results, keepalive, slow readers, refinement of `MqttBus` | holds |
| `mqtt_limit` | Does a client stay within `MAX_SUBS` subscriptions? | violated |
| `network` | Framing and matching of the broker, ownership and wholeness of replies of the three line servers, who waits for whom, pieces and termination of the download with one honest peer of three | holds |
| `epoll_stale` | Is an event handled for the connection it was reported for? | violated |
| `torrent_hang` | Is a piece that was put back always tried again? | violated |
| `web` | Fresh ids, whole texts in one order, sessions that leave, stale pages, text that survives its conversions, reload of a tab | holds |
| `items_overwrite` | Does a create ever overwrite an item that a client has put? | violated |
| `editor_search` | Does a search put the cursor on the match? | violated |

Why the bounds are enough to make the interesting cases happen:

* LSM: two keys are what it takes for a table to be torn between records and
  for one key to be deleted while another stays. With `FlushThreshold` and
  `CompactThreshold` 2 and three ids a behaviour contains two flushes, a
  compaction and a restart in between. One store has deaths inside tables, the
  other every fault. The theorems remove these
  bounds, for the store with all faults too.
* Chat: two connections and two nicknames give every conflict between two
  hub methods; a buffer of one line makes full channels common. The theorems
  remove these bounds.
* MQTT: two slots and one client id give takeover, slot reuse and descriptor
  reuse within a round; two filters, one of which matches everything, give
  overlapping subscriptions; keepalive 1 with the clock capped at 2
  seconds passes both limits.
* Epoll: two descriptors for connections and timers and two
  connections over the run give reuse of a number by the other kind; the stale
  events need a third descriptor and batches of three, which `epoll_stale`
  uses. One line per connection is enough for `QUIT` and `SLEEP` races; two
  parts per reply give partial sends.
* Torrent: three peers, one honest, and two pieces let two bad peers hold
  all pieces at once.
* Topics: filters of up to four and topics of up to three characters, which
  gives every combination of `+`, `#`, `/` and an empty level.
* Frames: up to three packets with bodies of up to five bytes, of which the
  largest do not fit the buffer of eight, and recv() may stop at every byte.
* Items: three connections give a create, a replace and a delete of one id in
  every order; a replace may ask for the largest id, behind which the counter
  wraps: `PutIds` holds the first id, the largest and the one below it. `FreshIds`
  is about creates whose counter has not wrapped (`NoWrap`) and is below
  `LastId`; at 64 bits only a client that puts the largest id gets it there.
* WebSocket: three clients, two frames; with `Literal` 0 and `Base` 2 the
  lengths 0, 1 and 2 use the three forms of the header, and frames longer than
  `Chunk` are written in parts. One of the three clients need not read.
* Notes, todos: two users and three notes with a limit of two characters, two
  tabs and two additions; the texts are the ones that conversions could confuse.
* Editor: two edits on two rows, on a screen of three by two that must scroll;
  two warnings before it quits.
* 6502: sample bytes 0, 127, 128, 255 are the boundaries of the carry, the sign
  and the overflow; stack pointers 0 and 253 wrap within the four steps of a run.
* Roguelike: three attempts on a map of 8 by 6 that has room for two rooms or
  three; three turns.
* List: three boxes. HTML: four pieces. Styles: two rules. Layout: trees of
  depth two and three in a viewport of 4 by 3, roots with and without colour, blocks
  with a background and a border, and a child that sticks out of a box of
  explicit height over the sibling behind it, so that what is painted last matters.
  Evolution: two animals, one piece of food, two generations, two outcomes of
  the coins and of the mutation for each child.

Deadlock is checked where the program has no end (`mqtt` and its variant, and
`epoll_stale`); the other models stop when their bounded inputs are used up,
or, for the download, when it has returned.

## Fairness

* Chat: the Go scheduler runs every goroutine that can run (weak fairness of
  the delivery loop, the writer and the steps of the clean-up), and
  `sync.Mutex` does not starve a waiter (strong fairness of `Leave`). A peer
  need not read and need not say anything, so neither a write nor an input
  is assumed to happen.
* MQTT: all sockets are non-blocking, so the loop's own steps go on (weak
  fairness of `Loop`), and infinitely many rounds see the clock advance (strong
  fairness of `Poll(1)`). Nothing is assumed of peers except of those marked
  `reads`, whose sockets take something when they are written to.
* Blocking servers: threads that can run do. `Receive` is not fair: a client
  may stay silent for ever.
* Torrent: goroutines run; a goroutine waiting on a channel is served in turn
  (the runtime queues receivers first in, first out), hence `SF(Take(w))`.
* Frames: the broker reads and decodes as long as there is something, unless the
  connection ends.
* WebSocket chat: threads that can run do: the release of the mutex, the clean-up
  `Depart`, and a write to a client in `Readers`, which drains its socket (weak
  fairness). A write to another client may block for ever with the mutex held,
  which `LEARNING.md:96-97` admits; `LeavesRegistry` is therefore stated of
  behaviours that are not stalled in this way for good, and it says nothing of
  threads that panicked. A client need not say anything, and nothing says when it
  closes.

The other models have only safety properties.

## Proofs

Proved with TLAPS, for all values of the constants that satisfy the named
assumptions:

* `LsmStoreProofs`: `TypeCorrect`, `Durability` (`[]Durable`),
  `NothingLeavesDisk`, `ReadYourWrites` (`[]ReadsLatest`) and `Refinement`
  (`ImplementsMap`). `Durability` says that a restart reads the acknowledged map or
  `kv_open` refuses; `NothingLeavesDisk` that where it refuses the directory
  still holds that map, and that it refuses only after a death.
  `TypeCorrect` needs `LsmAssumption` only and covers all faults. The other
  four assume `CrashOnly`, that is crashes at and inside every step of flush
  and compaction, but no torn log record and no operation that fails: with those
  the statement is false, see below. `Durable` is not inductive. It
  is strengthened to `IInv`: the log and the files hold only whole records
  (`Clean`); a running process knows the files on disk, in id order and below
  the next id (`TablesInOrder`); the memtable is the replay of the log, or, after
  the flush emptied it, the newest files say what the log still says
  (`MemIsLog`); and while old tables are being removed the merged table
  covers those that remain (`MergeCovers`). The last two are what makes the
  order of the operations in `kv_flush` and of the `remove` calls in
  `kv_compact` right. The lemmas are about `Latest`, `LogHits`, `wal_replay`,
  `Newest` and `ById`: what an append, a new newest table or a removal of the
  oldest one does to them. For `Refinement` each step is shown to change what
  a restart reads at one key at most, or to make it refuse for good.

  Under all faults, torn log records and every failing file operation included, from
  `LsmAssumption` alone: `ValuesSurviveFaults` (`FaultsCostNoValue` of
  `LsmFaults`), that no step loses an acknowledged value on disk or in the
  running process unless it writes behind a torn record or writes a table that
  `fclose` cuts short (`Whole`), and `ValuesHold`, the same as a statement about
  whole behaviours: while `Whole` holds every acknowledged value is on disk and
  found by the running process, and a restart finds it unless it is refused. `FaultInv` (theorem
  `FaultInvariant`) says which files a process may not know of: the leftover of
  a failed flush, whose keys are all still in the memtable, or files below its
  next id. The proof corrected the property: an earlier form looked at
  what `kv_get` returns between two operations only, was therefore not a
  property of single steps, and was false beyond the bounds of the run. It
  now says what `kv_get` will return once the operation under way is done
  (`AfterOp`).
* `TcpChatProofs`: `TypeCorrect`, `NicknamesUnique`, `NoPanic`, `OneWriter`
  and `TotalOrder`, from `ChatAssumption`, for any set of connections and
  nicknames and any buffer size. The inductive invariant `Core` adds to the
  properties that only the holder of the mutex has deliveries left, all of the
  latest line and to current members (`Deliveries`), and that
  membership and the closed channel follow the handler's position
  (`Membership`): a client leaves before its channel is closed and no
  delivery can still name it.

* `MqttBrokerProofs`: `TableIsSound` (`[]TableSound`), `ServesWhatWasPolled`
  (`[]ServesPolled`) and `BrokerImplementsBus` (`ImplementsBus`), from
  `BrokerAssumption`, for any number of slots, ids, filters, topics and any
  relation `Matches`. `IndInv` (theorem `TableInvariant`) adds what a slot holds
  before its CONNECT (`SlotOk`), that no two open slots share a descriptor, and
  `PolledSeen`: until the first polled slot is served nothing was closed, so a
  connection that was accepted in this round sits in a slot that was not
  polled. That is why comparing descriptor numbers is enough. For the
  refinement each handler is shown to change the sessions of the bus by one bus
  step; `publish` and `handle_subscribe` loop over slots and filters, which is
  where `BoundedInduction` comes in. The model takes no step once a client has
  more than `MAX_SUBS` subscriptions (run `mqtt_limit`), so the theorems speak of
  behaviours up to such an overrun.
* `EpollServerProofs`: `RepliesReachTheirPeer` (`[]EpollSound`: the types, the
  two tables, and every peer's stream), from `EpollAssumption`, for any number of
  descriptors, connections, lines, events in a batch and parts of a reply.
  The stream of a peer is what the kernel took and what is queued. `IndInv`
  (theorem `EpollInvariant`) adds that a free entry is blank, that a timer is for
  a line that was handled, has no second timer and is unanswered, that answers
  exist only for lines that were handled, and that the stream of an open
  connection ends with a whole reply; without the last one a reply could be
  queued behind half of another. It is stated of the state as a value
  (`StateOk`), and every handler is a composition of a few changes that
  preserve it: a descriptor becomes a connection or a timer, lines come in, a
  line is handed over, data is sent, a timer or a connection goes. `Outcome`
  says what `conn_send` and `conn_try_flush` may leave, wherever `send` stops.
* `NetworkProofs`: three programs.
  * `PiecesAreSound` (`[]PiecesSound`), from `TorrentAssumption`, for any finite
    set of pieces and any peers. `IndInv` (theorem `PiecesInvariant`) says that
    each piece is in one of four places (work channel, hands of a worker,
    results, file) and nowhere twice; the bounds on the channels (`NeverBlocks`)
    and the meaning of Download's counter follow by counting.
  * `TopicsMatch` (`[]MatchesByLevel`), from `TopicsAssumption`, for strings of
    any length. `TopicsInd` (theorem `TopicsInvariant`) is the loop invariant:
    both pointers are at the start of the level with the same number, and the
    levels in front match one by one; once the function has returned, it
    has decided as the definition does. The lemmas say where a level starts
    and ends, that the character after it starts the next one, and that a filter
    which passed `mqtt_valid_filter` has a level to itself for each wildcard.
  * `FramesSurvive` (`[]FramesArePackets`), from `FramesAssumption` (every
    length sent has at most `MaxDigits` digits), for any base, buffer and
    packets. `FramesInd` (theorem `FramesInvariant`) says that the packets handed
    over, what is left in the buffer and what is on the way make up the stream,
    and that the buffer has room whenever recv() is called, so that a return
    value of 0 is never a full buffer. That the decoder undoes the encoder is an
    induction over the digits: the value read so far, and what the encoder has
    left times the multiplier, add up to the length.
* `WebProofs`: four programs.
  * `DrawsFreshIds` (`FreshIds`, an action property), from `IdsAssumption`, for
    any connections, bodies and width of the counter. `IndInv` (theorem
    `IdsInvariant`) says that until it wraps the counter is above every id that
    a thread has drawn or claimed, whether inserted yet or not.
  * `DeletesByPlace` (`DeletesWhatWasShown`) and `StoresTexts`
    (`StoresWhatWasTyped`), both action properties, from `BoardAssumption`, for
    any users and texts. `BoardInd` (theorem `BoardInvariant`) says that the
    list starts as every page does of which no note was deleted, since
    additions go to the end, and that a request on its way is one that a form
    sends. The second theorem rests on the lemma that percent decoding undoes
    what the browser encodes.
  * `StreamsInOrder` (`[]WholeInOrder`), from `WsAssumption`, for any clients,
    payload lengths and sizes of writes. `ChatInd` (theorem `ChatInvariant`)
    says that only the holder of the mutex has writes left for other clients,
    and that a socket's bytes are whole texts in the order of the broadcasts and a
    part which the broadcast under way completes.
  * `ReloadsLists` (`[]ReloadKeeps`) and `IdsStay` (`[]IdsNameTodos`), from
    `TodoAssumption`, for any tabs and texts. The assumption includes what is
    used of number formatting: different ids are written differently, and
    neither ids nor flags contain a separator. `TodoInd` (theorem
    `TodoInvariant`) says that the ids of every tab grow along its list and stay
    below `next_id`, and that the storage holds what some tab wrote whole.
    That loading undoes saving goes through three layers, each a scan that
    undoes a spelling: characters (`escape`), fields, lines.
* `MachinesProofs`: three programs.
  * `ListIsSound` (`[]ListSound`), from `MutateAssumption`, for any number of
    boxes and any elements. `IndInv` (theorem `ListInvariant`) says that there is
    a chain from the head, or from drop's own link, that passes every live box
    once, and that an iterator stands on it behind what it has yielded. `Owned`
    and `ElemsFrom` are recursive functions; `BoundedInduction` shows that they
    compute this chain.
  * `MapConnected` (`[]Connected`) and `NobodyShares` (`[]ActorsApart`), from
    `RogueAssumption`, for any map size, number of rooms and monsters.
    `RogueInd` (theorem `RogueInvariant`) says that the carved tiles can all be
    walked to from the centre of the first room and leave the outer wall
    closed: a room hangs together, a corridor joins its centre to the one
    before, and rooms and corridors stay inside.
  * `EditorIsSound` (`[]EditorSound`) and `EditsOneText` (`EditsAsOneText`, the
    refinement of `TextBuffer`), from `EditorAssumption`, for any file, screen
    and keys. `EditorInd` (theorem `EditorInvariant`) says that the cursor, and
    the place that a prompt goes back to, lie in the document, that warnings
    left and presses of Ctrl-Q add up, and that a clean buffer is what the file
    holds. For the refinement each edit of the rows is shown to be the edit of
    the flattened text at the flattened position. The refinement assumes that no
    character is two in lower case: with one, the cursor after a search may be
    outside its row (run `editor_search`).
* `BoundedInduction`: a nonempty set of naturals has a least element, a set
  closed under successors up to `L` holds `0 .. L`, and a loop of `L` turns has
  a run. They replace the induction principles of the library, whose parameter is
  an operator, by statements about sets, which the provers can instantiate. On
  them rest the facts that several proof modules share: least and greatest
  elements of finite sets, cutting and joining sequences, what flattening does at
  the ends, and that a scanner gives back what was spelled character by
  character.

Every inductive invariant was checked with TLC on a small instance before it was
proved.

Only model-checked:

* all liveness properties, which the prover does not reach: `StaysOnlyIfHeard`
  and `Drains` of the broker, the clean-up of the chat, `AllHandled` of the
  framing, `ServesInTurn`, `TorrentReturns`, `LeavesRegistry`;
* the HTML parser, styles, layout and evolution: their reference definitions
  fold, sort or recurse over data of any shape, and what they compute for
  every input needs an induction over data;
* the 6502 core, whose logical operations come from a module of bit operations
  that the prover does not know;
* the blocking servers (`ServesInTurn`, half of which is a liveness property):
  the other half is within reach, not yet done.

## Disagreements between code and documentation

Each of these is a run that ends in a violation, with a finding in
`PROJECT.json`:

* `lsm_overrun`: `wal_open` appends behind a torn record, and the next replay
  reads the new bytes as the rest of the old record.
* `mqtt_limit`: at `MAX_SUBS` subscriptions a client that holds `#` may add
  more, because the check asks whether a subscription *matches* the new filter.
* `epoll_stale`: within a batch an event may reach the new owner of a
  descriptor number.
* `torrent_hang`: a worker takes a piece, its peer errors out, it puts the piece
  back and ends; with no other worker left the piece stays queued and `Download`
  waits for ever.
* `lsm_refused`: a process that dies inside `write_sstable` leaves a torn `.sst`,
  and `kv_open` fails from then on (`store.c:42-45`), although the log still holds
  everything that the file was to hold; `LEARNING.md:162` says the store survives
  a crashed process. `Durable` and `ImplementsMap` speak of directories that
  `kv_open` accepts.
* `items_overwrite`: a create that has drawn an id and not yet inserted
  overwrites the item that a replace of the same id stores in between.
* `editor_search`: the search counts characters in the lower-case copy of the
  row, and behind a character whose lower case is longer the cursor lands past
  the match.

Met while modelling, and visible in the models, without a run of their own:

* LSM: `write_sstable` ignores the result of `fclose` (`sstable.c:39`). A disk that
  turns out full there leaves a short table, the log is truncated all the same,
  and acknowledged values are gone (`FlushShort`, `CompactShort`). The repository
  claims nothing about full disks; `FaultsCostNoValue` excludes this and the
  overrun of the log, and nothing else.
* LSM: when `wal_truncate` or the `wal_open` behind it fails, `kv_flush` returns -1
  and the store goes on with a NULL log; the next `kv_put` dies (`TruncateError`,
  `nolog`).
* LSM: a failed compaction keeps its id and leaves a file that a restart takes
  for the newest table (`store.c:111-115`), so a deleted key may come back; this
  is why `FaultsCostNoValue` is about values and not about deletions.
* Epoll: a command behind `SLEEP` in the same packet is answered before the
  `OK`, unlike on the blocking servers (`AnsweredInTurn` holds there only);
  `tests/test_correctness.py:77` says "both answered, in order".
* Epoll: after a `QUIT` with output pending, further lines are still answered
  behind `BYE` until the queue is empty (`server_epoll.c:206-212`);
  `tests/test_correctness.py:84` says the connection is closed after `BYE`.
* WebSocket chat: a Pong is written without the mutex and may land inside a frame
  that a broadcast is writing to the same socket. `WholeInOrder` therefore
  speaks of clients that have sent no Ping.
* WebSocket chat: a thread that panics in `read_frame` (`websocket.rs:104`) leaves
  its id in the registry until a write to it fails, and a client that never
  drains its socket stalls everyone (`LEARNING.md:96-97`).
* TCP chat: a `/msg` with tabs instead of blanks panics (`server.go:121`), which
  ends the server (`MsgPanics`).
* Editor: a dirty document takes one press of Ctrl-Q more than the three that
  `LEARNING.md:26-27` and `:38-40` name (`QuitsAfterPresses` in `TextEditor` states
  that text, and the model does not have it). `NothingLost` makes no claim about
  the press in question: it is about sessions with fewer presses than
  `QUIT_TIMES`; a delete at the end of the document is called a
  "no-op" (`document.rs:96`) but sets the dirty flag; a save that fails
  truncates the file first, also when nothing was changed.
* HTML: a closing tag at top level ends the document there and what follows is
  dropped, although `html_parser.rs:4-6` says such a tag "is ignored if there is
  no ancestor to close" (`StrayIgnored` in `HtmlParser` states that text, and the model
  does not have it; `ParsesByTags` is about documents without such a tag). A lone `/` inside a tag makes `parse_attributes` loop for
  ever, and input that ends inside a tag panics (`panic` in the model).
* Painting: the header of `painting.rs` speaks of boxes that do not overlap; a
  height given explicitly and smaller than the content makes them overlap.
  `PaintedAsLaid` is about the last box that covers a pixel. If the root is the one
  with a small height, the page is cut off below it, against the comment at
  `main.rs:44-45`.
* Eye: cells are documented as lying in [0, 1], but energies of several pieces
  of food add up beyond 1 (not modelled: see below).
* Roguelike: `player_move` does not ask whether the player is still alive;
  the caller does.

## What is left out

Of the programs modelled: failing allocations, the text of
messages and commands, `fsync` and power loss (the LSM store promises to
survive a crashed process only), the field parsers of MQTT packets and the
exchange of blocks in the BitTorrent client; in the Rust programs SHA-1 and
base64 of the handshake, masking of payloads, HTTP parsing down to bytes, the
tokens of CSS, the eye and its vectors, drawing on a terminal, and the markup
that pages are rendered with. Of the others: see the table; pure
parsers, interpreters and renderers have no state to interleave, and
floating-point code is out of TLC's reach.

## Plan

1. The programs in other languages whose concurrency is comparable to the ones
   above: ChatBus (Erlang), the actor blockchain (Scala), the weather client
   (TypeScript), the HTTP server (Java), the Redis server (Ruby), the two URL
   shorteners (Go, Elixir; one abstract specification for both), the wiki's
   optimistic saves (C#).
2. Data structures and stores against abstract specifications: the hash table
   (C), the allocator (C), the page-based databases (C, TypeScript), the
   bookstore's two indexes (Go), Mini Git and wyag.
3. State machines with rules: Redux, snake, Tetris, tic-tac-toe, the shells'
   pipelines, CHIP-8, LC-3 and Game Boy steps at their word boundaries.
4. The block loop of `downloadPiece`, and the field parsers of `mqtt.c`.
5. Theorems: `OneAtATime` and `AnsweredInTurn` of the blocking servers; a
   theorem per new program, in the proof module of the programs like it.

Small programs share a run, as `MCWeb` and `MCPrograms` show.
